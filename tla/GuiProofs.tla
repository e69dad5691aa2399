----------------------------- MODULE GuiProofs -----------------------------
(***************************************************************************)
(* What a graphical client's mirror of the game amounts to once all that   *)
(* is under way to it has been handled: the players, the rituals, the eggs *)
(* and the tiles of the game, but for what the server never says.  No line *)
(* on its way is one the client will have to ignore.                       *)
(*                                                                         *)
(* The second half shows that the game and the mirror are a truth and its  *)
(* replica (Replica.tla): each step of the server reports all it changes,  *)
(* in lines that say what is so, the greeting leaves nothing out, and the  *)
(* handlers take in what the lines mean.                                   *)
(***************************************************************************)
EXTENDS Gui, WorldProofs

-----------------------------------------------------------------------------
(***************************************************************************)
(* Handling lines.  Knows(m, l) is what a mirror m has to know for line l  *)
(* not to be ignored; Works(m, s, w) says that s is a sequence of lines,   *)
(* that handling them takes m to w and that none of them is ignored.       *)
(***************************************************************************)
Knows(m, l) ==
  /\ l.cmd \in {"ppo", "plv", "pin", "pdi"} => l.player \in DOMAIN m.players
  /\ l.cmd = "bct" => l.at \in DOMAIN m.tiles
  /\ l.cmd \in {"ebo", "edi"} => l.egg \in DOMAIN m.eggs
  /\ l.cmd \in {"pnw", "enw"} => l.at \in DOMAIN m.tiles

IsRun(g, m, s) ==
  g = [k \in 0 .. Len(s) |-> IF k = 0 THEN m ELSE handleLine(g[k - 1], s[k])]

Heeds(m, s, w) ==
  \E g : /\ IsRun(g, m, s)
         /\ g[Len(s)] = w
         /\ \A k \in 1 .. Len(s) : Knows(g[k - 1], s[k])

Works(m, s, w) == Heeds(m, s, w) /\ \E S : s \in Seq(S)

(* There is one way only to handle lines. *)
LEMMA RunsAgree ==
  ASSUME NEW S, NEW s \in Seq(S), NEW m, NEW g, NEW h, IsRun(g, m, s), IsRun(h, m, s)
  PROVE  g[Len(s)] = h[Len(s)]
<1> DEFINE wrong == {k \in 0 .. Len(s) : g[k] # h[k]}
<1>1. Len(s) \in Nat
  OBVIOUS
<1>2. \A k \in 0 .. Len(s) :
        /\ g[k] = IF k = 0 THEN m ELSE handleLine(g[k - 1], s[k])
        /\ h[k] = IF k = 0 THEN m ELSE handleLine(h[k - 1], s[k])
  BY DEF IsRun
<1>3. wrong = {}
  <2> SUFFICES ASSUME wrong # {} PROVE FALSE
    OBVIOUS
  <2>1. wrong \subseteq Nat
    BY <1>1
  <2>2. PICK n \in wrong : \A j \in wrong : n <= j
    <3> HIDE DEF wrong
    <3> QED  BY <2>1, SmallestOf
  <2>3. n \in 0 .. Len(s) /\ g[n] # h[n] /\ n # 0
    BY <1>1, <1>2, <2>2
  <2>4. n - 1 \in 0 .. Len(s) /\ g[n - 1] = h[n - 1]
    BY <1>1, <2>2, <2>3
  <2> QED  BY <1>2, <2>3, <2>4
<1> QED  BY <1>1, <1>3

LEMMA HeedsAfter ==
  ASSUME NEW S, NEW s \in Seq(S), NEW m, NEW w, Heeds(m, s, w)
  PROVE  After(m, s) = w
<1> DEFINE handled == CHOOSE f : f = [n \in 0 .. Len(s) |->
                        IF n = 0 THEN m ELSE handleLine(f[n - 1], s[n])]
<1>1. PICK g : IsRun(g, m, s) /\ g[Len(s)] = w
  BY Zenon DEF Heeds
<1>2. IsRun(handled, m, s)
  BY <1>1, Zenon DEF IsRun
<1>3. After(m, s) = handled[Len(s)]
  BY Zenon DEF After
<1> HIDE DEF handled
<1> QED  BY <1>1, <1>2, <1>3, RunsAgree

LEMMA HeedsNone == ASSUME NEW m PROVE Heeds(m, <<>>, m)
<1> DEFINE g == [k \in 0 .. 0 |-> m]
<1>0. Len(<<>>) = 0
  OBVIOUS
<1>1. g = [k \in 0 .. 0 |-> IF k = 0 THEN m ELSE handleLine(g[k - 1], <<>>[k])]
  OBVIOUS
<1>2. g[0] = m
  OBVIOUS
<1>3. \A k \in 1 .. 0 : Knows(g[k - 1], <<>>[k])
  OBVIOUS
<1> HIDE DEF g
<1> QED  BY <1>0, <1>1, <1>2, <1>3, Zenon DEF Heeds, IsRun

LEMMA HeedsOne ==
  ASSUME NEW m, NEW l, Knows(m, l)
  PROVE  Heeds(m, <<l>>, handleLine(m, l))
<1> DEFINE w == handleLine(m, l)
           g == [k \in 0 .. 1 |-> IF k = 0 THEN m ELSE w]
<1>0. Len(<<l>>) = 1 /\ <<l>>[1] = l
  OBVIOUS
<1>1. g[0] = m /\ g[1] = w
  OBVIOUS
<1>2. ASSUME NEW k \in 0 .. 1
      PROVE  g[k] = IF k = 0 THEN m ELSE handleLine(g[k - 1], <<l>>[k])
  <2>1. k = 0 \/ k = 1
    OBVIOUS
  <2>2. CASE k = 0
    BY <1>1, <2>2
  <2>3. CASE k = 1
    BY <1>0, <1>1, <2>3
  <2> QED  BY <2>1, <2>2, <2>3
<1>3. g = [k \in 0 .. 1 |-> IF k = 0 THEN m ELSE handleLine(g[k - 1], <<l>>[k])]
  BY <1>2
<1>4. \A k \in 1 .. 1 : Knows(g[k - 1], <<l>>[k])
  BY <1>0, <1>1
<1>5. \E f : /\ f = [k \in 0 .. 1 |-> IF k = 0 THEN m ELSE handleLine(f[k - 1], <<l>>[k])]
             /\ f[1] = w
             /\ \A k \in 1 .. 1 : Knows(f[k - 1], <<l>>[k])
  <2> HIDE DEF g
  <2> QED  BY <1>1, <1>3, <1>4, Zenon
<1> QED  BY <1>0, <1>5, Zenon DEF Heeds, IsRun

(* Lines that come after others. *)
LEMMA HeedsOn ==
  ASSUME NEW S, NEW s \in Seq(S), NEW t \in Seq(S), NEW m, NEW w, NEW x,
         Heeds(m, s, w), Heeds(w, t, x)
  PROVE  Heeds(m, s \o t, x)
<1>1. PICK g : IsRun(g, m, s) /\ g[Len(s)] = w /\ \A k \in 1 .. Len(s) : Knows(g[k - 1], s[k])
  BY Zenon DEF Heeds
<1>2. PICK h : IsRun(h, w, t) /\ h[Len(t)] = x /\ \A k \in 1 .. Len(t) : Knows(h[k - 1], t[k])
  BY Zenon DEF Heeds
<1>3. PICK a \in Nat, b \in Nat : a = Len(s) /\ b = Len(t) /\ Len(s \o t) = a + b
  OBVIOUS
<1>4. PICK all : /\ all = s \o t
                 /\ \A k \in 1 .. a : all[k] = s[k]
                 /\ \A k \in 1 .. b : all[a + k] = t[k]
  <2>1. \A k \in 1 .. a : (s \o t)[k] = s[k]
    BY <1>3
  <2>2. ASSUME NEW k \in 1 .. b PROVE (s \o t)[a + k] = t[k]
    <3>1. a + k \in 1 .. a + b /\ a + k > a /\ (a + k) - a = k
      OBVIOUS
    <3> QED  BY <1>3, <3>1
  <2> QED  BY <2>1, <2>2
<1> DEFINE f == [k \in 0 .. a + b |-> IF k <= a THEN g[k] ELSE h[k - a]]
<1>5. /\ \A k \in 0 .. a : g[k] = IF k = 0 THEN m ELSE handleLine(g[k - 1], s[k])
      /\ \A k \in 0 .. b : h[k] = IF k = 0 THEN w ELSE handleLine(h[k - 1], t[k])
  BY <1>1, <1>2, <1>3 DEF IsRun
<1>6. ASSUME NEW k \in 1 .. a + b
      PROVE  /\ f[k] = handleLine(f[k - 1], all[k])
             /\ Knows(f[k - 1], all[k])
  <2>1. CASE k <= a
    <3>0. k \in 1 .. a /\ k - 1 \in 0 .. a + b /\ k \in 0 .. a + b /\ k - 1 <= a
      BY <2>1
    <3>1. k \in 1 .. a /\ f[k] = g[k] /\ f[k - 1] = g[k - 1] /\ all[k] = s[k]
      <4>1. f[k] = g[k]
        BY <2>1, <3>0
      <4>2. f[k - 1] = g[k - 1]
        BY <3>0
      <4>3. all[k] = s[k]
        <5> HIDE DEF f
        <5> QED  BY <1>4, <3>0
      <4> QED  BY <3>0, <4>1, <4>2, <4>3, Zenon
    <3>2. g[k] = handleLine(g[k - 1], s[k]) /\ Knows(g[k - 1], s[k])
      <4>1. k \in 0 .. a /\ k # 0 /\ k \in 1 .. Len(s)
        BY <1>3, <3>0
      <4> HIDE DEF f
      <4> QED  BY <1>1, <1>5, <4>1
    <3> QED  BY <3>1, <3>2
  <2>2. CASE k > a
    <3>1. PICK j \in 1 .. b : k = a + j /\ j = k - a
      BY <2>2
    <3>2. f[k] = h[j] /\ all[k] = t[j]
      <4>1. k \in 0 .. a + b /\ ~(k <= a)
        BY <2>2
      <4>2. f[k] = h[j]
        BY <3>1, <4>1
      <4> HIDE DEF f
      <4> QED  BY <1>4, <3>1, <4>2
    <3>3. f[k - 1] = h[j - 1]
      <4>1. CASE j = 1
        <5>1. k - 1 = a /\ j - 1 = 0
          BY <3>1, <4>1
        <5>2. f[a] = g[a] /\ g[a] = w /\ h[0] = w
          BY <1>1, <1>3, <1>5
        <5> QED  BY <5>1, <5>2
      <4>2. CASE j # 1
        BY <3>1, <4>2
      <4> QED  BY <4>1, <4>2
    <3>4. h[j] = handleLine(h[j - 1], t[j]) /\ Knows(h[j - 1], t[j])
      BY <1>2, <1>3, <1>5, <3>1, SMTT(40)
    <3> HIDE DEF f
    <3> QED  BY <3>2, <3>3, <3>4
  <2> QED  BY <2>1, <2>2
<1>7. f[0] = m
  BY <1>5
<1>8. f[a + b] = x
  <2>1. CASE b = 0
    BY <1>1, <1>2, <1>3, <1>5, <2>1
  <2>2. CASE b # 0
    BY <1>2, <1>3, <2>2
  <2> QED  BY <2>1, <2>2
<1>9. f = [k \in 0 .. a + b |-> IF k = 0 THEN m ELSE handleLine(f[k - 1], all[k])]
  <2>1. ASSUME NEW k \in 0 .. a + b
        PROVE  f[k] = IF k = 0 THEN m ELSE handleLine(f[k - 1], all[k])
    <3>1. CASE k = 0
      BY <1>7, <3>1
    <3>2. CASE k # 0
      <4>1. k \in 1 .. a + b
        BY <3>2
      <4> HIDE DEF f
      <4> QED  BY <1>6, <3>2, <4>1
    <3> QED  BY <3>1, <3>2
  <2> QED  BY <2>1
<1> HIDE DEF f
<1> QED  BY <1>3, <1>4, <1>6, <1>8, <1>9 DEF Heeds, IsRun

(* The first line, and the rest. *)
LEMMA HeedsTail ==
  ASSUME NEW S, NEW s \in Seq(S), NEW m, NEW w, Heeds(m, s, w), s # <<>>
  PROVE  Knows(m, Head(s)) /\ Heeds(handleLine(m, Head(s)), Tail(s), w)
<1>1. PICK g : IsRun(g, m, s) /\ g[Len(s)] = w /\ \A k \in 1 .. Len(s) : Knows(g[k - 1], s[k])
  BY Zenon DEF Heeds
<1>2. PICK a \in Nat : Len(s) = a + 1 /\ Len(Tail(s)) = a
  <2>1. Len(s) \in Nat /\ Len(s) # 0 /\ Len(Tail(s)) = Len(s) - 1
    OBVIOUS
  <2>2. \A n \in Nat : n # 0 => n - 1 \in Nat /\ n = (n - 1) + 1
    OBVIOUS
  <2> QED  BY <2>1, <2>2
<1>3. PICK rest : rest = Tail(s) /\ Head(s) = s[1] /\ \A k \in 1 .. a : rest[k] = s[k + 1]
  <2>1. ASSUME NEW k \in 1 .. a PROVE Tail(s)[k] = s[k + 1]
    BY <1>2
  <2>2. Head(s) = s[1]
    OBVIOUS
  <2> QED  BY <2>1, <2>2
<1>4. \A k \in 0 .. a + 1 : g[k] = IF k = 0 THEN m ELSE handleLine(g[k - 1], s[k])
  BY <1>1, <1>2 DEF IsRun
<1>5. g[0] = m /\ g[1] = handleLine(m, Head(s)) /\ Knows(m, Head(s))
  <2>1. g[0] = m
    BY <1>4
  <2>2. 1 \in 0 .. a + 1 /\ 1 \in 1 .. Len(s) /\ 1 - 1 = 0
    BY <1>2
  <2>3. g[1] = handleLine(g[0], s[1])
    BY <1>4, <2>2
  <2>4. Knows(g[0], s[1])
    BY <1>1, <2>2
  <2> QED  BY <1>3, <2>1, <2>3, <2>4
<1> DEFINE f == [k \in 0 .. a |-> g[k + 1]]
<1>6. ASSUME NEW k \in 1 .. a
      PROVE  f[k] = handleLine(f[k - 1], rest[k]) /\ Knows(f[k - 1], rest[k])
  <2>1. f[k] = g[k + 1] /\ f[k - 1] = g[k] /\ rest[k] = s[k + 1]
    <3>1. k \in 0 .. a /\ k - 1 \in 0 .. a /\ (k - 1) + 1 = k
      OBVIOUS
    <3>2. f[k] = g[k + 1] /\ f[k - 1] = g[k]
      BY <3>1
    <3> HIDE DEF f
    <3> QED  BY <1>3, <3>2
  <2>2. k + 1 \in 1 .. Len(s) /\ k + 1 \in 0 .. a + 1 /\ k + 1 # 0 /\ (k + 1) - 1 = k
    BY <1>2
  <2>3. PICK j : j = k + 1
    OBVIOUS
  <2>4. g[j] = handleLine(g[j - 1], s[j]) /\ Knows(g[j - 1], s[j])
    BY <1>1, <1>4, <2>2, <2>3
  <2> HIDE DEF f
  <2> QED  BY <2>1, <2>2, <2>3, <2>4
<1>7. f[0] = handleLine(m, Head(s)) /\ f[a] = w
  BY <1>1, <1>2, <1>5
<1>8. f = [k \in 0 .. a |-> IF k = 0 THEN handleLine(m, Head(s))
                                     ELSE handleLine(f[k - 1], rest[k])]
  <2>1. ASSUME NEW k \in 0 .. a
        PROVE  f[k] = IF k = 0 THEN handleLine(m, Head(s))
                               ELSE handleLine(f[k - 1], rest[k])
    <3>1. CASE k = 0
      BY <1>7, <3>1
    <3>2. CASE k # 0
      <4>1. k \in 1 .. a
        BY <3>2
      <4> HIDE DEF f
      <4> QED  BY <1>6, <3>2, <4>1
    <3> QED  BY <3>1, <3>2
  <2> QED  BY <2>1
<1>9. Heeds(handleLine(m, Head(s)), Tail(s), w)
  <2> HIDE DEF f
  <2> QED  BY <1>2, <1>3, <1>6, <1>7, <1>8 DEF Heeds, IsRun
<1> QED  BY <1>5, <1>9

(***************************************************************************)
(* Many lines: what G says a mirror is like after so many of them, it is   *)
(* like, when each line takes what G says before it to what G says after.  *)
(***************************************************************************)
LEMMA HeedsAll ==
  ASSUME NEW S, NEW s \in Seq(S), NEW G, NEW m, m \in G[0],
         \A k \in 1 .. Len(s) : \A x \in G[k - 1] :
           Knows(x, s[k]) /\ handleLine(x, s[k]) \in G[k]
  PROVE  \E w \in G[Len(s)] : Heeds(m, s, w)
<1> DEFINE Run(g, n) == /\ g = [k \in 0 .. n |-> IF k = 0 THEN m ELSE handleLine(g[k - 1], s[k])]
                        /\ \A k \in 1 .. n : Knows(g[k - 1], s[k])
                        /\ \A k \in 0 .. n : g[k] \in G[k]
           wrong == {n \in 0 .. Len(s) : ~ \E g : Run(g, n)}
<1>0. Len(s) \in Nat
  OBVIOUS
<1>1. wrong = {}
  <2> SUFFICES ASSUME wrong # {} PROVE FALSE
    OBVIOUS
  <2>1. PICK n \in wrong : \A j \in wrong : n <= j
    <3>1. wrong \subseteq Nat
      BY <1>0
    <3> HIDE DEF wrong
    <3> QED  BY <3>1, SmallestOf
  <2>2. n \in 0 .. Len(s) /\ ~ \E g : Run(g, n)
    OBVIOUS
  <2>3. n # 0
    <3> DEFINE g == [k \in 0 .. 0 |-> m]
    <3>1. g = [k \in 0 .. 0 |-> IF k = 0 THEN m ELSE handleLine(g[k - 1], s[k])]
      OBVIOUS
    <3>2. (\A k \in 1 .. 0 : Knows(g[k - 1], s[k])) /\ \A k \in 0 .. 0 : g[k] \in G[k]
      OBVIOUS
    <3>3. Run(g, 0)
      BY <3>1, <3>2, Zenon
    <3> HIDE DEF g, Run
    <3> QED  BY <2>2, <3>3
  <2>4. PICK b \in Nat : n = b + 1 /\ b = n - 1 /\ b \in 0 .. Len(s)
    BY <1>0, <2>2, <2>3
  <2>5. PICK g : Run(g, b)
    <3>1. b \notin wrong
      <4> HIDE DEF wrong
      <4> QED  BY <1>0, <2>1, <2>2, <2>4
    <3> HIDE DEF Run
    <3> QED  BY <2>4, <3>1
  <2>6. /\ \A k \in 0 .. b : g[k] = IF k = 0 THEN m ELSE handleLine(g[k - 1], s[k])
        /\ \A k \in 1 .. b : Knows(g[k - 1], s[k])
        /\ \A k \in 0 .. b : g[k] \in G[k]
    BY <2>5
  <2> DEFINE h == [k \in 0 .. n |-> IF k = n THEN handleLine(g[b], s[n]) ELSE g[k]]
  <2>7. Knows(g[b], s[n]) /\ handleLine(g[b], s[n]) \in G[n]
    BY <1>0, <2>2, <2>3, <2>4, <2>6
  <2>8. h[n] = handleLine(g[b], s[n]) /\ \A k \in 0 .. b : h[k] = g[k]
    BY <2>2, <2>4
  <2>9. ASSUME NEW k \in 0 .. n
        PROVE  h[k] = IF k = 0 THEN m ELSE handleLine(h[k - 1], s[k])
    <3> HIDE DEF h
    <3>1. CASE k = n
      BY <2>3, <2>4, <2>8, <3>1
    <3>2. CASE k # n
      <4>1. k \in 0 .. b
        BY <2>4, <3>2
      <4>2. k # 0 => k - 1 \in 0 .. b
        BY <4>1
      <4> QED  BY <2>6, <2>8, <4>1, <4>2
    <3> QED  BY <3>1, <3>2
  <2>10. ASSUME NEW k \in 1 .. n PROVE Knows(h[k - 1], s[k])
    <3> HIDE DEF h
    <3>1. CASE k = n
      BY <2>4, <2>7, <2>8, <3>1
    <3>2. CASE k # n
      <4>1. k \in 1 .. b /\ k - 1 \in 0 .. b
        BY <2>4, <3>2
      <4> QED  BY <2>6, <2>8, <4>1
    <3> QED  BY <3>1, <3>2
  <2>11. ASSUME NEW k \in 0 .. n PROVE h[k] \in G[k]
    <3> HIDE DEF h
    <3>1. CASE k = n
      BY <2>7, <2>8, <3>1
    <3>2. CASE k # n
      <4>1. k \in 0 .. b
        BY <2>4, <3>2
      <4> QED  BY <2>6, <2>8, <4>1
    <3> QED  BY <3>1, <3>2
  <2>12. h = [k \in 0 .. n |-> IF k = 0 THEN m ELSE handleLine(h[k - 1], s[k])]
    BY <2>9
  <2>13. Run(h, n)
    <3> HIDE DEF h
    <3> QED  BY <2>10, <2>11, <2>12
  <2> HIDE DEF Run, h
  <2> QED  BY <2>2, <2>13
<1>2. PICK g : Run(g, Len(s))
  <2>1. Len(s) \in 0 .. Len(s)
    BY <1>0
  <2> HIDE DEF Run
  <2> QED  BY <1>1, <2>1
<1>3. IsRun(g, m, s) /\ (\A k \in 1 .. Len(s) : Knows(g[k - 1], s[k])) /\ g[Len(s)] \in G[Len(s)]
  BY <1>0, <1>2, SMTT(40) DEF IsRun
<1> QED  BY <1>3, Zenon DEF Heeds

LEMMA WorksAfter ==
  ASSUME NEW m, NEW s, NEW w, Works(m, s, w)
  PROVE  After(m, s) = w
BY HeedsAfter DEF Works

LEMMA WorksNone == ASSUME NEW m PROVE Works(m, <<>>, m)
<1>1. <<>> \in Seq({})
  OBVIOUS
<1> QED  BY <1>1, HeedsNone DEF Works

LEMMA WorksOne ==
  ASSUME NEW m, NEW l, Knows(m, l)
  PROVE  Works(m, <<l>>, handleLine(m, l))
<1>1. <<l>> \in Seq({l})
  OBVIOUS
<1> QED  BY <1>1, HeedsOne DEF Works

LEMMA WorksOn ==
  ASSUME NEW m, NEW s, NEW w, NEW t, NEW x, Works(m, s, w), Works(w, t, x)
  PROVE  Works(m, s \o t, x)
<1>1. PICK S, T : s \in Seq(S) /\ t \in Seq(T)
  BY DEF Works
<1>2. PICK U : U = S \cup T
  OBVIOUS
<1>3. s \in Seq(U) /\ t \in Seq(U)
  BY <1>1, <1>2
<1>4. s \o t \in Seq(U)
  BY <1>3
<1> QED  BY <1>3, <1>4, HeedsOn DEF Works

LEMMA WorksTwo ==
  ASSUME NEW m, NEW a, NEW w, NEW b, NEW x,
         Knows(m, a), w = handleLine(m, a), Knows(w, b), x = handleLine(w, b)
  PROVE  Works(m, <<a, b>>, x)
<1>1. Works(m, <<a>>, w) /\ Works(w, <<b>>, x)
  BY WorksOne
<1>2. <<a, b>> = <<a>> \o <<b>>
  OBVIOUS
<1> QED  BY <1>1, <1>2, WorksOn

LEMMA WorksTail ==
  ASSUME NEW m, NEW s, NEW w, Works(m, s, w), s # <<>>
  PROVE  Knows(m, Head(s)) /\ Works(handleLine(m, Head(s)), Tail(s), w)
<1>1. PICK S : s \in Seq(S)
  BY DEF Works
<1>2. Tail(s) \in Seq(S)
  BY <1>1
<1> QED  BY <1>1, <1>2, HeedsTail DEF Works

LEMMA WorksAll ==
  ASSUME NEW S, NEW s \in Seq(S), NEW G, NEW m, m \in G[0],
         \A k \in 1 .. Len(s) : \A x \in G[k - 1] :
           Knows(x, s[k]) /\ handleLine(x, s[k]) \in G[k]
  PROVE  \E w \in G[Len(s)] : Works(m, s, w)
BY HeedsAll DEF Works
-----------------------------------------------------------------------------
(***************************************************************************)
(* The mirror's types, and what each handler leaves alone.                 *)
(***************************************************************************)
Shown ==
  [at : Tile, orientation : 1 .. 4, level : 1 .. MaxLevel, team : Teams,
   inventory : [Resource -> Nat], broadcastVersion : Nat]

(* The maps from some members of A into B. *)
Partial(A, B) == UNION {[S -> B] : S \in SUBSET A}

Roster == Partial(Players, Shown)
Ground == Partial(Tile, [Resource -> Nat])
Nest   == Partial(Nat, [player : Players \cup {Nobody}, at : Tile])
Rites  == SUBSET [at : Tile, level : 1 .. MaxLevel, players : SUBSET Players]

GameState ==
  [width : Nat, height : Nat, timeUnit : Nat, totalDeaths : Nat,
   teams : SUBSET Teams, tiles : Ground, players : Roster, eggs : Nest,
   incantations : Rites, winningTeam : {""}]

SameTiles(m, w)   == w.tiles = m.tiles
SamePlayers(m, w) == w.players = m.players
SameEggs(m, w)    == w.eggs = m.eggs
SameRites(m, w)   == w.incantations = m.incantations
SameTime(m, w)    == w.timeUnit = m.timeUnit

Same(m, w) ==
  SameTiles(m, w) /\ SamePlayers(m, w) /\ SameEggs(m, w) /\ SameRites(m, w) /\ SameTime(m, w)

LEMMA SetPlayers ==
  ASSUME NEW m \in GameState, NEW v \in Roster, NEW w, w = [m EXCEPT !.players = v]
  PROVE  /\ w \in GameState /\ w.players = v
         /\ SameTiles(m, w) /\ SameEggs(m, w) /\ SameRites(m, w) /\ SameTime(m, w)
BY DEF GameState, SameTiles, SameEggs, SameRites, SameTime

LEMMA SetTiles ==
  ASSUME NEW m \in GameState, NEW v \in Ground, NEW w, w = [m EXCEPT !.tiles = v]
  PROVE  /\ w \in GameState /\ w.tiles = v
         /\ SamePlayers(m, w) /\ SameEggs(m, w) /\ SameRites(m, w) /\ SameTime(m, w)
BY DEF GameState, SamePlayers, SameEggs, SameRites, SameTime

LEMMA SetEggs ==
  ASSUME NEW m \in GameState, NEW v \in Nest, NEW w, w = [m EXCEPT !.eggs = v]
  PROVE  /\ w \in GameState /\ w.eggs = v
         /\ SameTiles(m, w) /\ SamePlayers(m, w) /\ SameRites(m, w) /\ SameTime(m, w)
BY DEF GameState, SameTiles, SamePlayers, SameRites, SameTime

LEMMA SetRites ==
  ASSUME NEW m \in GameState, NEW v \in Rites, NEW w, w = [m EXCEPT !.incantations = v]
  PROVE  /\ w \in GameState /\ w.incantations = v
         /\ SameTiles(m, w) /\ SamePlayers(m, w) /\ SameEggs(m, w) /\ SameTime(m, w)
BY DEF GameState, SameTiles, SamePlayers, SameEggs, SameTime

LEMMA SetTime ==
  ASSUME NEW m \in GameState, NEW v \in Nat, NEW w, w = [m EXCEPT !.timeUnit = v]
  PROVE  /\ w \in GameState /\ w.timeUnit = v
         /\ SameTiles(m, w) /\ SamePlayers(m, w) /\ SameEggs(m, w) /\ SameRites(m, w)
BY DEF GameState, SameTiles, SamePlayers, SameEggs, SameRites

LEMMA SetTeams ==
  ASSUME NEW m \in GameState, NEW v \in SUBSET Teams, NEW w, w = [m EXCEPT !.teams = v]
  PROVE  w \in GameState /\ Same(m, w)
BY DEF GameState, Same, SameTiles, SamePlayers, SameEggs, SameRites, SameTime

LEMMA SetDeath ==
  ASSUME NEW m \in GameState, NEW v \in Roster, NEW n \in Nat, NEW w,
         w = [m EXCEPT !.players = v, !.totalDeaths = n]
  PROVE  /\ w \in GameState /\ w.players = v
         /\ SameTiles(m, w) /\ SameEggs(m, w) /\ SameRites(m, w) /\ SameTime(m, w)
BY DEF GameState, SameTiles, SameEggs, SameRites, SameTime

(* Somebody is shown anew, or otherwise than before. *)
ShownAs(m, w, p, shown) ==
  /\ w \in GameState
  /\ SameTiles(m, w) /\ SameEggs(m, w) /\ SameRites(m, w) /\ SameTime(m, w)
  /\ DOMAIN w.players = DOMAIN m.players \cup {p}
  /\ w.players[p] = shown
  /\ \A q \in DOMAIN m.players : q # p => w.players[q] = m.players[q]

LEMMA ShowOne ==
  ASSUME NEW m \in GameState, NEW p \in Players, NEW shown \in Shown,
         NEW w, w = Show(m, p, shown)
  PROVE  ShownAs(m, w, p, shown)
<1>1. PICK f : f = m.players /\ f \in Partial(Players, Shown)
  BY DEF GameState, Roster
<1>2. PICK v : v = Put(f, p, shown)
  OBVIOUS
<1>3. /\ v \in Partial(Players, Shown) /\ DOMAIN v = DOMAIN f \cup {p} /\ v[p] = shown
      /\ \A q \in DOMAIN f : q # p => v[q] = f[q]
  BY <1>1, <1>2 DEF Put, Partial
<1>4. v \in Roster /\ w = [m EXCEPT !.players = v]
  BY <1>1, <1>2, <1>3 DEF Show, Roster
<1> QED  BY <1>1, <1>3, <1>4, SetPlayers DEF ShownAs

LEMMA PlayerIsShown ==
  ASSUME NEW m \in GameState, NEW p \in DOMAIN m.players
  PROVE  p \in Players /\ m.players[p] \in Shown
BY DEF GameState, Roster, Partial

-----------------------------------------------------------------------------
(***************************************************************************)
(* What each line does to a mirror that knows what the line is about.      *)
(***************************************************************************)
LEMMA OnMsz ==
  ASSUME NEW m \in GameState, NEW l, l = msz(Width, Height), NEW w, w = handleLine(m, l)
  PROVE  /\ Knows(m, l) /\ w \in GameState
         /\ DOMAIN w.tiles = Tile /\ \A t \in Tile : w.tiles[t] = NoStones
         /\ SamePlayers(m, w) /\ SameEggs(m, w) /\ SameRites(m, w) /\ SameTime(m, w)
<1>1. PICK v : v = [t \in Tile |-> NoStones]
  OBVIOUS
<1>2. v \in Ground /\ DOMAIN v = Tile
  BY <1>1 DEF Ground, Partial, NoStones
<1>3. l.cmd = "msz" /\ l.width = Width /\ l.height = Height
  BY DEF msz
<1>4. w = [m EXCEPT !.width = Width, !.height = Height, !.tiles = v]
  BY <1>1, <1>3 DEF handleLine, handleMsz, Tile
<1>5. Width \in Nat /\ Height \in Nat
  BY SizeAssumption
<1>6. Knows(m, l)
  BY <1>3 DEF Knows
<1>7. /\ w \in GameState /\ w.tiles = v
      /\ SamePlayers(m, w) /\ SameEggs(m, w) /\ SameRites(m, w) /\ SameTime(m, w)
  <2>1. PICK a \in Nat, b \in Nat : a = Width /\ b = Height
    BY <1>5
  <2>2. w = [m EXCEPT !.width = a, !.height = b, !.tiles = v]
    BY <1>4, <2>1
  <2> QED  BY <1>2, <2>2 DEF GameState, SamePlayers, SameEggs, SameRites, SameTime
<1> QED  BY <1>1, <1>2, <1>6, <1>7

LEMMA OnBct ==
  ASSUME NEW m \in GameState, NEW t \in DOMAIN m.tiles, NEW q \in [Resource -> Nat],
         NEW l, l = bct(t, q), NEW w, w = handleLine(m, l)
  PROVE  /\ Knows(m, l) /\ w \in GameState
         /\ DOMAIN w.tiles = DOMAIN m.tiles /\ w.tiles[t] = q
         /\ \A u \in DOMAIN m.tiles : u # t => w.tiles[u] = m.tiles[u]
         /\ SamePlayers(m, w) /\ SameEggs(m, w) /\ SameRites(m, w) /\ SameTime(m, w)
<1>1. PICK f : f = m.tiles /\ f \in Partial(Tile, [Resource -> Nat])
  BY DEF GameState, Ground
<1>2. PICK v : v = [f EXCEPT ![t] = q]
  OBVIOUS
<1>3. /\ v \in Ground /\ DOMAIN v = DOMAIN f /\ v[t] = q
      /\ \A u \in DOMAIN f : u # t => v[u] = f[u]
  BY <1>1, <1>2 DEF Ground, Partial
<1>4. l.cmd = "bct" /\ l.at = t /\ l.stones = q
  BY DEF bct
<1>5. w = [m EXCEPT !.tiles = v]
  <2>1. w = IF t \in DOMAIN m.tiles THEN [m EXCEPT !.tiles[t] = q] ELSE m
    BY <1>4 DEF handleLine, handleBct
  <2>2. [m EXCEPT !.tiles[t] = q] = [m EXCEPT !.tiles = [m.tiles EXCEPT ![t] = q]]
    BY DEF GameState
  <2> QED  BY <1>1, <1>2, <2>1, <2>2
<1>6. Knows(m, l)
  BY <1>4 DEF Knows
<1> QED  BY <1>1, <1>3, <1>5, <1>6, SetTiles

LEMMA OnTna ==
  ASSUME NEW m \in GameState, NEW t \in Teams,
         NEW l, l = tna(t), NEW w, w = handleLine(m, l)
  PROVE  Knows(m, l) /\ w \in GameState /\ Same(m, w)
<1>1. PICK v : v = m.teams \cup {t}
  OBVIOUS
<1>2. v \in SUBSET Teams
  BY <1>1 DEF GameState
<1>3. l.cmd = "tna" /\ l.team = t
  BY DEF tna
<1>4. w = [m EXCEPT !.teams = v]
  BY <1>1, <1>3 DEF handleLine, handleTna
<1>5. Knows(m, l)
  BY <1>3 DEF Knows
<1> QED  BY <1>2, <1>4, <1>5, SetTeams

(* Lines that are only shown as text. *)
LEMMA OnText ==
  ASSUME NEW m \in GameState, NEW l, l.cmd \in {"pex", "pfk", "pdr", "pgt", "sbp"},
         NEW w, w = handleLine(m, l)
  PROVE  Knows(m, l) /\ w \in GameState /\ Same(m, w)
<1>1. w = m
  BY DEF handleLine
<1>2. Knows(m, l)
  BY DEF Knows
<1> QED  BY <1>1, <1>2 DEF Same, SameTiles, SamePlayers, SameEggs, SameRites, SameTime

LEMMA OnTime ==
  ASSUME NEW m \in GameState, NEW f \in Nat, NEW l, l = sgt(f) \/ l = sst(f),
         NEW w, w = handleLine(m, l)
  PROVE  /\ Knows(m, l) /\ w \in GameState /\ w.timeUnit = f
         /\ SameTiles(m, w) /\ SamePlayers(m, w) /\ SameEggs(m, w) /\ SameRites(m, w)
<1>1. (l.cmd = "sgt" \/ l.cmd = "sst") /\ l.freq = f
  BY DEF sgt, sst
<1>2. w = [m EXCEPT !.timeUnit = f]
  BY <1>1 DEF handleLine, handleSgt, handleSst
<1>3. Knows(m, l)
  BY <1>1 DEF Knows
<1> QED  BY <1>2, <1>3, SetTime

LEMMA OnPnw ==
  ASSUME NEW m \in GameState, NEW p \in Players, NEW t \in DOMAIN m.tiles, t \in Tile,
         NEW o \in 1 .. 4, NEW v \in 1 .. MaxLevel, NEW name \in Teams,
         NEW l, l = pnw(p, t, o, v, name), NEW w, w = handleLine(m, l)
  PROVE  /\ Knows(m, l)
         /\ ShownAs(m, w, p, [at |-> t, orientation |-> o, level |-> v, team |-> name,
                              inventory |-> NoStones, broadcastVersion |-> 0])
<1>1. /\ l.cmd = "pnw" /\ l.player = p /\ l.at = t /\ l.orientation = o
      /\ l.level = v /\ l.team = name
  BY DEF pnw
<1>2. PICK shown : shown = [at |-> t, orientation |-> o, level |-> v, team |-> name,
                            inventory |-> NoStones, broadcastVersion |-> 0]
  OBVIOUS
<1>3. shown \in Shown
  BY <1>2 DEF Shown, NoStones
<1>4. w = Show(m, p, shown)
  BY <1>1, <1>2 DEF handleLine, handlePnw
<1>5. Knows(m, l)
  BY <1>1 DEF Knows
<1> QED  BY <1>2, <1>3, <1>4, <1>5, ShowOne

LEMMA OnPpo ==
  ASSUME NEW m \in GameState, NEW p \in DOMAIN m.players, NEW t \in Tile, NEW o \in 1 .. 4,
         NEW l, l = ppo(p, t, o), NEW w, w = handleLine(m, l)
  PROVE  /\ Knows(m, l)
         /\ ShownAs(m, w, p, [m.players[p] EXCEPT !.at = t, !.orientation = o])
<1>1. l.cmd = "ppo" /\ l.player = p /\ l.at = t /\ l.orientation = o
  BY DEF ppo
<1>2. PICK shown : shown = [m.players[p] EXCEPT !.at = t, !.orientation = o]
  OBVIOUS
<1>3. p \in Players /\ shown \in Shown
  BY <1>2, PlayerIsShown DEF Shown
<1>4. w = Show(m, p, shown)
  BY <1>1, <1>2 DEF handleLine, handlePpo
<1>5. Knows(m, l)
  BY <1>1 DEF Knows
<1> QED  BY <1>2, <1>3, <1>4, <1>5, ShowOne

LEMMA OnPlv ==
  ASSUME NEW m \in GameState, NEW p \in DOMAIN m.players, NEW v \in 1 .. MaxLevel,
         NEW l, l = plv(p, v), NEW w, w = handleLine(m, l)
  PROVE  Knows(m, l) /\ ShownAs(m, w, p, [m.players[p] EXCEPT !.level = v])
<1>1. l.cmd = "plv" /\ l.player = p /\ l.level = v
  BY DEF plv
<1>2. PICK shown : shown = [m.players[p] EXCEPT !.level = v]
  OBVIOUS
<1>3. p \in Players /\ shown \in Shown
  BY <1>2, PlayerIsShown DEF Shown
<1>4. w = Show(m, p, shown)
  BY <1>1, <1>2 DEF handleLine, handlePlv
<1>5. Knows(m, l)
  BY <1>1 DEF Knows
<1> QED  BY <1>2, <1>3, <1>4, <1>5, ShowOne

LEMMA OnPin ==
  ASSUME NEW m \in GameState, NEW p \in DOMAIN m.players, NEW t \in Tile,
         NEW q \in [Resource -> Nat],
         NEW l, l = pin(p, t, q), NEW w, w = handleLine(m, l)
  PROVE  /\ Knows(m, l)
         /\ ShownAs(m, w, p, [m.players[p] EXCEPT !.at = t, !.inventory = q])
<1>1. l.cmd = "pin" /\ l.player = p /\ l.at = t /\ l.stones = q
  BY DEF pin
<1>2. PICK shown : shown = [m.players[p] EXCEPT !.at = t, !.inventory = q]
  OBVIOUS
<1>3. p \in Players /\ shown \in Shown
  BY <1>2, PlayerIsShown DEF Shown
<1>4. w = Show(m, p, shown)
  BY <1>1, <1>2 DEF handleLine, handlePin
<1>5. Knows(m, l)
  BY <1>1 DEF Knows
<1> QED  BY <1>2, <1>3, <1>4, <1>5, ShowOne

LEMMA OnPbc ==
  ASSUME NEW m \in GameState, NEW p \in DOMAIN m.players,
         NEW l, l = pbc(p), NEW w, w = handleLine(m, l)
  PROVE  /\ Knows(m, l)
         /\ ShownAs(m, w, p, [m.players[p] EXCEPT !.broadcastVersion = @ + 1])
<1>1. l.cmd = "pbc" /\ l.player = p
  BY DEF pbc
<1>2. PICK shown : shown = [m.players[p] EXCEPT !.broadcastVersion = @ + 1]
  OBVIOUS
<1>3. p \in Players /\ shown \in Shown
  BY <1>2, PlayerIsShown DEF Shown
<1>4. w = Show(m, p, shown)
  BY <1>1, <1>2 DEF handleLine, handlePbc
<1>5. Knows(m, l)
  BY <1>1 DEF Knows
<1> QED  BY <1>2, <1>3, <1>4, <1>5, ShowOne

LEMMA OnPic ==
  ASSUME NEW m \in GameState, NEW t \in Tile, NEW v \in 1 .. MaxLevel,
         NEW S \in SUBSET Players,
         NEW l, l = pic(t, v, S), NEW w, w = handleLine(m, l)
  PROVE  /\ Knows(m, l) /\ w \in GameState
         /\ w.incantations = m.incantations \cup {[at |-> t, level |-> v, players |-> S]}
         /\ SameTiles(m, w) /\ SamePlayers(m, w) /\ SameEggs(m, w) /\ SameTime(m, w)
<1>1. l.cmd = "pic" /\ l.at = t /\ l.level = v /\ l.players = S
  BY DEF pic
<1>2. PICK r : r = m.incantations \cup {[at |-> t, level |-> v, players |-> S]}
  OBVIOUS
<1>3. r \in Rites
  <2>1. m.incantations \in Rites
    BY DEF GameState
  <2>2. [at |-> t, level |-> v, players |-> S]
          \in [at : Tile, level : 1 .. MaxLevel, players : SUBSET Players]
    OBVIOUS
  <2> QED  BY <1>2, <2>1, <2>2 DEF Rites
<1>4. w = [m EXCEPT !.incantations = r]
  BY <1>1, <1>2 DEF handleLine, handlePic
<1>5. Knows(m, l)
  BY <1>1 DEF Knows
<1> QED  BY <1>2, <1>3, <1>4, <1>5, SetRites

LEMMA OnPie ==
  ASSUME NEW m \in GameState, NEW t,
         NEW l, l.cmd = "pie", l.at = t, NEW w, w = handleLine(m, l)
  PROVE  /\ Knows(m, l) /\ w \in GameState
         /\ \A i : i \in w.incantations <=> i \in m.incantations /\ i.at # t
         /\ SameTiles(m, w) /\ SamePlayers(m, w) /\ SameEggs(m, w) /\ SameTime(m, w)
<1>1. l.cmd = "pie" /\ l.at = t
  OBVIOUS
<1>2. PICK r : r = {i \in m.incantations : i.at # t}
  OBVIOUS
<1>3. r \in Rites
  <2>1. m.incantations \in Rites
    BY DEF GameState
  <2>2. r \subseteq m.incantations
    <3>1. PICK all : all = m.incantations
      OBVIOUS
    <3>2. {i \in all : i.at # t} \subseteq all
      OBVIOUS
    <3> QED  BY <1>2, <3>1, <3>2
  <2> QED  BY <2>1, <2>2 DEF Rites
<1>4. w = [m EXCEPT !.incantations = r]
  BY <1>1, <1>2 DEF handleLine, handlePie
<1>5. Knows(m, l)
  BY <1>1 DEF Knows
<1> QED  BY <1>2, <1>3, <1>4, <1>5, SetRites

LEMMA OnPdi ==
  ASSUME NEW m \in GameState, NEW p \in DOMAIN m.players,
         NEW l, l = pdi(p), NEW w, w = handleLine(m, l)
  PROVE  /\ Knows(m, l) /\ w \in GameState
         /\ DOMAIN w.players = DOMAIN m.players \ {p}
         /\ \A q \in DOMAIN w.players : w.players[q] = m.players[q]
         /\ SameTiles(m, w) /\ SameEggs(m, w) /\ SameRites(m, w) /\ SameTime(m, w)
<1>1. l.cmd = "pdi" /\ l.player = p
  BY DEF pdi
<1>2. PICK f : f = m.players /\ f \in Partial(Players, Shown)
  BY DEF GameState, Roster
<1>3. PICK v : v = Restrict(f, DOMAIN f \ {p})
  OBVIOUS
<1>4. /\ v \in Roster /\ DOMAIN v = DOMAIN f \ {p}
      /\ \A q \in DOMAIN v : v[q] = f[q]
  BY <1>2, <1>3 DEF Restrict, Roster, Partial
<1>5. PICK n \in Nat : n = m.totalDeaths + 1
  <2>1. m.totalDeaths \in Nat
    BY DEF GameState
  <2> QED  BY <2>1
<1>6. w = [m EXCEPT !.players = v, !.totalDeaths = n]
  BY <1>1, <1>2, <1>3, <1>5 DEF handleLine, handlePdi
<1>7. Knows(m, l)
  BY <1>1 DEF Knows
<1>8. /\ w \in GameState /\ w.players = v
      /\ SameTiles(m, w) /\ SameEggs(m, w) /\ SameRites(m, w) /\ SameTime(m, w)
  BY <1>4, <1>5, <1>6, SetDeath, Zenon
<1> QED  BY <1>2, <1>4, <1>7, <1>8

LEMMA OnEnw ==
  ASSUME NEW m \in GameState, NEW e \in Nat, NEW p \in Players \cup {Nobody},
         NEW t \in DOMAIN m.tiles, t \in Tile,
         NEW l, l = enw(e, p, t), NEW w, w = handleLine(m, l)
  PROVE  /\ Knows(m, l) /\ w \in GameState
         /\ DOMAIN w.eggs = DOMAIN m.eggs \cup {e} /\ w.eggs[e].at = t
         /\ \A x \in DOMAIN m.eggs : x # e => w.eggs[x] = m.eggs[x]
         /\ SameTiles(m, w) /\ SamePlayers(m, w) /\ SameRites(m, w) /\ SameTime(m, w)
<1>1. l.cmd = "enw" /\ l.egg = e /\ l.player = p /\ l.at = t
  BY DEF enw
<1>2. PICK f : f = m.eggs /\ f \in Partial(Nat, [player : Players \cup {Nobody}, at : Tile])
  BY DEF GameState, Nest
<1>3. PICK egg : egg = [player |-> p, at |-> t]
  OBVIOUS
<1>4. PICK v : v = Put(f, e, egg)
  OBVIOUS
<1>5. egg \in [player : Players \cup {Nobody}, at : Tile] /\ egg.at = t
  BY <1>3
<1>6. /\ v \in Nest /\ DOMAIN v = DOMAIN f \cup {e} /\ v[e] = egg
      /\ \A x \in DOMAIN f : x # e => v[x] = f[x]
  BY <1>2, <1>4, <1>5 DEF Put, Nest, Partial
<1>7. w = [m EXCEPT !.eggs = v]
  BY <1>1, <1>2, <1>3, <1>4 DEF handleLine, handleEnw
<1>8. Knows(m, l)
  BY <1>1 DEF Knows
<1> QED  BY <1>2, <1>5, <1>6, <1>7, <1>8, SetEggs

LEMMA OnEggGone ==
  ASSUME NEW m \in GameState, NEW e \in DOMAIN m.eggs,
         NEW l, l = ebo(e) \/ l = edi(e), NEW w, w = handleLine(m, l)
  PROVE  /\ Knows(m, l) /\ w \in GameState
         /\ DOMAIN w.eggs = DOMAIN m.eggs \ {e}
         /\ \A x \in DOMAIN w.eggs : w.eggs[x] = m.eggs[x]
         /\ SameTiles(m, w) /\ SamePlayers(m, w) /\ SameRites(m, w) /\ SameTime(m, w)
<1>1. (l.cmd = "ebo" \/ l.cmd = "edi") /\ l.egg = e
  BY DEF ebo, edi
<1>2. PICK f : f = m.eggs /\ f \in Partial(Nat, [player : Players \cup {Nobody}, at : Tile])
  BY DEF GameState, Nest
<1>3. PICK v : v = Restrict(f, DOMAIN f \ {e})
  OBVIOUS
<1>4. /\ v \in Nest /\ DOMAIN v = DOMAIN f \ {e}
      /\ \A x \in DOMAIN v : v[x] = f[x]
  BY <1>2, <1>3 DEF Restrict, Nest, Partial
<1>5. w = [m EXCEPT !.eggs = v]
  BY <1>1, <1>2, <1>3 DEF handleLine, handleEbo, handleEdi
<1>6. Knows(m, l)
  BY <1>1 DEF Knows
<1> QED  BY <1>2, <1>4, <1>5, <1>6, SetEggs

-----------------------------------------------------------------------------
(***************************************************************************)
(* What the caught-up mirror shows of the game, in the parts that lines    *)
(* keep up to date independently of each other.                            *)
(***************************************************************************)
Alive == {p \in Players : InPlay(p)}

EggIds == {e.id : e \in eggs}

(* A player is shown as it is, but for what the client was never told. *)
AsItIs(p, shown) ==
  /\ shown.team = team[p] /\ shown.level = lvl[p]
  /\ shown.broadcastVersion = said[p]
  /\ At(p) \notin unseen => shown.at = pos[p]
  /\ Facing(p) \notin unseen => shown.orientation = Orientation(dir[p])
  /\ Inventory(p) \notin unseen => shown.inventory = inv[p]

TilesMirrored(m) == DOMAIN m.tiles = Tile
EggsMirrored(m)  == DOMAIN m.eggs = EggIds
TimeMirrored(m)  == TimeUnit \notin unseen => m.timeUnit = freq

RitesMirrored(m) ==
  \A i \in m.incantations : i.at \in strays \/ \E p \in Players : performing[p] = i.at

PlayersMirrored(m) ==
  /\ Alive \subseteq DOMAIN m.players
  /\ DOMAIN m.players \subseteq Alive \cup quit
  /\ \A p \in Alive : AsItIs(p, m.players[p])

Mirrors(m) ==
  /\ m \in GameState
  /\ TilesMirrored(m) /\ EggsMirrored(m) /\ TimeMirrored(m) /\ RitesMirrored(m)
  /\ PlayersMirrored(m)

(***************************************************************************)
(* The inductive invariant: a mirror that is shown the game as it is lies  *)
(* at the end of the lines under way.  It needs the world's own invariant; *)
(* eggs with ids of their own, as an id that comes twice would take both   *)
(* eggs off the mirror; and players that have nothing and have said        *)
(* nothing before they hatch, which is what pnw shows of them.             *)
(***************************************************************************)
GuiTypeOK ==
  /\ connected \in BOOLEAN
  /\ freq \in Frequency
  /\ performing \in [Players -> Tile \cup {NoTile}]
  /\ strays \subseteq Tile
  /\ quit \subseteq Players
  /\ said \in [Players -> Nat]

EggsApart ==
  /\ \A e \in eggs : e.id < nextEgg
  /\ \A e, f \in eggs : e.id = f.id => e = f

NewbornsAlike ==
  /\ IsFiniteSet(hatched)
  /\ \A p \in Players \ hatched : inv[p] = NoStones /\ said[p] = 0

GameInv == WorldInv /\ GuiTypeOK /\ EggsApart /\ NewbornsAlike

StreamInv ==
  IF connected THEN \E m : Works(view, wire, m) /\ Mirrors(m)
               ELSE wire = <<>> /\ view = NewGameState

GuiInv == GameInv /\ StreamInv

-----------------------------------------------------------------------------
(* The server announces what it does: the lines it adds keep the mirror true. *)
Announces(m) ==
  \E s, w : wire' = wire \o s /\ Works(m, s, w) /\ Mirrors(w)'

(* What a line and a step leave alone stays mirrored. *)
LEMMA TilesStill ==
  ASSUME NEW m, NEW w, TilesMirrored(m), SameTiles(m, w)
  PROVE  TilesMirrored(w)'
BY DEF TilesMirrored, SameTiles

LEMMA EggsStill ==
  ASSUME NEW m, NEW w, EggsMirrored(m), SameEggs(m, w), eggs' = eggs
  PROVE  EggsMirrored(w)'
BY DEF EggsMirrored, SameEggs, EggIds

LEMMA TimeStill ==
  ASSUME NEW m, NEW w, TimeMirrored(m), SameTime(m, w), freq' = freq,
         TimeUnit \in unseen => TimeUnit \in unseen'
  PROVE  TimeMirrored(w)'
BY DEF TimeMirrored, SameTime, TimeUnit

LEMMA RitesStill ==
  ASSUME NEW m, NEW w, RitesMirrored(m), SameRites(m, w),
         strays' = strays, performing' = performing
  PROVE  RitesMirrored(w)'
BY DEF RitesMirrored, SameRites

(* Nothing that is shown of a player changes, and no more of it is told than was. *)
Steady(p) ==
  /\ team'[p] = team[p] /\ lvl'[p] = lvl[p] /\ said'[p] = said[p]
  /\ pos'[p] = pos[p] /\ dir'[p] = dir[p] /\ inv'[p] = inv[p]
  /\ At(p) \in unseen => At(p) \in unseen'
  /\ Facing(p) \in unseen => Facing(p) \in unseen'
  /\ Inventory(p) \in unseen => Inventory(p) \in unseen'

LEMMA SteadyStays ==
  ASSUME NEW p, NEW shown, Steady(p), AsItIs(p, shown)
  PROVE  AsItIs(p, shown)'
BY DEF Steady, AsItIs, At, Facing, Inventory

LEMMA PlayersStill ==
  ASSUME NEW m, NEW w, PlayersMirrored(m), SamePlayers(m, w),
         Alive' = Alive, quit' = quit, \A p \in Alive : Steady(p)
  PROVE  PlayersMirrored(w)'
<1>1. \A p \in Alive : AsItIs(p, w.players[p])'
  BY SteadyStays DEF PlayersMirrored, SamePlayers
<1>2. Alive' \subseteq DOMAIN w.players /\ DOMAIN w.players \subseteq Alive' \cup quit'
  BY DEF PlayersMirrored, SamePlayers
<1> QED  BY <1>1, <1>2 DEF PlayersMirrored

(* One player is shown otherwise than before, and so it is. *)
LEMMA PlayersBut ==
  ASSUME NEW m, NEW w, NEW p, NEW shown, PlayersMirrored(m), ShownAs(m, w, p, shown),
         Alive' = Alive \cup {p}, quit' = quit,
         \A q \in Alive : q # p => Steady(q), AsItIs(p, shown)'
  PROVE  PlayersMirrored(w)'
<1>1. \A q \in Alive : q # p => AsItIs(q, w.players[q])'
  BY SteadyStays DEF PlayersMirrored, ShownAs
<1>2. AsItIs(p, w.players[p])'
  BY DEF ShownAs
<1>3. Alive' \subseteq DOMAIN w.players /\ DOMAIN w.players \subseteq Alive' \cup quit'
  BY DEF PlayersMirrored, ShownAs
<1> QED  BY <1>1, <1>2, <1>3 DEF PlayersMirrored

-----------------------------------------------------------------------------
(* Who is on the map before and after what the world goes through. *)
Listed == Alive = {p \in Players : \E t \in Tile : p \in on[t]}

LEMMA AliveListed == WorldInv => Listed
BY DEF Listed, Alive, InPlay, WorldInv, WorldTypeOK, MapConsistent

LEMMA AliveHatched == WorldInv => Alive \subseteq hatched
BY DEF Alive, InPlay, WorldInv, WorldTypeOK, MapConsistent

LEMMA MoveKeepsAlive ==
  ASSUME WorldInv, WorldInv', NEW S, S \subseteq Alive,
         NEW facing \in [Players -> Direction], moveTrantorian(S, facing)
  PROVE  Alive' = Alive
<1>1. Alive = {p \in Players : \E t \in Tile : p \in on[t]}
  BY AliveListed DEF Listed
<1>2. Alive' = {p \in Players : \E t \in Tile : p \in on'[t]}
  <2>1. Listed'
    BY AliveListed, PTL
  <2> QED  BY <2>1 DEF Listed
<1>3. S \subseteq Players
  BY DEF Alive
<1>4. \A p \in S : Move(pos[p], facing[p]) \in Tile
  BY <1>3, MoveStaysOnMap DEF WorldInv, WorldTypeOK
<1>5. ASSUME NEW p \in Players
      PROVE  (\E t \in Tile : p \in on'[t]) <=> \E t \in Tile : p \in on[t]
  <2>1. \A t \in Tile : p \in on'[t] <=>
          \/ p \in on[t] /\ ~(p \in S /\ pos[p] = t)
          \/ p \in S /\ Move(pos[p], facing[p]) = t
    BY DEF moveTrantorian
  <2>2. p \in S => \E t \in Tile : p \in on[t]
    BY <1>1
  <2> QED  BY <1>4, <2>1, <2>2
<1> QED  BY <1>1, <1>2, <1>5

LEMMA SettledKeepsAlive ==
  ASSUME pos' = pos, on' = on
  PROVE  Alive' = Alive
BY DEF Alive, InPlay

LEMMA ActKeepsAlive ==
  ASSUME WorldInv, WorldInv', NEW p \in Players,
         \/ Step(p) \/ Turn(p) \/ Eject(p) \/ Take(p) \/ Drop(p) \/ Fork(p)
         \/ Start(p) \/ Finish(p)
  PROVE  p \in Alive /\ Alive' = Alive
<1>1. p \in Alive
  BY DEF Alive, Step, Turn, Eject, Take, Drop, Fork, Start, Finish
<1>2. CASE Step(p)
  <2>1. {p} \subseteq Alive /\ dir \in [Players -> Direction] /\ moveTrantorian({p}, dir)
    BY <1>1, <1>2 DEF Step, forward, WorldInv, WorldTypeOK
  <2> QED  BY <1>1, <2>1, MoveKeepsAlive
<1>3. CASE Eject(p)
  <2>1. TileMates(p) \subseteq Alive
    BY DEF TileMates, Alive, InPlay, WorldInv, WorldTypeOK, MapConsistent
  <2>2. PICK M, facing : /\ M = TileMates(p) /\ M \subseteq Alive
                         /\ facing \in [Players -> Direction] /\ moveTrantorian(M, facing)
    BY <1>3, <2>1 DEF Eject, eject, WorldInv, WorldTypeOK
  <2> QED  BY <1>1, <2>2, MoveKeepsAlive
<1>4. CASE Turn(p) \/ Take(p) \/ Drop(p) \/ Fork(p) \/ Start(p) \/ Finish(p)
  <2>1. pos' = pos /\ on' = on
    BY <1>4 DEF Turn, left, right, turn, Take, take, Drop, set, Fork, fork, layEgg, Start,
                startElevation, Finish, finishElevation, endElevation, placeVars
  <2> QED  BY <1>1, <2>1, SettledKeepsAlive
<1> QED  BY <1>2, <1>3, <1>4

(* Whoever is gone does not come back. *)
LEMMA NobodyReturns ==
  ASSUME WorldInv, WorldInv', [WorldNext]_worldVars, NEW q \in hatched, q \in Alive'
  PROVE  q \in Alive
<1>0. q \in Players /\ Listed /\ Listed'
  <2>1. Listed /\ Listed'
    BY AliveListed, PTL
  <2> QED  BY <2>1 DEF WorldInv, WorldTypeOK
<1>1. ASSUME NEW p \in Players,
             \/ Step(p) \/ Turn(p) \/ Eject(p) \/ Take(p) \/ Drop(p) \/ Fork(p)
             \/ Start(p) \/ Finish(p)
      PROVE  Alive' = Alive
  BY <1>1, ActKeepsAlive
<1>2. ASSUME NEW p \in Players, Hatch(p) PROVE q \in Alive
  <2>1. p # q /\ \A t \in Tile : on'[t] \subseteq on[t] \cup {p}
    BY <1>2 DEF Hatch, hatchEgg, WorldInv, WorldTypeOK
  <2> QED  BY <1>0, <2>1 DEF Listed
<1>3. ASSUME \A t \in Tile : on'[t] \subseteq on[t] PROVE q \in Alive
  BY <1>0, <1>3 DEF Listed
<1>4. ASSUME NEW p \in Players, Leave(p) PROVE \A t \in Tile : on'[t] \subseteq on[t]
  BY <1>4 DEF Leave, leaveMap, WorldInv, WorldTypeOK
<1>5. ASSUME Age PROVE \A t \in Tile : on'[t] \subseteq on[t]
  BY <1>5 DEF Age, checkLives
<1>6. ASSUME Respawn \/ UNCHANGED worldVars PROVE on' = on
  BY <1>6 DEF Respawn, generateResources, worldVars, placeVars
<1> QED  BY <1>1, <1>2, <1>3, <1>4, <1>5, <1>6 DEF WorldNext

-----------------------------------------------------------------------------
(* What happens to the game happens in the world of World.tla. *)
LEMMA GuiStepsWorld == [GuiNext]_guiVars => [WorldNext]_worldVars
<1> SUFFICES ASSUME [GuiNext]_guiVars PROVE [WorldNext]_worldVars
  OBVIOUS
<1>1. ASSUME GameStep PROVE WorldNext \/ UNCHANGED worldVars
  <2>1. ASSUME NEW p \in Players,
               \/ Joins(p) \/ Moves(p) \/ Takes(p) \/ Drops(p) \/ Lays(p) \/ Pushes(p)
               \/ StartsRitual(p) \/ EndsRitual(p) \/ HangsUp(p)
        PROVE  WorldNext
    BY <2>1 DEF Joins, Moves, Takes, Drops, Lays, Pushes, StartsRitual, EndsRitual, HangsUp,
                Take, Drop, WorldNext
  <2>2. ASSUME NEW p \in Players, Speaks(p) PROVE UNCHANGED worldVars
    BY <2>2 DEF Speaks
  <2>3. ASSUME Lives \/ Regrows PROVE WorldNext
    BY <2>3 DEF Lives, Regrows, WorldNext
  <2> QED  BY <1>1, <2>1, <2>2, <2>3 DEF GameStep
<1>2. ASSUME GUICommand PROVE UNCHANGED worldVars
  BY <1>2 DEF GUICommand, AskWorld, Reply, guiSetTimeUnit, handleGUIPlayerQuery
<1>3. ASSUME Connect \/ Deliver PROVE UNCHANGED worldVars
  BY <1>3 DEF Connect, Deliver
<1>4. ASSUME UNCHANGED guiVars PROVE UNCHANGED worldVars
  BY <1>4 DEF guiVars
<1> QED  BY <1>1, <1>2, <1>3, <1>4 DEF GuiNext

LEMMA OrientationRange ==
  ASSUME NEW d \in Direction
  PROVE  Orientation(d) \in 1 .. 4
BY DEF Direction, Orientation

(* A line that leaves a mirror the same can always be said. *)
LEMMA MirrorsStill ==
  ASSUME NEW m, NEW w, Mirrors(m), w \in GameState, Same(m, w),
         eggs' = eggs, freq' = freq, strays' = strays, performing' = performing,
         Alive' = Alive, quit' = quit, TimeUnit \in unseen => TimeUnit \in unseen',
         \A p \in Alive : Steady(p)
  PROVE  Mirrors(w)'
BY TilesStill, EggsStill, TimeStill, RitesStill, PlayersStill DEF Mirrors, Same

-----------------------------------------------------------------------------
(* What each of the server's steps announces. *)
LEMMA JoinsSay ==
  ASSUME GameInv, GameInv', connected, NEW p \in Players, Joins(p)
  PROVE  \E e, t, d, a, b :
           /\ e \in eggs /\ t \in Teams /\ d \in Direction
           /\ p \notin hatched /\ a = ebo(e.id)
           /\ b = pnw(p, e.tile, Orientation(d), lvl[p], t)
           /\ wire' = wire \o <<a, b>>
           /\ eggs' = eggs \ {e}
           /\ team' = [team EXCEPT ![p] = t]
           /\ pos' = [pos EXCEPT ![p] = e.tile]
           /\ dir' = [dir EXCEPT ![p] = d]
           /\ Alive' = Alive \cup {p}
           /\ UNCHANGED <<ritualVars, stoneVars, freq, performing, strays, quit, said, unseen>>
<1>1. p \notin hatched /\ \E t \in Teams : hatchEgg(p, t)
  BY DEF Joins, Hatch
<1>2. PICK t \in Teams : hatchEgg(p, t)
  BY <1>1
<1>3. PICK e \in TeamEggs(t), d \in Direction :
        /\ eggs' = eggs \ {e}
        /\ team' = [team EXCEPT ![p] = t]
        /\ pos' = [pos EXCEPT ![p] = e.tile]
        /\ dir' = [dir EXCEPT ![p] = d]
        /\ on' = [on EXCEPT ![e.tile] = @ \cup {p}]
        /\ UNCHANGED <<nextEgg, life, ritualVars, stoneVars>>
  BY <1>2 DEF hatchEgg
<1>4. e \in eggs /\ e.tile \in Tile
  BY DEF TeamEggs, GameInv, WorldInv, WorldTypeOK, Egg
<1>5. PICK a, b : /\ a = ebo(e.id)
                  /\ b = pnw(p, e.tile, Orientation(d), lvl[p], t)
                  /\ wire' = wire \o <<a, b>>
  <2>1. PICK x \in eggs \ eggs' : broadcastGUI(<<ebo(x.id), playerInfo(p)'>>)
    BY DEF Joins
  <2>2. x = e
    BY <1>3
  <2>3. pos'[p] = e.tile /\ dir'[p] = d /\ lvl'[p] = lvl[p] /\ team'[p] = t
    BY <1>3 DEF GameInv, WorldInv, WorldTypeOK, ritualVars
  <2>4. playerInfo(p)' = pnw(p, e.tile, Orientation(d), lvl[p], t)
    BY <2>3 DEF playerInfo
  <2> QED  BY <2>1, <2>2, <2>4 DEF broadcastGUI
<1>6. Alive' = Alive \cup {p}
  <2>1. Listed /\ Listed'
    BY AliveListed, PTL DEF GameInv
  <2>2. \A s \in Tile : on'[s] = IF s = e.tile THEN on[s] \cup {p} ELSE on[s]
    BY <1>3, <1>4 DEF GameInv, WorldInv, WorldTypeOK
  <2> QED  BY <1>4, <2>1, <2>2 DEF Listed
<1>7. UNCHANGED <<freq, performing, strays, quit, said, unseen>>
  BY DEF Joins, Informs, Quiet
<1> QED  BY <1>1, <1>3, <1>4, <1>5, <1>6, <1>7

LEMMA JoinsAnnounced ==
  ASSUME GameInv, GameInv', connected, NEW m, Mirrors(m), NEW p \in Players, Joins(p)
  PROVE  Announces(m)
<1>1. PICK e, t, d, a, b :
        /\ e \in eggs /\ t \in Teams /\ d \in Direction
        /\ p \notin hatched /\ a = ebo(e.id)
        /\ b = pnw(p, e.tile, Orientation(d), lvl[p], t)
        /\ wire' = wire \o <<a, b>>
        /\ eggs' = eggs \ {e}
        /\ team' = [team EXCEPT ![p] = t]
        /\ pos' = [pos EXCEPT ![p] = e.tile]
        /\ dir' = [dir EXCEPT ![p] = d]
        /\ Alive' = Alive \cup {p}
        /\ UNCHANGED <<ritualVars, stoneVars, freq, performing, strays, quit, said, unseen>>
  BY JoinsSay
<1>2. e \in eggs /\ t \in Teams /\ d \in Direction
  BY <1>1
<1>3. e.id \in Nat /\ e.tile \in Tile
  BY <1>2 DEF GameInv, WorldInv, WorldTypeOK, Egg
<1>4. a = ebo(e.id) /\ b = pnw(p, e.tile, Orientation(d), lvl[p], t)
  BY <1>1
<1>5. PICK u : u = handleLine(m, a)
  OBVIOUS
<1>6. PICK w : w = handleLine(u, b)
  OBVIOUS
<1>7. /\ Knows(m, a) /\ u \in GameState
      /\ DOMAIN u.eggs = DOMAIN m.eggs \ {e.id}
      /\ SameTiles(m, u) /\ SamePlayers(m, u) /\ SameRites(m, u) /\ SameTime(m, u)
  <2>1. PICK id : id = e.id /\ id \in DOMAIN m.eggs
    BY <1>2 DEF Mirrors, EggsMirrored, EggIds
  <2> QED  BY <1>3, <1>4, <1>5, <2>1, OnEggGone DEF Mirrors
<1>8. PICK shown : shown = [at |-> e.tile, orientation |-> Orientation(d), level |-> lvl[p],
                            team |-> t, inventory |-> NoStones, broadcastVersion |-> 0]
  OBVIOUS
<1>9. Knows(u, b) /\ ShownAs(u, w, p, shown)
  <2>1. PICK at, o, v : at = e.tile /\ o = Orientation(d) /\ v = lvl[p]
    OBVIOUS
  <2>2. at \in Tile /\ at \in DOMAIN u.tiles
    BY <1>3, <1>7, <2>1 DEF Mirrors, TilesMirrored, SameTiles
  <2>3. o \in 1 .. 4 /\ v \in 1 .. MaxLevel
    BY <1>2, <2>1, OrientationRange DEF GameInv, WorldInv, WorldTypeOK
  <2> QED  BY <1>2, <1>4, <1>6, <1>7, <1>8, <2>1, <2>2, <2>3, OnPnw
<1>10. Works(m, <<a, b>>, w)
  BY <1>5, <1>6, <1>7, <1>9, WorksTwo
<1>11. Mirrors(w)'
  <2>1. EggsMirrored(w)'
    <3>1. \A f \in eggs' : f \in eggs /\ f.id # e.id
      BY <1>1 DEF GameInv, EggsApart
    <3>2. EggIds' = EggIds \ {e.id}
      BY <1>1, <3>1 DEF EggIds
    <3> QED  BY <1>7, <1>9, <3>2 DEF EggsMirrored, ShownAs, SameEggs, Mirrors
  <2>2. unseen' = unseen /\ UNCHANGED <<freq, performing, strays, quit, said>>
    BY <1>1
  <2>3. TimeMirrored(w)'
    BY <1>7, <1>9, <2>2, TimeStill DEF Mirrors, ShownAs, SameTime
  <2>4. RitesMirrored(w)'
    BY <1>7, <1>9, <2>2, RitesStill DEF Mirrors, ShownAs, SameRites
  <2>5. TilesMirrored(w)'
    BY <1>7, <1>9, TilesStill DEF Mirrors, ShownAs, SameTiles
  <2>6. PlayersMirrored(u)
    BY <1>7 DEF Mirrors, PlayersMirrored, SamePlayers
  <2>8. ASSUME NEW q \in Alive, q # p PROVE Steady(q)
    BY <1>1, <2>8
    DEF Steady, Alive, GameInv, WorldInv, WorldTypeOK, ritualVars, stoneVars
  <2>9. AsItIs(p, shown)'
    <3>1. inv[p] = NoStones /\ said[p] = 0
      BY <1>1 DEF GameInv, NewbornsAlike
    <3>2. /\ team'[p] = t /\ lvl'[p] = lvl[p] /\ said'[p] = 0
          /\ pos'[p] = e.tile /\ dir'[p] = d /\ inv'[p] = NoStones
      BY <1>1, <3>1 DEF GameInv, WorldInv, WorldTypeOK, ritualVars, stoneVars
    <3> QED  BY <1>8, <3>2 DEF AsItIs
  <2>10. PlayersMirrored(w)'
    BY <1>1, <1>9, <2>6, <2>8, <2>9, PlayersBut
  <2> QED  BY <1>9, <2>1, <2>3, <2>4, <2>5, <2>10 DEF Mirrors, ShownAs
<1> QED  BY <1>1, <1>10, <1>11 DEF Announces

LEMMA MovesAnnounced ==
  ASSUME GameInv, GameInv', connected, NEW m, Mirrors(m), NEW p \in Players, Moves(p)
  PROVE  Announces(m)
<1>1. /\ p \in Alive
      /\ UNCHANGED <<team, lvl, inv, eggs, freq, performing, strays, quit, said>>
      /\ unseen' = unseen \ {At(p), Facing(p)}
      /\ \A q \in Players : q # p => pos'[q] = pos[q] /\ dir'[q] = dir[q]
  <2>1. Step(p) \/ Turn(p)
    BY DEF Moves
  <2>2. \A q \in Players : q # p => pos'[q] = pos[q] /\ dir'[q] = dir[q]
    BY <2>1 DEF Step, forward, moveTrantorian, Turn, left, right, turn, GameInv,
                WorldInv, WorldTypeOK
  <2>3. p \in Alive /\ UNCHANGED <<team, lvl, inv, eggs>>
    BY <2>1 DEF Step, forward, Turn, left, right, turn, Alive, ritualVars, stoneVars, eggVars
  <2> QED  BY <2>2, <2>3 DEF Moves, Informs, Quiet
<1>2. Alive' = Alive
  BY ActKeepsAlive DEF Moves, GameInv
<1>3. PICK at, o : /\ at = pos'[p] /\ o = Orientation(dir'[p])
                   /\ at \in Tile /\ o \in 1 .. 4
  BY OrientationRange DEF GameInv, WorldInv, WorldTypeOK
<1>4. PICK l, w : l = ppo(p, at, o) /\ w = handleLine(m, l) /\ wire' = wire \o <<l>>
  BY <1>3 DEF Moves, broadcastGUI
<1>5. PICK shown : shown = [m.players[p] EXCEPT !.at = at, !.orientation = o]
  OBVIOUS
<1>6. p \in DOMAIN m.players
  BY <1>1 DEF Mirrors, PlayersMirrored
<1>7. Knows(m, l) /\ ShownAs(m, w, p, shown)
  BY <1>3, <1>4, <1>5, <1>6, OnPpo DEF Mirrors
<1>8. Works(m, <<l>>, w)
  BY <1>4, <1>7, WorksOne
<1>9. Mirrors(w)'
  <2>1. TilesMirrored(w)' /\ EggsMirrored(w)' /\ RitesMirrored(w)'
    BY <1>1, <1>7, TilesStill, EggsStill, RitesStill DEF Mirrors, ShownAs
  <2>2. TimeMirrored(w)'
    <3>1. TimeUnit \in unseen => TimeUnit \in unseen'
      BY <1>1 DEF TimeUnit, At, Facing
    <3> QED  BY <1>1, <1>7, <3>1, TimeStill DEF Mirrors, ShownAs
  <2>3. ASSUME NEW q \in Alive, q # p PROVE Steady(q)
    <3>1. {At(q), Facing(q), Inventory(q)} \cap {At(p), Facing(p)} = {}
      BY <2>3 DEF At, Facing, Inventory
    <3> QED  BY <1>1, <2>3, <3>1 DEF Steady, Alive
  <2>4. AsItIs(p, shown)'
    <3>1. AsItIs(p, m.players[p]) /\ m.players[p] \in Shown
      BY <1>1, <1>6, PlayerIsShown DEF Mirrors, PlayersMirrored
    <3>2. PICK was \in Shown : was = m.players[p]
      BY <3>1
    <3>3. /\ shown.at = at /\ shown.orientation = o /\ shown.team = was.team
          /\ shown.level = was.level /\ shown.inventory = was.inventory
          /\ shown.broadcastVersion = was.broadcastVersion
      BY <1>5, <3>2 DEF Shown
    <3>4. Inventory(p) \in unseen => Inventory(p) \in unseen'
      BY <1>1 DEF At, Facing, Inventory
    <3> QED  BY <1>1, <1>3, <3>1, <3>2, <3>3, <3>4 DEF AsItIs, Inventory
  <2>5. PlayersMirrored(w)'
    <3>1. Alive' = Alive \cup {p}
      BY <1>1, <1>2
    <3> QED  BY <1>1, <1>7, <2>3, <2>4, <3>1, PlayersBut DEF Mirrors
  <2> QED  BY <1>7, <2>1, <2>2, <2>5 DEF Mirrors, ShownAs
<1> QED  BY <1>4, <1>8, <1>9 DEF Announces

(* What a player has taken or put down. *)
LEMMA StonesAnnounced ==
  ASSUME GameInv, GameInv', connected, NEW m, Mirrors(m), NEW p \in Alive,
         NEW line, line.cmd \in {"pgt", "pdr"}, emitStones(p, line),
         UNCHANGED <<team, lvl, pos, dir, on, eggs>>,
         \A q \in Players : q # p => inv'[q] = inv[q]
  PROVE  Announces(m)
<1>0. p \in Players
  BY DEF Alive
<1>1. PICK at, q, r :
        /\ at = pos[p] /\ q = stones'[at] /\ r = inv'[p]
        /\ at \in Tile /\ q \in [Resource -> Nat] /\ r \in [Resource -> Nat]
  BY <1>0 DEF GameInv, WorldInv, WorldTypeOK
<1>2. PICK b, c : /\ b = bct(at, q) /\ c = pin(p, at, r)
                  /\ wire' = wire \o <<line, b, c>>
  BY <1>1 DEF emitStones, broadcastGUI, tileQuantities, playerQuantities
<1>3. unseen' = unseen \ {At(p), Inventory(p)}
  BY DEF emitStones, Informs
<1>4. UNCHANGED <<freq, performing, strays, quit, said>> /\ Alive' = Alive
  BY SettledKeepsAlive DEF emitStones, Quiet
<1>5. PICK t, u, w : t = handleLine(m, line) /\ u = handleLine(t, b) /\ w = handleLine(u, c)
  OBVIOUS
<1>6. Knows(m, line) /\ t \in GameState /\ Same(m, t)
  BY <1>5, OnText DEF Mirrors
<1>7. /\ Knows(t, b) /\ u \in GameState /\ DOMAIN u.tiles = DOMAIN t.tiles
      /\ SamePlayers(t, u) /\ SameEggs(t, u) /\ SameRites(t, u) /\ SameTime(t, u)
  <2>1. at \in DOMAIN t.tiles
    BY <1>1, <1>6 DEF Mirrors, TilesMirrored, Same, SameTiles
  <2> QED  BY <1>1, <1>2, <1>5, <1>6, <2>1, OnBct
<1>8. p \in DOMAIN m.players /\ u.players = m.players
  BY <1>6, <1>7 DEF Mirrors, PlayersMirrored, Same, SamePlayers
<1>9. PICK shown : shown = [u.players[p] EXCEPT !.at = at, !.inventory = r]
  OBVIOUS
<1>10. Knows(u, c) /\ ShownAs(u, w, p, shown)
  BY <1>1, <1>2, <1>5, <1>7, <1>8, <1>9, OnPin, ZenonT(40)
<1>11. Works(m, <<line, b, c>>, w)
  <2>1. Works(m, <<line, b>>, u) /\ Works(u, <<c>>, w)
    BY <1>5, <1>6, <1>7, <1>10, WorksTwo, WorksOne
  <2>2. <<line, b, c>> = <<line, b>> \o <<c>>
    OBVIOUS
  <2> QED  BY <2>1, <2>2, WorksOn
<1>12. Mirrors(w)'
  <2>1. TilesMirrored(w)'
    BY <1>6, <1>7, <1>10 DEF Mirrors, TilesMirrored, ShownAs, Same, SameTiles
  <2>2. EggsMirrored(w)' /\ RitesMirrored(w)'
    <3>1. SameEggs(m, w) /\ SameRites(m, w)
      BY <1>6, <1>7, <1>10 DEF ShownAs, Same, SameEggs, SameRites
    <3> QED  BY <1>4, <3>1, EggsStill, RitesStill DEF Mirrors
  <2>3. TimeMirrored(w)'
    <3>1. TimeUnit \in unseen => TimeUnit \in unseen'
      BY <1>3 DEF TimeUnit, At, Inventory
    <3>2. SameTime(m, w)
      BY <1>6, <1>7, <1>10 DEF ShownAs, Same, SameTime
    <3> QED  BY <1>4, <3>1, <3>2, TimeStill DEF Mirrors
  <2>4. ASSUME NEW x \in Alive, x # p PROVE Steady(x)
    <3>1. {At(x), Facing(x), Inventory(x)} \cap {At(p), Inventory(p)} = {}
      BY <2>4 DEF At, Facing, Inventory
    <3> QED  BY <1>3, <1>4, <2>4, <3>1 DEF Steady, Alive
  <2>5. AsItIs(p, shown)'
    <3>1. AsItIs(p, m.players[p]) /\ m.players[p] \in Shown
      BY <1>8, PlayerIsShown DEF Mirrors, PlayersMirrored
    <3>2. PICK was \in Shown : was = m.players[p]
      BY <3>1
    <3>3. /\ shown.at = at /\ shown.orientation = was.orientation /\ shown.team = was.team
          /\ shown.level = was.level /\ shown.inventory = r
          /\ shown.broadcastVersion = was.broadcastVersion
      BY <1>8, <1>9, <3>2 DEF Shown
    <3>4. Facing(p) \in unseen => Facing(p) \in unseen'
      BY <1>3 DEF At, Facing, Inventory
    <3> QED  BY <1>1, <1>4, <3>1, <3>2, <3>3, <3>4 DEF AsItIs, Facing
  <2>6. PlayersMirrored(w)'
    <3>1. Alive' = Alive \cup {p} /\ PlayersMirrored(u)
      BY <1>4, <1>8 DEF Mirrors, PlayersMirrored
    <3> QED  BY <1>4, <1>10, <2>4, <2>5, <3>1, PlayersBut
  <2> QED  BY <1>10, <2>1, <2>2, <2>3, <2>6 DEF Mirrors, ShownAs
<1> QED  BY <1>2, <1>11, <1>12 DEF Announces

LEMMA TakesAnnounced ==
  ASSUME GameInv, GameInv', connected, NEW m, Mirrors(m), NEW p \in Players,
         Takes(p) \/ Drops(p)
  PROVE  Announces(m)
<1>1. PICK r, line :
        /\ r \in Resource /\ (take(p, r) \/ set(p, r))
        /\ line.cmd \in {"pgt", "pdr"} /\ emitStones(p, line)
  BY DEF Takes, Drops, pgt, pdr
<1>2. /\ UNCHANGED <<team, lvl, pos, dir, on, eggs>>
      /\ \A q \in Players : q # p => inv'[q] = inv[q]
  <2>1. UNCHANGED <<team, lvl, pos, dir, on, eggs>>
    BY <1>1 DEF take, set, placeVars, ritualVars, eggVars
  <2>2. inv \in [Players -> [Resource -> Nat]]
    BY DEF GameInv, WorldInv, WorldTypeOK
  <2>3. ASSUME NEW q \in Players, q # p PROVE inv'[q] = inv[q]
    <3>1. CASE take(p, r)
      BY <2>2, <2>3, <3>1 DEF take
    <3>2. CASE set(p, r)
      BY <2>2, <2>3, <3>2 DEF set
    <3> QED  BY <1>1, <3>1, <3>2
  <2> QED  BY <2>1, <2>3
<1>3. p \in Alive
  BY DEF Takes, Drops, Alive
<1> QED  BY <1>1, <1>2, <1>3, StonesAnnounced

LEMMA LaysAnnounced ==
  ASSUME GameInv, GameInv', connected, NEW m, Mirrors(m), NEW p \in Players, Lays(p)
  PROVE  Announces(m)
<1>1. PICK e \in Nat, at \in Tile : e = nextEgg /\ at = pos[p]
  BY DEF GameInv, WorldInv, WorldTypeOK
<1>2. PICK a, b : a = pfk(p) /\ b = enw(e, p, at) /\ wire' = wire \o <<a, b>>
  BY <1>1 DEF Lays, broadcastGUI
<1>3. PICK u, w : u = handleLine(m, a) /\ w = handleLine(u, b)
  OBVIOUS
<1>4. Knows(m, a) /\ u \in GameState /\ Same(m, u)
  <2>1. a.cmd \in {"pex", "pfk", "pdr", "pgt", "sbp"}
    BY <1>2 DEF pfk
  <2> QED  BY <1>3, <2>1, OnText DEF Mirrors
<1>5. /\ Knows(u, b) /\ w \in GameState /\ DOMAIN w.eggs = DOMAIN m.eggs \cup {e}
      /\ SameTiles(u, w) /\ SamePlayers(u, w) /\ SameRites(u, w) /\ SameTime(u, w)
  <2>1. at \in DOMAIN u.tiles /\ u.eggs = m.eggs
    BY <1>4 DEF Mirrors, TilesMirrored, Same, SameTiles, SameEggs
  <2>2. p \in Players \cup {Nobody}
    OBVIOUS
  <2> QED  BY <1>2, <1>3, <1>4, <2>1, <2>2, OnEnw
<1>6. Works(m, <<a, b>>, w)
  BY <1>3, <1>4, <1>5, WorksTwo
<1>7. /\ SameTiles(m, w) /\ SamePlayers(m, w) /\ SameRites(m, w) /\ SameTime(m, w)
  BY <1>4, <1>5 DEF Same, SameTiles, SamePlayers, SameRites, SameTime
<1>8. Mirrors(w)'
  <2>1. UNCHANGED <<team, lvl, inv, pos, dir, on, freq, performing, strays, quit, said, unseen>>
    BY DEF Lays, Fork, fork, layEgg, placeVars, ritualVars, stoneVars, Informs, Quiet
  <2>2. Alive' = Alive /\ \A q \in Alive : Steady(q)
    BY <2>1, SettledKeepsAlive DEF Steady
  <2>3. EggIds' = EggIds \cup {e}
    <3>1. eggs' = eggs \cup {[id |-> e, team |-> team[p], tile |-> at]}
      BY <1>1 DEF Lays, Fork, fork, layEgg
    <3>2. PICK x : x = [id |-> e, team |-> team[p], tile |-> at]
      OBVIOUS
    <3>3. x.id = e /\ eggs' = eggs \cup {x}
      BY <3>1, <3>2
    <3> QED  BY <3>3 DEF EggIds
  <2>4. EggsMirrored(w)'
    BY <1>5, <2>3 DEF EggsMirrored, Mirrors
  <2>5. TilesMirrored(w)' /\ TimeMirrored(w)' /\ RitesMirrored(w)' /\ PlayersMirrored(w)'
    BY <1>7, <2>1, <2>2, TilesStill, TimeStill, RitesStill, PlayersStill DEF Mirrors
  <2> QED  BY <1>5, <2>4, <2>5 DEF Mirrors
<1> QED  BY <1>2, <1>6, <1>8 DEF Announces

LEMMA SpeaksAnnounced ==
  ASSUME GameInv, GameInv', connected, NEW m, Mirrors(m), NEW p \in Players, Speaks(p)
  PROVE  Announces(m)
<1>1. /\ p \in Alive /\ said' = [said EXCEPT ![p] = @ + 1] /\ unseen' = unseen
      /\ UNCHANGED <<worldVars, freq, performing, strays, quit>>
  BY DEF Speaks, Alive, Informs
<1>2. PICK l, w : l = pbc(p) /\ w = handleLine(m, l) /\ wire' = wire \o <<l>>
  BY DEF Speaks, broadcastGUI
<1>3. p \in DOMAIN m.players
  BY <1>1 DEF Mirrors, PlayersMirrored
<1>4. PICK shown : shown = [m.players[p] EXCEPT !.broadcastVersion = @ + 1]
  OBVIOUS
<1>5. Knows(m, l) /\ ShownAs(m, w, p, shown)
  BY <1>2, <1>3, <1>4, OnPbc DEF Mirrors
<1>6. UNCHANGED <<team, lvl, inv, pos, dir, on, eggs>>
  BY <1>1 DEF worldVars, placeVars, ritualVars, stoneVars, eggVars
<1>7. Alive' = Alive \cup {p}
  BY <1>1, <1>6, SettledKeepsAlive
<1>8. Mirrors(w)'
  <2>1. TilesMirrored(w)' /\ EggsMirrored(w)' /\ TimeMirrored(w)' /\ RitesMirrored(w)'
    BY <1>1, <1>5, <1>6, TilesStill, EggsStill, TimeStill, RitesStill DEF Mirrors, ShownAs
  <2>2. said \in [Players -> Nat]
    BY DEF GameInv, GuiTypeOK
  <2>3. ASSUME NEW q \in Alive, q # p PROVE Steady(q)
    BY <1>1, <1>6, <2>2, <2>3 DEF Steady, Alive
  <2>4. AsItIs(p, shown)'
    <3>1. AsItIs(p, m.players[p]) /\ m.players[p] \in Shown
      BY <1>1, <1>3, PlayerIsShown DEF Mirrors, PlayersMirrored
    <3>2. PICK was \in Shown : was = m.players[p]
      BY <3>1
    <3>3. /\ shown.at = was.at /\ shown.orientation = was.orientation
          /\ shown.team = was.team /\ shown.level = was.level
          /\ shown.inventory = was.inventory
          /\ shown.broadcastVersion = was.broadcastVersion + 1
      BY <1>4, <3>2 DEF Shown
    <3>4. said'[p] = said[p] + 1
      BY <1>1, <2>2
    <3> QED  BY <1>1, <1>6, <3>1, <3>2, <3>3, <3>4 DEF AsItIs
  <2>5. PlayersMirrored(w)'
    BY <1>1, <1>5, <1>7, <2>3, <2>4, PlayersBut DEF Mirrors
  <2> QED  BY <1>5, <2>1, <2>5 DEF Mirrors, ShownAs
<1> QED  BY <1>2, <1>5, <1>8, WorksOne DEF Announces

-----------------------------------------------------------------------------
(***************************************************************************)
(* Sequences of lines about the members of a set.                          *)
(***************************************************************************)
Enumerates(s, S) ==
  /\ s = [k \in 1 .. Len(s) |-> s[k]] /\ Len(s) \in Nat
  /\ \A k \in 1 .. Len(s) : s[k] \in S
  /\ \A i, j \in 1 .. Len(s) : i # j => s[i] # s[j]
  /\ \A x \in S : \E k \in 1 .. Len(s) : s[k] = x

LEMMA InjectionEnumerates ==
  ASSUME NEW S, IsFiniteSet(S), NEW s \in [1 .. Cardinality(S) -> S],
         \A i, j \in 1 .. Cardinality(S) : i # j => s[i] # s[j]
  PROVE  Enumerates(s, S)
<1>1. PICK n \in Nat : n = Cardinality(S)
  BY FS_CardinalityType
<1>2. s \in Injection(1 .. n, S)
  BY <1>1 DEF Injection, IsInjective
<1>3. Cardinality(1 .. n) = n
  BY FS_Interval
<1>4. s \in Surjection(1 .. n, S)
  BY <1>1, <1>2, <1>3, FS_Injection
<1>5. \A x \in S : \E k \in 1 .. n : s[k] = x
  BY <1>4 DEF Surjection
<1>6. Len(s) = n
  BY <1>1
<1> QED  BY <1>1, <1>5, <1>6 DEF Enumerates

LEMMA SeqsEnumerate ==
  ASSUME NEW S, IsFiniteSet(S), NEW s \in SetToSeqs(S)
  PROVE  Enumerates(s, S)
BY InjectionEnumerates DEF SetToSeqs

LEMMA SeqEnumerates ==
  ASSUME NEW S, IsFiniteSet(S), NEW s, s = SetToSeq(S)
  PROVE  Enumerates(s, S)
<1>1. PICK f : f \in Bijection(1 .. Cardinality(S), S)
  BY FS_CardinalityType DEF ExistsBijection
<1>2. f \in [1 .. Cardinality(S) -> S] /\ IsInjective(f)
  BY <1>1 DEF Bijection, Injection
<1>3. s \in [1 .. Cardinality(S) -> S] /\ IsInjective(s)
  BY <1>2 DEF SetToSeq
<1> QED  BY <1>3, InjectionEnumerates DEF IsInjective

(* What has been named after k of them. *)
Upto(s, k) == {s[j] : j \in 1 .. k}

LEMMA UptoNext ==
  ASSUME NEW S, NEW s, Enumerates(s, S), NEW k \in 1 .. Len(s)
  PROVE  /\ Upto(s, k) = Upto(s, k - 1) \cup {s[k]}
         /\ s[k] \notin Upto(s, k - 1) /\ s[k] \in S
<1>1. Len(s) \in Nat
  BY DEF Enumerates
<1>2. 1 .. k = (1 .. k - 1) \cup {k} /\ k \notin 1 .. k - 1 /\ 1 .. k - 1 \subseteq 1 .. Len(s)
  BY <1>1
<1> QED  BY <1>2 DEF Upto, Enumerates

LEMMA UptoEnds ==
  ASSUME NEW S, NEW s, Enumerates(s, S)
  PROVE  Upto(s, 0) = {} /\ Upto(s, Len(s)) = S
<1>1. Upto(s, 0) = {}
  BY DEF Upto
<1>2. Upto(s, Len(s)) = S
  BY DEF Upto, Enumerates
<1> QED  BY <1>1, <1>2

LEMMA WorksEach ==
  ASSUME NEW n \in Nat, NEW s, s = [k \in 1 .. n |-> s[k]], NEW G, NEW m, m \in G[0],
         \A k \in 1 .. n : \A x \in G[k - 1] :
           Knows(x, s[k]) /\ handleLine(x, s[k]) \in G[k]
  PROVE  \E w \in G[n] : Works(m, s, w)
<1>1. PICK S : S = {s[k] : k \in 1 .. n}
  OBVIOUS
<1>2. s \in [1 .. n -> S]
  BY <1>1
<1>3. s \in Seq(S) /\ Len(s) = n
  BY <1>2
<1> QED  BY <1>3, WorksAll

(* Lines that leave every mirror the same. *)
LEMMA EachSame ==
  ASSUME NEW n \in Nat, NEW s, s = [k \in 1 .. n |-> s[k]], NEW m \in GameState,
         \A k \in 1 .. n : \A x \in GameState :
           LET y == handleLine(x, s[k]) IN Knows(x, s[k]) /\ y \in GameState /\ Same(x, y)
  PROVE  \E w \in GameState : Works(m, s, w) /\ Same(m, w)
<1> DEFINE G == [k \in 0 .. n |-> {x \in GameState : Same(m, x)}]
<1>1. m \in G[0]
  BY DEF Same, SameTiles, SamePlayers, SameEggs, SameRites, SameTime
<1>2. ASSUME NEW k \in 1 .. n, NEW x \in G[k - 1]
      PROVE  Knows(x, s[k]) /\ handleLine(x, s[k]) \in G[k]
  <2>1. x \in GameState /\ Same(m, x)
    OBVIOUS
  <2>2. PICK y : y = handleLine(x, s[k])
    OBVIOUS
  <2>3. Knows(x, s[k]) /\ y \in GameState /\ Same(x, y)
    BY <2>1, <2>2
  <2>4. Same(m, y)
    BY <2>1, <2>3 DEF Same, SameTiles, SamePlayers, SameEggs, SameRites, SameTime
  <2> QED  BY <2>2, <2>3, <2>4
<1>3. \A x \in G[n] : x \in GameState /\ Same(m, x)
  OBVIOUS
<1> HIDE DEF G
<1> QED  BY <1>1, <1>2, <1>3, WorksEach

(* All tiles, or some, said anew. *)
LEMMA EachTile ==
  ASSUME NEW n \in Nat, NEW s, s = [k \in 1 .. n |-> s[k]],
         NEW m \in GameState, DOMAIN m.tiles = Tile,
         \A k \in 1 .. n : \E t \in Tile, q \in [Resource -> Nat] : s[k] = bct(t, q)
  PROVE  \E w \in GameState :
           /\ Works(m, s, w) /\ DOMAIN w.tiles = Tile
           /\ SamePlayers(m, w) /\ SameEggs(m, w) /\ SameRites(m, w) /\ SameTime(m, w)
<1> DEFINE Good(x) == /\ x \in GameState /\ DOMAIN x.tiles = Tile
                      /\ SamePlayers(m, x) /\ SameEggs(m, x) /\ SameRites(m, x)
                      /\ SameTime(m, x)
           G == [k \in 0 .. n |-> {x \in GameState : Good(x)}]
<1>1. m \in G[0]
  BY DEF SamePlayers, SameEggs, SameRites, SameTime
<1>2. ASSUME NEW k \in 1 .. n, NEW x \in G[k - 1]
      PROVE  Knows(x, s[k]) /\ handleLine(x, s[k]) \in G[k]
  <2>1. Good(x)
    OBVIOUS
  <2>2. PICK t \in Tile, q \in [Resource -> Nat] : s[k] = bct(t, q)
    OBVIOUS
  <2>3. PICK l, y : l = s[k] /\ y = handleLine(x, l)
    OBVIOUS
  <2>4. /\ Knows(x, l) /\ y \in GameState /\ DOMAIN y.tiles = DOMAIN x.tiles
        /\ SamePlayers(x, y) /\ SameEggs(x, y) /\ SameRites(x, y) /\ SameTime(x, y)
    <3> HIDE DEF G
    <3> QED  BY <2>1, <2>2, <2>3, OnBct
  <2>5. Good(y)
    BY <2>1, <2>4 DEF SamePlayers, SameEggs, SameRites, SameTime
  <2> QED  BY <2>3, <2>4, <2>5
<1>3. \A x \in G[n] : Good(x)
  OBVIOUS
<1>4. \E w \in G[n] : Works(m, s, w)
  <2> HIDE DEF G
  <2> QED  BY <1>1, <1>2, WorksEach
<1> HIDE DEF G
<1> QED  BY <1>3, <1>4

(* How a player is shown by its pnw. *)
FirstShown(p) ==
  [at |-> pos[p], orientation |-> Orientation(dir[p]), level |-> lvl[p], team |-> team[p],
   inventory |-> NoStones, broadcastVersion |-> 0]

Introduced(S, roster) == DOMAIN roster = S /\ \A p \in S : roster[p] = FirstShown(p)

(* All members of S shown, where nobody was. *)
LEMMA EachGreeted ==
  ASSUME NEW S \in SUBSET Players, NEW s, Enumerates(s, S), NEW n, n = Len(s),
         NEW l, l = [k \in 1 .. n |-> playerInfo(s[k])],
         NEW m \in GameState, DOMAIN m.players = {}, DOMAIN m.tiles = Tile,
         \A p \in S : /\ pos[p] \in Tile /\ dir[p] \in Direction
                      /\ lvl[p] \in 1 .. MaxLevel /\ team[p] \in Teams
  PROVE  \E w \in GameState :
           /\ Works(m, l, w) /\ Introduced(S, w.players)
           /\ SameTiles(m, w) /\ SameEggs(m, w) /\ SameRites(m, w) /\ SameTime(m, w)
<1> DEFINE Good(x, k) == /\ SameTiles(m, x) /\ SameEggs(m, x) /\ SameRites(m, x)
                         /\ SameTime(m, x)
                         /\ DOMAIN x.players = Upto(s, k)
                         /\ \A p \in Upto(s, k) : x.players[p] = FirstShown(p)
           G == [k \in 0 .. n |-> {x \in GameState : Good(x, k)}]
<1>0. n \in Nat /\ \A k \in 0 .. n : \A x : x \in G[k] <=> x \in GameState /\ Good(x, k)
  BY DEF Enumerates
<1>1. m \in G[0]
  <2>1. Good(m, 0)
    BY UptoEnds DEF SameTiles, SameEggs, SameRites, SameTime
  <2> HIDE DEF G, Good
  <2> QED  BY <1>0, <2>1
<1>2. ASSUME NEW k \in 1 .. n, NEW x \in G[k - 1]
      PROVE  Knows(x, l[k]) /\ handleLine(x, l[k]) \in G[k]
  <2>1. x \in GameState /\ Good(x, k - 1)
    <3> HIDE DEF G, Good
    <3> QED  BY <1>0
  <2>2. PICK p : p = s[k] /\ p \in S /\ p \in Players
    BY DEF Enumerates
  <2>3. PICK at, o, v, name : /\ at = pos[p] /\ o = Orientation(dir[p])
                              /\ v = lvl[p] /\ name = team[p]
    OBVIOUS
  <2>4. /\ at \in Tile /\ at \in DOMAIN x.tiles /\ o \in 1 .. 4
        /\ v \in 1 .. MaxLevel /\ name \in Teams
    BY <2>1, <2>2, <2>3, OrientationRange DEF SameTiles
  <2>5. PICK a, y : /\ a = l[k] /\ a = pnw(p, at, o, v, name)
                    /\ y = handleLine(x, a)
    BY <2>2, <2>3 DEF playerInfo
  <2>6. PICK shown : /\ shown = [at |-> at, orientation |-> o, level |-> v, team |-> name,
                                 inventory |-> NoStones, broadcastVersion |-> 0]
                     /\ shown = FirstShown(p)
    BY <2>3 DEF FirstShown
  <2>7. Knows(x, a) /\ ShownAs(x, y, p, shown)
    BY <2>1, <2>2, <2>4, <2>5, <2>6, OnPnw
  <2>8. Upto(s, k) = Upto(s, k - 1) \cup {p}
    BY <2>2, UptoNext
  <2>9. y \in GameState /\ Good(y, k)
    BY <2>1, <2>6, <2>7, <2>8 DEF ShownAs, SameTiles, SameEggs, SameRites, SameTime
  <2> HIDE DEF G, Good
  <2> QED  BY <1>0, <2>5, <2>7, <2>9
<1>3. \E w \in G[n] : Works(m, l, w)
  <2>1. l = [k \in 1 .. n |-> l[k]]
    OBVIOUS
  <2>2. n \in Nat
    BY <1>0
  <2> HIDE DEF G
  <2> QED  BY <1>1, <1>2, <2>1, <2>2, WorksEach
<1>4. PICK w \in GameState : Works(m, l, w) /\ Good(w, n)
  <2> HIDE DEF G, Good
  <2> QED  BY <1>0, <1>3
<1>5. Upto(s, n) = S
  BY UptoEnds
<1> QED  BY <1>4, <1>5 DEF Introduced

(* All members of S get a new level. *)
Raised(S, v, before, after) ==
  /\ DOMAIN after = DOMAIN before
  /\ \A p \in DOMAIN before :
       after[p] = IF p \in S THEN [before[p] EXCEPT !.level = v] ELSE before[p]

LEMMA EachRisen ==
  ASSUME NEW S, NEW s, Enumerates(s, S), NEW n, n = Len(s), NEW v \in 1 .. MaxLevel,
         NEW l, l = [k \in 1 .. n |-> plv(s[k], v)],
         NEW m \in GameState, S \subseteq DOMAIN m.players
  PROVE  \E w \in GameState :
           /\ Works(m, l, w) /\ Raised(S, v, m.players, w.players)
           /\ SameTiles(m, w) /\ SameEggs(m, w) /\ SameRites(m, w) /\ SameTime(m, w)
<1> DEFINE new(p) == [m.players[p] EXCEPT !.level = v]
           Good(x, k) == /\ SameTiles(m, x) /\ SameEggs(m, x) /\ SameRites(m, x)
                         /\ SameTime(m, x)
                         /\ DOMAIN x.players = DOMAIN m.players
                         /\ \A p \in DOMAIN m.players :
                              x.players[p] = IF p \in Upto(s, k) THEN new(p) ELSE m.players[p]
           G == [k \in 0 .. n |-> {x \in GameState : Good(x, k)}]
<1>0. n \in Nat /\ \A k \in 0 .. n : \A x : x \in G[k] <=> x \in GameState /\ Good(x, k)
  BY DEF Enumerates
<1>1. m \in G[0]
  <2>1. Good(m, 0)
    BY UptoEnds DEF SameTiles, SameEggs, SameRites, SameTime
  <2> HIDE DEF G, Good
  <2> QED  BY <1>0, <2>1
<1>2. ASSUME NEW k \in 1 .. n, NEW x \in G[k - 1]
      PROVE  Knows(x, l[k]) /\ handleLine(x, l[k]) \in G[k]
  <2>1. x \in GameState /\ Good(x, k - 1)
    <3> HIDE DEF G, Good
    <3> QED  BY <1>0
  <2>2. PICK p : p = s[k] /\ p \in S /\ p \in DOMAIN m.players /\ p \in DOMAIN x.players
    BY <2>1 DEF Enumerates
  <2>3. /\ Upto(s, k) = Upto(s, k - 1) \cup {p} /\ p \notin Upto(s, k - 1)
    BY <2>2, UptoNext
  <2>4. PICK a, y : a = l[k] /\ a = plv(p, v) /\ y = handleLine(x, a)
    BY <2>2
  <2>5. PICK shown : shown = [x.players[p] EXCEPT !.level = v]
    OBVIOUS
  <2>6. Knows(x, a) /\ ShownAs(x, y, p, shown)
    <3> HIDE DEF G, new
    <3> QED  BY <2>1, <2>2, <2>4, <2>5, OnPlv
  <2>8. shown = new(p)
    <3>1. x.players[p] = m.players[p]
      BY <2>1, <2>2, <2>3
    <3> QED  BY <2>5, <3>1
  <2>7. y \in GameState /\ Good(y, k)
    <3> HIDE DEF new
    <3> QED
      BY <2>1, <2>2, <2>3, <2>6, <2>8
      DEF ShownAs, SameTiles, SameEggs, SameRites, SameTime
  <2> HIDE DEF G, Good
  <2> QED  BY <1>0, <2>4, <2>6, <2>7
<1>3. \E w \in G[n] : Works(m, l, w)
  <2>1. l = [k \in 1 .. n |-> l[k]]
    OBVIOUS
  <2>2. n \in Nat
    BY <1>0
  <2> HIDE DEF G
  <2> QED  BY <1>1, <1>2, <2>1, <2>2, WorksEach
<1>4. PICK w \in GameState : Works(m, l, w) /\ Good(w, n)
  <2> HIDE DEF G, Good
  <2> QED  BY <1>0, <1>3
<1>5. Upto(s, n) = S
  BY UptoEnds
<1> QED  BY <1>4, <1>5 DEF Raised

(* All members of S are taken away. *)
Removed(S, before, after) ==
  DOMAIN after = DOMAIN before \ S /\ \A x \in DOMAIN after : after[x] = before[x]

LEMMA EachDead ==
  ASSUME NEW S, NEW s, Enumerates(s, S), NEW n, n = Len(s),
         NEW l, l = [k \in 1 .. n |-> l[k]], \A k \in 1 .. n : l[k] = pdi(s[k]),
         NEW m \in GameState, S \subseteq DOMAIN m.players
  PROVE  \E w \in GameState :
           /\ Works(m, l, w) /\ Removed(S, m.players, w.players)
           /\ SameTiles(m, w) /\ SameEggs(m, w) /\ SameRites(m, w) /\ SameTime(m, w)
<1> DEFINE Good(x, k) == /\ SameTiles(m, x) /\ SameEggs(m, x) /\ SameRites(m, x)
                         /\ SameTime(m, x)
                         /\ DOMAIN x.players = DOMAIN m.players \ Upto(s, k)
                         /\ \A p \in DOMAIN x.players : x.players[p] = m.players[p]
           G == [k \in 0 .. n |-> {x \in GameState : Good(x, k)}]
<1>0. n \in Nat /\ \A k \in 0 .. n : \A x : x \in G[k] <=> x \in GameState /\ Good(x, k)
  BY DEF Enumerates
<1>1. m \in G[0]
  <2>1. Good(m, 0)
    BY UptoEnds DEF SameTiles, SameEggs, SameRites, SameTime
  <2> HIDE DEF G, Good
  <2> QED  BY <1>0, <2>1
<1>2. ASSUME NEW k \in 1 .. n, NEW x \in G[k - 1]
      PROVE  Knows(x, l[k]) /\ handleLine(x, l[k]) \in G[k]
  <2>1. x \in GameState /\ Good(x, k - 1)
    <3> HIDE DEF G, Good
    <3> QED  BY <1>0
  <2>2. PICK p : p = s[k]
    OBVIOUS
  <2>3. Upto(s, k) = Upto(s, k - 1) \cup {p} /\ p \notin Upto(s, k - 1) /\ p \in S
    BY <2>2, UptoNext
  <2>4. p \in DOMAIN x.players
    BY <2>1, <2>3
  <2>5. PICK a, y : a = l[k] /\ a = pdi(p) /\ y = handleLine(x, a)
    BY <2>2
  <2>6. /\ Knows(x, a) /\ y \in GameState
        /\ DOMAIN y.players = DOMAIN x.players \ {p}
        /\ \A q \in DOMAIN y.players : y.players[q] = x.players[q]
        /\ SameTiles(x, y) /\ SameEggs(x, y) /\ SameRites(x, y) /\ SameTime(x, y)
    BY <2>1, <2>4, <2>5, OnPdi
  <2>7. Good(y, k)
    BY <2>1, <2>3, <2>6 DEF SameTiles, SameEggs, SameRites, SameTime
  <2> HIDE DEF G, Good
  <2> QED  BY <1>0, <2>5, <2>6, <2>7
<1>3. \E w \in G[n] : Works(m, l, w)
  <2>1. l = [k \in 1 .. n |-> l[k]]
    OBVIOUS
  <2>2. n \in Nat
    BY <1>0
  <2> HIDE DEF G
  <2> QED  BY <1>1, <1>2, <2>1, <2>2, WorksEach
<1>4. PICK w \in GameState : Works(m, l, w) /\ Good(w, n)
  <2> HIDE DEF G, Good
  <2> QED  BY <1>0, <1>3
<1>5. Upto(s, n) = S
  BY UptoEnds
<1> QED  BY <1>4, <1>5 DEF Removed

(* The eggs of S are lost. *)
LEMMA EachEggLost ==
  ASSUME NEW S, NEW s, Enumerates(s, S), NEW n, n = Len(s),
         NEW l, l = [k \in 1 .. n |-> l[k]], \A k \in 1 .. n : l[k] = edi(s[k]),
         NEW m \in GameState, S \subseteq DOMAIN m.eggs
  PROVE  \E w \in GameState :
           /\ Works(m, l, w) /\ Removed(S, m.eggs, w.eggs)
           /\ SameTiles(m, w) /\ SamePlayers(m, w) /\ SameRites(m, w) /\ SameTime(m, w)
<1> DEFINE Good(x, k) == /\ SameTiles(m, x) /\ SamePlayers(m, x) /\ SameRites(m, x)
                         /\ SameTime(m, x)
                         /\ DOMAIN x.eggs = DOMAIN m.eggs \ Upto(s, k)
                         /\ \A e \in DOMAIN x.eggs : x.eggs[e] = m.eggs[e]
           G == [k \in 0 .. n |-> {x \in GameState : Good(x, k)}]
<1>0. n \in Nat /\ \A k \in 0 .. n : \A x : x \in G[k] <=> x \in GameState /\ Good(x, k)
  BY DEF Enumerates
<1>1. m \in G[0]
  <2>1. Good(m, 0)
    BY UptoEnds DEF SameTiles, SamePlayers, SameRites, SameTime
  <2> HIDE DEF G, Good
  <2> QED  BY <1>0, <2>1
<1>2. ASSUME NEW k \in 1 .. n, NEW x \in G[k - 1]
      PROVE  Knows(x, l[k]) /\ handleLine(x, l[k]) \in G[k]
  <2>1. x \in GameState /\ Good(x, k - 1)
    <3> HIDE DEF G, Good
    <3> QED  BY <1>0
  <2>2. PICK e : e = s[k]
    OBVIOUS
  <2>3. Upto(s, k) = Upto(s, k - 1) \cup {e} /\ e \notin Upto(s, k - 1) /\ e \in S
    BY <2>2, UptoNext
  <2>4. e \in DOMAIN x.eggs
    BY <2>1, <2>3
  <2>5. PICK a, y : a = l[k] /\ a = edi(e) /\ y = handleLine(x, a)
    BY <2>2
  <2>6. /\ Knows(x, a) /\ y \in GameState
        /\ DOMAIN y.eggs = DOMAIN x.eggs \ {e}
        /\ \A i \in DOMAIN y.eggs : y.eggs[i] = x.eggs[i]
        /\ SameTiles(x, y) /\ SamePlayers(x, y) /\ SameRites(x, y) /\ SameTime(x, y)
    BY <2>1, <2>4, <2>5, OnEggGone
  <2>7. Good(y, k)
    BY <2>1, <2>3, <2>6 DEF SameTiles, SamePlayers, SameRites, SameTime
  <2> HIDE DEF G, Good
  <2> QED  BY <1>0, <2>5, <2>6, <2>7
<1>3. \E w \in G[n] : Works(m, l, w)
  <2>1. l = [k \in 1 .. n |-> l[k]]
    OBVIOUS
  <2>2. n \in Nat
    BY <1>0
  <2> HIDE DEF G
  <2> QED  BY <1>1, <1>2, <2>1, <2>2, WorksEach
<1>4. PICK w \in GameState : Works(m, l, w) /\ Good(w, n)
  <2> HIDE DEF G, Good
  <2> QED  BY <1>0, <1>3
<1>5. Upto(s, n) = S
  BY UptoEnds
<1> QED  BY <1>4, <1>5 DEF Removed

-----------------------------------------------------------------------------
(* The tiles as mapTiles goes through them, row by row, are tiles of the map. *)
LEMMA RowInside ==
  ASSUME NEW w \in Nat \ {0}, NEW h \in Nat \ {0}, NEW a \in Nat, a < w * h
  PROVE  a \div w \in 0 .. h - 1
<1>1. PICK q \in Int, r \in 0 .. w - 1 : q = a \div w /\ a = w * q + r
  <2>1. a = w * (a \div w) + (a % w) /\ a \div w \in Int /\ a % w \in 0 .. w - 1
    OBVIOUS
  <2> QED  BY <2>1
<1>2. q >= 0
  <2> SUFFICES ASSUME q <= -1 PROVE FALSE
    BY <1>1
  <2>1. w * q <= w * (-1)
    OBVIOUS
  <2> QED  BY <1>1, <2>1
<1>3. q < h
  <2> SUFFICES ASSUME q >= h PROVE FALSE
    BY <1>1
  <2>1. w * q >= w * h
    OBVIOUS
  <2> QED  BY <1>1, <2>1
<1> QED  BY <1>1, <1>2, <1>3

LEMMA RowsAreTiles ==
  ASSUME NEW k \in 1 .. Width * Height
  PROVE  <<(k - 1) % Width, (k - 1) \div Width>> \in Tile
<1>1. PICK a \in Nat : a = k - 1 /\ a < Width * Height
  BY SizeAssumption
<1>2. PICK w \in Nat \ {0}, h \in Nat \ {0} : w = Width /\ h = Height
  BY SizeAssumption
<1>3. a \div w \in 0 .. h - 1
  <2>1. a < w * h
    BY <1>1, <1>2
  <2> QED  BY <2>1, RowInside
<1>4. a % w \in 0 .. w - 1
  OBVIOUS
<1> QED  BY <1>1, <1>2, <1>3, <1>4 DEF Tile

(* The greeting's and a respawn's tiles. *)
LEMMA TilesSaid ==
  ASSUME NEW m \in GameState, DOMAIN m.tiles = Tile, stones \in [Tile -> [Resource -> Nat]]
  PROVE  \E w \in GameState :
           /\ Works(m, mapTiles, w) /\ DOMAIN w.tiles = Tile
           /\ SamePlayers(m, w) /\ SameEggs(m, w) /\ SameRites(m, w) /\ SameTime(m, w)
<1>1. PICK n \in Nat : n = Width * Height
  BY SizeAssumption
<1>2. PICK s : s = mapTiles /\ s = [k \in 1 .. n |-> s[k]]
  BY <1>1 DEF mapTiles
<1>3. ASSUME NEW k \in 1 .. n
      PROVE  \E t \in Tile, q \in [Resource -> Nat] : s[k] = bct(t, q)
  <2>1. PICK t \in Tile : t = <<(k - 1) % Width, (k - 1) \div Width>>
    BY <1>1, RowsAreTiles
  <2>2. s[k] = bct(t, stones[t])
    BY <1>1, <1>2, <2>1 DEF mapTiles, tileQuantities
  <2> QED  BY <2>2
<1> QED  BY <1>2, <1>3, EachTile

LEMMA RegrowsAnnounced ==
  ASSUME GameInv, GameInv', connected, NEW m, Mirrors(m), Regrows
  PROVE  Announces(m)
<1>1. wire' = wire \o mapTiles'
  BY DEF Regrows, broadcastGUI
<1>2. PICK s : s = mapTiles' /\ \E w \in GameState :
        /\ Works(m, s, w) /\ DOMAIN w.tiles = Tile
        /\ SamePlayers(m, w) /\ SameEggs(m, w) /\ SameRites(m, w) /\ SameTime(m, w)
  <2>1. m \in GameState /\ DOMAIN m.tiles = Tile
    BY DEF Mirrors, TilesMirrored
  <2>2. PICK n \in Nat : n = Width * Height
    BY SizeAssumption
  <2>3. PICK s : s = mapTiles' /\ s = [k \in 1 .. n |-> s[k]]
    BY <2>2 DEF mapTiles
  <2>4. ASSUME NEW k \in 1 .. n
        PROVE  \E t \in Tile, q \in [Resource -> Nat] : s[k] = bct(t, q)
    <3>1. PICK t \in Tile : t = <<(k - 1) % Width, (k - 1) \div Width>>
      BY <2>2, RowsAreTiles
    <3>2. s[k] = bct(t, stones'[t])
      BY <2>2, <2>3, <3>1 DEF mapTiles, tileQuantities
    <3>3. stones'[t] \in [Resource -> Nat]
      BY DEF GameInv, WorldInv, WorldTypeOK
    <3> QED  BY <3>2, <3>3
  <2>5. \E w \in GameState :
           /\ Works(m, s, w) /\ DOMAIN w.tiles = Tile
           /\ SamePlayers(m, w) /\ SameEggs(m, w) /\ SameRites(m, w) /\ SameTime(m, w)
    BY <2>1, <2>3, <2>4, EachTile
  <2> QED  BY <2>3, <2>5
<1>3. PICK w \in GameState :
        /\ Works(m, s, w) /\ DOMAIN w.tiles = Tile
        /\ SamePlayers(m, w) /\ SameEggs(m, w) /\ SameRites(m, w) /\ SameTime(m, w)
  BY <1>2
<1>4. UNCHANGED <<team, lvl, inv, pos, dir, on, eggs, freq, performing, strays, quit,
                  said, unseen>>
  BY DEF Regrows, Respawn, generateResources, placeVars, ritualVars, eggVars, Informs, Quiet
<1>5. Alive' = Alive /\ \A q \in Alive : Steady(q)
  BY <1>4, SettledKeepsAlive DEF Steady
<1>6. TilesMirrored(w)'
  BY <1>3 DEF TilesMirrored
<1>7. EggsMirrored(w)' /\ TimeMirrored(w)' /\ RitesMirrored(w)' /\ PlayersMirrored(w)'
  BY <1>3, <1>4, <1>5, EggsStill, TimeStill, RitesStill, PlayersStill DEF Mirrors
<1>8. Mirrors(w)'
  BY <1>6, <1>7 DEF Mirrors
<1> QED  BY <1>1, <1>2, <1>3, <1>8 DEF Announces

LEMMA NoTileIsNoTile == NoTile \notin Tile
BY DEF NoTile, Tile

LEMMA StartsAnnounced ==
  ASSUME GameInv, GameInv', connected, NEW m, Mirrors(m), NEW p \in Players, StartsRitual(p)
  PROVE  Announces(m)
<1>1. /\ performing[p] = NoTile /\ performing' = [performing EXCEPT ![p] = pos[p]]
      /\ UNCHANGED <<team, lvl, inv, pos, dir, on, eggs, freq, strays, quit, said, unseen>>
  BY DEF StartsRitual, Free, Start, startElevation, placeVars, stoneVars, eggVars, historyVars
<1>2. PICK at, v, S : /\ at = pos[p] /\ v = lvl[p] /\ S = Peers(p)
                      /\ at \in Tile /\ v \in 1 .. MaxLevel /\ S \in SUBSET Players
  <2>1. pos[p] \in Tile /\ lvl[p] \in 1 .. MaxLevel /\ on \in [Tile -> SUBSET Players]
    BY DEF GameInv, WorldInv, WorldTypeOK
  <2>2. Peers(p) \in SUBSET Players
    BY <2>1 DEF Peers
  <2> QED  BY <2>1, <2>2
<1>3. PICK l, w : l = pic(at, v, S) /\ w = handleLine(m, l) /\ wire' = wire \o <<l>>
  BY <1>2 DEF StartsRitual, broadcastGUI
<1>4. /\ Knows(m, l) /\ w \in GameState
      /\ w.incantations = m.incantations \cup {[at |-> at, level |-> v, players |-> S]}
      /\ SameTiles(m, w) /\ SamePlayers(m, w) /\ SameEggs(m, w) /\ SameTime(m, w)
  BY <1>2, <1>3, OnPic DEF Mirrors
<1>5. RitesMirrored(w)'
  <2> SUFFICES ASSUME NEW i \in w.incantations
               PROVE  i.at \in strays' \/ \E q \in Players : performing'[q] = i.at
    BY DEF RitesMirrored
  <2>0. performing \in [Players -> Tile \cup {NoTile}]
    BY DEF GameInv, GuiTypeOK
  <2>1. CASE i \in m.incantations
    <3>1. i.at \in Tile
      BY <2>1 DEF Mirrors, GameState, Rites
    <3>2. CASE i.at \in strays
      BY <1>1, <3>2
    <3>3. CASE \E q \in Players : performing[q] = i.at
      <4>1. PICK q \in Players : performing[q] = i.at
        BY <3>3
      <4>2. q # p
        BY <1>1, <3>1, <4>1, NoTileIsNoTile
      <4>3. performing'[q] = i.at
        BY <1>1, <2>0, <4>1, <4>2
      <4> QED  BY <4>3
    <3> QED  BY <2>1, <3>2, <3>3 DEF Mirrors, RitesMirrored
  <2>2. CASE i = [at |-> at, level |-> v, players |-> S]
    <3>1. performing'[p] = at
      BY <1>1, <1>2, <2>0
    <3> QED  BY <2>2, <3>1
  <2> QED  BY <1>4, <2>1, <2>2
<1>6. Alive' = Alive /\ \A q \in Alive : Steady(q)
  BY <1>1, SettledKeepsAlive DEF Steady
<1>7. TilesMirrored(w)' /\ EggsMirrored(w)' /\ TimeMirrored(w)' /\ PlayersMirrored(w)'
  BY <1>1, <1>4, <1>6, TilesStill, EggsStill, TimeStill, PlayersStill DEF Mirrors
<1>8. Mirrors(w)'
  BY <1>4, <1>5, <1>7 DEF Mirrors
<1> QED  BY <1>3, <1>4, <1>8, WorksOne DEF Announces

(***************************************************************************)
(* Where a ritual is shown it is under way, or was and is not any more: so *)
(* it stays when players stop performing, if the tiles they leave behind   *)
(* are strays.                                                             *)
(***************************************************************************)
LEMMA RitesAbandoned ==
  ASSUME GameInv, NEW m, NEW w, m \in GameState, RitesMirrored(m), SameRites(m, w),
         NEW S, Abandon(S)
  PROVE  RitesMirrored(w)'
<1> SUFFICES ASSUME NEW i \in w.incantations
             PROVE  i.at \in strays' \/ \E q \in Players : performing'[q] = i.at
  BY DEF RitesMirrored
<1>1. i \in m.incantations /\ i.at \in Tile
  <2>1. i \in m.incantations /\ m.incantations \in Rites
    BY DEF SameRites, GameState
  <2> QED  BY <2>1 DEF Rites
<1>2. CASE i.at \in strays
  BY <1>2 DEF Abandon
<1>3. ASSUME NEW q \in Players, performing[q] = i.at
      PROVE  i.at \in strays' \/ performing'[q] = i.at
  <2>1. CASE q \in S
    BY <1>1, <1>3, <2>1, NoTileIsNoTile DEF Abandon, Stray
  <2>2. CASE q \notin S
    BY <1>3, <2>2 DEF Abandon
  <2> QED  BY <2>1, <2>2
<1> QED  BY <1>1, <1>2, <1>3 DEF RitesMirrored

LEMMA ParadeFinite ==
  ASSUME GameInv, NEW S, S \subseteq Alive
  PROVE  IsFiniteSet(S)
<1>1. S \in SUBSET hatched
  BY AliveHatched DEF GameInv
<1> QED  BY <1>1, FS_Subset DEF GameInv, NewbornsAlike

LEMMA PeersAlive ==
  ASSUME GameInv, NEW p \in Players
  PROVE  Peers(p) \subseteq Alive
<1>1. /\ pos[p] \in Tile /\ on \in [Tile -> SUBSET Players]
      /\ \A t \in Tile : \A q \in on[t] : pos[q] = t
  BY DEF GameInv, WorldInv, WorldTypeOK, MapConsistent
<1> QED  BY <1>1 DEF Peers, Alive, InPlay

(* A ritual that is not to be: its end is announced, and nothing else. *)
LEMMA RitesEnded ==
  ASSUME GameInv, NEW m, NEW w, m \in GameState, RitesMirrored(m),
         NEW p \in Players, EndsRitual(p),
         \A i : i \in w.incantations <=> i \in m.incantations /\ i.at # pos[p]
  PROVE  RitesMirrored(w)'
<1>1. /\ performing' = [performing EXCEPT ![p] = NoTile]
      /\ strays' = (strays \cup Stray({p})) \ {pos[p]}
  BY DEF EndsRitual
<1> SUFFICES ASSUME NEW i \in w.incantations
             PROVE  i.at \in strays' \/ \E q \in Players : performing'[q] = i.at
  BY DEF RitesMirrored
<1>2. i \in m.incantations /\ i.at # pos[p] /\ i.at \in Tile
  <2>1. i \in m.incantations /\ i.at # pos[p] /\ m.incantations \in Rites
    BY DEF GameState
  <2> QED  BY <2>1 DEF Rites
<1>3. CASE i.at \in strays
  BY <1>1, <1>2, <1>3
<1>4. ASSUME NEW q \in Players, performing[q] = i.at
      PROVE  i.at \in strays' \/ performing'[q] = i.at
  <2>0. performing \in [Players -> Tile \cup {NoTile}]
    BY DEF GameInv, GuiTypeOK
  <2>1. CASE q = p
    BY <1>1, <1>2, <1>4, <2>1, NoTileIsNoTile DEF Stray
  <2>2. CASE q # p
    BY <1>1, <1>4, <2>0, <2>2
  <2> QED  BY <2>1, <2>2
<1> QED  BY <1>2, <1>3, <1>4 DEF RitesMirrored

LEMMA FailsAnnounced ==
  ASSUME GameInv, GameInv', connected, NEW m, Mirrors(m), NEW p \in Players, EndsRitual(p),
         ~canElevate(p)
  PROVE  Announces(m)
<1>1. PICK l, w : l = pie(pos[p], FALSE) /\ w = handleLine(m, l) /\ wire' = wire \o <<l>>
  BY DEF EndsRitual, finishLines, broadcastGUI
<1>2. /\ Knows(m, l) /\ w \in GameState
      /\ \A i : i \in w.incantations <=> i \in m.incantations /\ i.at # pos[p]
      /\ SameTiles(m, w) /\ SamePlayers(m, w) /\ SameEggs(m, w) /\ SameTime(m, w)
  <2>1. PICK at : at = pos[p] /\ l.cmd = "pie" /\ l.at = at
    BY <1>1 DEF pie
  <2>2. m \in GameState
    BY DEF Mirrors
  <2>3. /\ Knows(m, l) /\ w \in GameState
        /\ \A i : i \in w.incantations <=> i \in m.incantations /\ i.at # at
        /\ SameTiles(m, w) /\ SamePlayers(m, w) /\ SameEggs(m, w) /\ SameTime(m, w)
    BY <1>1, <2>1, <2>2, OnPie
  <2> QED  BY <2>1, <2>3
<1>3. UNCHANGED <<team, lvl, inv, pos, dir, on, eggs, freq, quit, said, unseen>>
  <2>1. UNCHANGED <<team, inv, pos, dir, on, eggs, freq, quit, said, unseen>>
    BY DEF EndsRitual, Finish, finishElevation, endElevation, placeVars, eggVars
  <2>2. lvl' = [q \in Players |-> lvl[q]]
    BY DEF EndsRitual, Finish, finishElevation, endElevation
  <2> QED  BY <2>1, <2>2 DEF GameInv, WorldInv, WorldTypeOK
<1>4. Alive' = Alive /\ \A q \in Alive : Steady(q)
  BY <1>3, SettledKeepsAlive DEF Steady
<1>5. RitesMirrored(w)'
  BY <1>2, RitesEnded DEF Mirrors
<1>6. TilesMirrored(w)' /\ EggsMirrored(w)' /\ TimeMirrored(w)' /\ PlayersMirrored(w)'
  BY <1>2, <1>3, <1>4, TilesStill, EggsStill, TimeStill, PlayersStill DEF Mirrors
<1>7. Mirrors(w)'
  BY <1>2, <1>5, <1>6 DEF Mirrors
<1> QED  BY <1>1, <1>2, <1>7, WorksOne DEF Announces

(* What is said of a ritual that succeeds: the members of S, who took part *)
(* in it on the tile at, have risen to level v.                            *)
Rising(p, S, at, v, q, s, n, risen) ==
  /\ S \subseteq Alive /\ at \in Tile /\ v \in 1 .. MaxLevel
  /\ at = pos[p] /\ q \in [Resource -> Nat] /\ q = stones'[at]
  /\ n \in Nat /\ n = Len(s) /\ DOMAIN s = 1 .. n /\ Enumerates(s, S)
  /\ risen = [k \in 1 .. n |-> plv(s[k], v)]
  /\ wire' = wire \o (risen \o <<pie(at, TRUE), bct(at, q)>>)
  /\ \A x \in Players : lvl'[x] = IF x \in S THEN v ELSE lvl[x]

LEMMA SucceedsSay ==
  ASSUME GameInv, GameInv', connected, NEW p \in Players, EndsRitual(p), canElevate(p)
  PROVE  \E S, at, v, q, s, n, risen : Rising(p, S, at, v, q, s, n, risen)
<1>1. PICK S, at, v, q :
        /\ S = Peers(p) /\ at = pos[p] /\ v = lvl[p] + 1 /\ q = stones'[at]
        /\ S \subseteq Alive /\ IsFiniteSet(S) /\ at \in Tile
        /\ v \in 1 .. MaxLevel /\ q \in [Resource -> Nat]
  <2>1. Peers(p) \subseteq Alive /\ IsFiniteSet(Peers(p))
    BY PeersAlive, ParadeFinite
  <2>2. pos[p] \in Tile /\ lvl[p] + 1 \in 1 .. MaxLevel
    BY WorldAssumption DEF canElevate, GameInv, WorldInv, WorldTypeOK
  <2>3. stones'[pos[p]] \in [Resource -> Nat]
    BY <2>2 DEF GameInv, WorldInv, WorldTypeOK
  <2> QED  BY <2>1, <2>2, <2>3
<1>2. \A x \in Players : lvl'[x] = IF x \in S THEN v ELSE lvl[x]
  BY <1>1 DEF EndsRitual, Finish, finishElevation, endElevation
<1>3. PICK risen \in Lines(Peers(p), LAMBDA x : plv(x, lvl'[x])) :
        wire' = wire \o (risen \o <<pie(pos[p], TRUE), tileQuantities(pos[p])'>>)
  BY DEF EndsRitual, finishLines, broadcastGUI
<1>4. PICK s \in SetToSeqs(S) : risen = [k \in DOMAIN s |-> plv(s[k], lvl'[s[k]])]
  BY <1>1, <1>3 DEF Lines
<1>5. Enumerates(s, S)
  BY <1>1, <1>4, SeqsEnumerate
<1>6. PICK n \in Nat : n = Len(s) /\ DOMAIN s = 1 .. n
  BY <1>5 DEF Enumerates
<1>7. risen = [k \in 1 .. n |-> plv(s[k], v)]
  <2>1. \A k \in 1 .. n : s[k] \in S /\ s[k] \in Players
    BY <1>1, <1>5, <1>6 DEF Enumerates, Alive
  <2>2. \A k \in 1 .. n : lvl'[s[k]] = v
    BY <1>2, <2>1
  <2> QED  BY <1>4, <1>6, <2>2
<1>8. tileQuantities(pos[p])' = bct(at, q)
  <2>1. pos' = pos
    BY DEF EndsRitual, Finish, finishElevation, endElevation, placeVars
  <2> QED  BY <1>1, <2>1 DEF tileQuantities
<1>9. wire' = wire \o (risen \o <<pie(at, TRUE), bct(at, q)>>)
  BY <1>1, <1>3, <1>8
<1>10. Rising(p, S, at, v, q, s, n, risen)
  BY <1>1, <1>2, <1>5, <1>6, <1>7, <1>9 DEF Rising
<1> QED  BY <1>10

LEMMA SucceedsAnnounced ==
  ASSUME GameInv, GameInv', connected, NEW m, Mirrors(m), NEW p \in Players, EndsRitual(p),
         canElevate(p)
  PROVE  Announces(m)
<1>00. PICK S, at, v, q, s, n, risen : Rising(p, S, at, v, q, s, n, risen)
  BY SucceedsSay
<1>0. /\ S \subseteq Alive /\ at \in Tile /\ v \in 1 .. MaxLevel
      /\ at = pos[p] /\ q \in [Resource -> Nat] /\ q = stones'[at]
      /\ n \in Nat /\ n = Len(s) /\ DOMAIN s = 1 .. n /\ Enumerates(s, S)
      /\ risen = [k \in 1 .. n |-> plv(s[k], v)]
      /\ wire' = wire \o (risen \o <<pie(at, TRUE), bct(at, q)>>)
      /\ \A x \in Players : lvl'[x] = IF x \in S THEN v ELSE lvl[x]
  BY <1>00 DEF Rising
<1>1. UNCHANGED <<team, inv, pos, dir, on, eggs, freq, quit, said, unseen>>
  BY DEF EndsRitual, Finish, finishElevation, endElevation, placeVars, eggVars
<1>2. \A x \in Players : lvl'[x] = IF x \in S THEN v ELSE lvl[x]
  BY <1>0
<1>8. PICK t \in GameState :
        /\ Works(m, risen, t) /\ Raised(S, v, m.players, t.players)
        /\ SameTiles(m, t) /\ SameEggs(m, t) /\ SameRites(m, t) /\ SameTime(m, t)
  <2>1. S \subseteq DOMAIN m.players /\ m \in GameState
    BY <1>0 DEF Mirrors, PlayersMirrored
  <2>2. n = Len(s) /\ v \in 1 .. MaxLevel
    BY <1>0
  <2> QED  BY <1>0, <2>1, <2>2, EachRisen
<1>9. PICK a, b, u, w : /\ a = pie(at, TRUE) /\ b = bct(at, q)
                        /\ u = handleLine(t, a) /\ w = handleLine(u, b)
                        /\ wire' = wire \o (risen \o <<a, b>>)
  BY <1>0
<1>10. /\ Knows(t, a) /\ u \in GameState
       /\ \A i : i \in u.incantations <=> i \in t.incantations /\ i.at # at
       /\ SameTiles(t, u) /\ SamePlayers(t, u) /\ SameEggs(t, u) /\ SameTime(t, u)
  <2>1. a.cmd = "pie" /\ a.at = at
    BY <1>9 DEF pie
  <2> QED  BY <1>9, <2>1, OnPie
<1>11. /\ Knows(u, b) /\ w \in GameState /\ DOMAIN w.tiles = DOMAIN u.tiles
       /\ SamePlayers(u, w) /\ SameEggs(u, w) /\ SameRites(u, w) /\ SameTime(u, w)
  <2>1. at \in DOMAIN u.tiles
    BY <1>0, <1>8, <1>10 DEF Mirrors, TilesMirrored, SameTiles
  <2>2. q \in [Resource -> Nat] /\ u \in GameState
    BY <1>0, <1>10
  <2>3. b = bct(at, q) /\ w = handleLine(u, b)
    BY <1>9
  <2> QED  BY <2>1, <2>2, <2>3, OnBct
<1>12. Works(m, risen \o <<a, b>>, w)
  BY <1>8, <1>9, <1>10, <1>11, WorksTwo, WorksOn
<1>13. TilesMirrored(w)'
  BY <1>8, <1>10, <1>11 DEF Mirrors, TilesMirrored, SameTiles
<1>14. SameEggs(m, w) /\ SameTime(m, w)
  BY <1>8, <1>10, <1>11 DEF SameEggs, SameTime
<1>15. EggsMirrored(w)' /\ TimeMirrored(w)'
  BY <1>1, <1>14, EggsStill, TimeStill DEF Mirrors
<1>16. RitesMirrored(w)'
  <2>1. \A i : i \in w.incantations <=> i \in m.incantations /\ i.at # pos[p]
    BY <1>0, <1>8, <1>10, <1>11 DEF SameRites
  <2> QED  BY <2>1, RitesEnded DEF Mirrors
<1>17. PlayersMirrored(w)'
  <2>1. Alive' = Alive
    BY <1>1, SettledKeepsAlive
  <2>2. w.players = t.players
    BY <1>10, <1>11 DEF SamePlayers
  <2>3. ASSUME NEW x \in Alive PROVE AsItIs(x, w.players[x])'
    <3>1. x \in DOMAIN m.players /\ AsItIs(x, m.players[x]) /\ x \in Players
      BY <2>3 DEF Mirrors, PlayersMirrored, Alive
    <3>2. CASE x \in S
      <4>1. PICK was \in Shown : was = m.players[x]
        BY <3>1, PlayerIsShown DEF Mirrors
      <4>2. PICK shown : shown = w.players[x] /\ shown = [was EXCEPT !.level = v]
        BY <1>8, <2>2, <3>1, <3>2, <4>1 DEF Raised
      <4>3. /\ shown.at = was.at /\ shown.orientation = was.orientation
            /\ shown.team = was.team /\ shown.level = v
            /\ shown.inventory = was.inventory
            /\ shown.broadcastVersion = was.broadcastVersion
        BY <4>1, <4>2 DEF Shown
      <4>4. lvl'[x] = v
        BY <1>2, <3>1, <3>2
      <4> QED  BY <1>1, <3>1, <4>1, <4>2, <4>3, <4>4 DEF AsItIs
    <3>3. CASE x \notin S
      <4>1. Steady(x)
        BY <1>1, <1>2, <3>1, <3>3 DEF Steady
      <4>2. w.players[x] = m.players[x]
        BY <1>8, <2>2, <3>1, <3>3 DEF Raised
      <4> QED  BY <3>1, <4>1, <4>2, SteadyStays
    <3> QED  BY <3>2, <3>3
  <2>4. Alive' \subseteq DOMAIN w.players /\ DOMAIN w.players \subseteq Alive' \cup quit'
    BY <1>1, <1>8, <2>1, <2>2 DEF Mirrors, PlayersMirrored, Raised
  <2> QED  BY <2>1, <2>3, <2>4 DEF PlayersMirrored
<1>18. Mirrors(w)'
  BY <1>11, <1>13, <1>15, <1>16, <1>17 DEF Mirrors
<1> QED  BY <1>9, <1>12, <1>18 DEF Announces

(* Lines that are only shown as text, one for each member of a set. *)
LEMMA EachText ==
  ASSUME NEW S, IsFiniteSet(S), NEW l, NEW s \in SetToSeqs(S), DOMAIN l = DOMAIN s,
         l = [k \in DOMAIN s |-> l[k]], \A k \in DOMAIN s : l[k].cmd = "pex",
         NEW m \in GameState
  PROVE  \E w \in GameState : Works(m, l, w) /\ Same(m, w)
<1>1. PICK n \in Nat : n = Len(s) /\ DOMAIN s = 1 .. n
  BY SeqsEnumerate DEF Enumerates
<1>2. l = [k \in 1 .. n |-> l[k]]
  BY <1>1
<1>3. ASSUME NEW k \in 1 .. n, NEW x \in GameState, NEW y, y = handleLine(x, l[k])
      PROVE  Knows(x, l[k]) /\ y \in GameState /\ Same(x, y)
  <2>1. PICK a : a = l[k] /\ a.cmd \in {"pex", "pfk", "pdr", "pgt", "sbp"}
    BY <1>1
  <2> QED  BY <1>3, <2>1, OnText
<1> QED  BY <1>2, <1>3, EachSame

(* Who is pushed is said, and which eggs are lost. *)
LEMMA PushesSay ==
  ASSUME GameInv, connected, NEW p \in Players, Pushes(p)
  PROVE  \E M, E, s, lost, pushed, l :
           /\ M = TileMates(p) /\ M \subseteq Alive /\ IsFiniteSet(M)
           /\ s \in SetToSeqs(M) /\ pushed = [k \in DOMAIN s |-> pex(s[k])]
           /\ E = {e.id : e \in eggs \ eggs'} /\ IsFiniteSet(E)
           /\ E \subseteq EggIds /\ EggIds' = EggIds \ E
           /\ lost = SetToSeq(E) /\ l = [k \in DOMAIN lost |-> edi(lost[k])]
           /\ wire' = wire \o (pushed \o l)
<1>1. /\ UNCHANGED <<team, lvl, inv, freq, performing, strays, quit, said>>
      /\ moveTrantorian(TileMates(p), [q \in Players |-> dir[p]])
      /\ eggs' = {e \in eggs : e.tile # pos[p]}
  BY DEF Pushes, Eject, eject, ritualVars, stoneVars, Quiet
<1>2. PICK M : M = TileMates(p) /\ M \subseteq Alive /\ IsFiniteSet(M)
  <2>1. TileMates(p) \subseteq Alive
    BY DEF TileMates, Alive, InPlay, GameInv, WorldInv, WorldTypeOK, MapConsistent
  <2> QED  BY <2>1, ParadeFinite
<1>3. PICK E : /\ E = {e.id : e \in eggs \ eggs'} /\ IsFiniteSet(E)
               /\ E \subseteq EggIds /\ EggIds' = EggIds \ E
  <2>1. PICK E : E = {e.id : e \in eggs \ eggs'}
    OBVIOUS
  <2>2. \A e \in eggs : e.id \in 0 .. nextEgg - 1
    BY DEF GameInv, EggsApart, WorldInv, WorldTypeOK, Egg
  <2>3. IsFiniteSet(0 .. nextEgg - 1)
    <3>1. nextEgg - 1 \in Int
      BY DEF GameInv, WorldInv, WorldTypeOK
    <3> QED  BY <3>1, FS_Interval
  <2>4. E \in SUBSET (0 .. nextEgg - 1)
    BY <2>1, <2>2
  <2>5. IsFiniteSet(E)
    BY <2>3, <2>4, FS_Subset
  <2>6. \A e, f \in eggs : e.id = f.id => e = f
    BY DEF GameInv, EggsApart
  <2>7. eggs' \subseteq eggs
    BY <1>1
  <2> QED  BY <2>1, <2>5, <2>6, <2>7 DEF EggIds
<1>4. PICK pushed, lost, l :
        /\ pushed \in Lines(M, pex)
        /\ lost = SetToSeq(E) /\ l = [k \in DOMAIN lost |-> edi(lost[k])]
        /\ wire' = wire \o (pushed \o l)
  BY <1>2, <1>3 DEF Pushes, ejectFanout, broadcastGUI
<1>5. PICK s \in SetToSeqs(M) : pushed = [k \in DOMAIN s |-> pex(s[k])]
  BY <1>4 DEF Lines
<1> WITNESS M, E, s, lost, pushed, l
<1> QED  BY <1>2, <1>3, <1>4, <1>5

LEMMA PushesAnnounced ==
  ASSUME GameInv, GameInv', connected, NEW m, Mirrors(m), NEW p \in Players, Pushes(p)
  PROVE  Announces(m)
<1>1. /\ UNCHANGED <<team, lvl, inv, freq, performing, strays, quit, said>>
      /\ moveTrantorian(TileMates(p), [q \in Players |-> dir[p]])
      /\ eggs' = {e \in eggs : e.tile # pos[p]}
  BY DEF Pushes, Eject, eject, ritualVars, stoneVars, Quiet
<1>2. PICK M, E, s, lost, pushed, l :
        /\ M = TileMates(p) /\ M \subseteq Alive /\ IsFiniteSet(M)
        /\ s \in SetToSeqs(M) /\ pushed = [k \in DOMAIN s |-> pex(s[k])]
        /\ E = {e.id : e \in eggs \ eggs'} /\ IsFiniteSet(E)
        /\ E \subseteq EggIds /\ EggIds' = EggIds \ E
        /\ lost = SetToSeq(E) /\ l = [k \in DOMAIN lost |-> edi(lost[k])]
        /\ wire' = wire \o (pushed \o l)
  BY PushesSay
<1>3. /\ unseen \subseteq unseen'
      /\ \A q \in M : At(q) \in unseen' /\ Facing(q) \in unseen'
  BY <1>2 DEF Pushes, Conceals
<1>4. Alive' = Alive
  BY ActKeepsAlive DEF Pushes, GameInv
<1>7. PICK u \in GameState : Works(m, pushed, u) /\ Same(m, u)
  <2>2. /\ DOMAIN pushed = DOMAIN s /\ pushed = [k \in DOMAIN s |-> pushed[k]]
        /\ \A k \in DOMAIN s : pushed[k].cmd = "pex"
    BY <1>2 DEF pex
  <2>3. m \in GameState
    BY DEF Mirrors
  <2> QED  BY <1>2, <2>2, <2>3, EachText
<1>8. PICK w \in GameState :
        /\ Works(u, l, w) /\ Removed(E, u.eggs, w.eggs)
        /\ SameTiles(u, w) /\ SamePlayers(u, w) /\ SameRites(u, w) /\ SameTime(u, w)
  <2>1. Enumerates(lost, E)
    BY <1>2, SeqEnumerates
  <2>2. PICK n \in Nat : n = Len(lost) /\ DOMAIN lost = 1 .. n
    BY <2>1 DEF Enumerates
  <2>3. l = [k \in 1 .. n |-> l[k]] /\ \A k \in 1 .. n : l[k] = edi(lost[k])
    BY <1>2, <2>2
  <2>4. E \subseteq DOMAIN u.eggs
    BY <1>2, <1>7 DEF Mirrors, EggsMirrored, Same, SameEggs
  <2> QED  BY <2>1, <2>2, <2>3, <2>4, EachEggLost, ZenonT(40)
<1>9. Works(m, pushed \o l, w)
  BY <1>7, <1>8, WorksOn
<1>10. /\ SameTiles(m, w) /\ SamePlayers(m, w) /\ SameRites(m, w) /\ SameTime(m, w)
       /\ DOMAIN w.eggs = DOMAIN m.eggs \ E
  BY <1>7, <1>8
  DEF Same, SameTiles, SamePlayers, SameEggs, SameRites, SameTime, Removed
<1>11. EggsMirrored(w)'
  BY <1>2, <1>10 DEF Mirrors, EggsMirrored
<1>12. TilesMirrored(w)' /\ TimeMirrored(w)' /\ RitesMirrored(w)'
  BY <1>1, <1>3, <1>10, TilesStill, TimeStill, RitesStill DEF Mirrors
<1>13. PlayersMirrored(w)'
  <2>1. ASSUME NEW q \in Alive PROVE AsItIs(q, w.players[q])'
    <3>1. AsItIs(q, m.players[q]) /\ w.players[q] = m.players[q] /\ q \in Players
      BY <1>10 DEF Mirrors, PlayersMirrored, SamePlayers, Alive
    <3>2. Inventory(q) \in unseen => Inventory(q) \in unseen'
      BY <1>3
    <3>3. CASE q \in M
      <4>1. At(q) \in unseen' /\ Facing(q) \in unseen'
        BY <1>3, <3>3
      <4> QED  BY <1>1, <3>1, <3>2, <4>1 DEF AsItIs, At, Facing, Inventory
    <3>4. CASE q \notin M
      <4>1. pos'[q] = pos[q] /\ dir'[q] = dir[q]
        BY <1>1, <1>2, <3>1, <3>4 DEF moveTrantorian
      <4>2. Steady(q)
        BY <1>1, <1>3, <4>1 DEF Steady
      <4> QED  BY <3>1, <4>2, SteadyStays
    <3> QED  BY <3>3, <3>4
  <2>2. Alive' \subseteq DOMAIN w.players /\ DOMAIN w.players \subseteq Alive' \cup quit'
    BY <1>1, <1>4, <1>10 DEF Mirrors, PlayersMirrored, SamePlayers
  <2> QED  BY <1>4, <2>1, <2>2 DEF PlayersMirrored
<1>14. Mirrors(w)'
  BY <1>11, <1>12, <1>13 DEF Mirrors
<1> QED  BY <1>2, <1>9, <1>14 DEF Announces

(* Who dies is off the map, and that is said. *)
LEMMA LivesSay ==
  ASSUME GameInv, connected, Lives
  PROVE  \E dead, s, lines :
           /\ dead \subseteq Alive /\ Alive' = Alive \ dead /\ Abandon(dead)
           /\ Enumerates(s, dead) /\ lines = [k \in DOMAIN s |-> pdi(s[k])]
           /\ wire' = wire \o lines
           /\ UNCHANGED <<team, stones, lvl, inv, pos, dir, eggs, freq, quit, said, unseen>>
<1>1. PICK dead : dead = {p \in Players : life[p] > 0 /\ life'[p] = 0}
  OBVIOUS
<1>2. PICK lines \in Lines(dead, pdi) : wire' = wire \o lines
  BY <1>1 DEF Lives, broadcastGUI
<1>3. Abandon(dead)
  BY <1>1 DEF Lives
<1>4. PICK due \in SUBSET Alive : checkLives(due)
  BY DEF Lives, Age, Alive
<1>5. UNCHANGED <<team, stones, lvl, inv, pos, dir, eggs, freq, quit, said, unseen>>
  BY <1>4 DEF Lives, checkLives, ritualVars, stoneVars, eggVars
<1>6. dead \subseteq Alive /\ Alive' = Alive \ dead
  <2>1. /\ \A p \in Players : p \notin due => life'[p] = life[p]
        /\ \A t \in Tile : on'[t] = {p \in on[t] : life'[p] # 0}
    BY <1>4 DEF checkLives, checkLife
  <2>2. pos \in [Players -> Tile] /\ life \in [Players -> 0 .. InitLife]
    BY DEF GameInv, WorldInv, WorldTypeOK
  <2>3. \A p \in Alive : p \in Players /\ life[p] > 0
    BY <2>2 DEF Alive, InPlay, GameInv, WorldInv, MapConsistent
  <2>4. dead \subseteq due
    BY <1>1, <2>1
  <2>5. \A p \in Players : p \in Alive' <=> p \in Alive /\ life'[p] # 0
    BY <1>5, <2>1, <2>2 DEF Alive, InPlay
  <2>6. Alive' \subseteq Players
    BY DEF Alive
  <2> QED  BY <1>1, <2>3, <2>4, <2>5, <2>6
<1>7. PICK s \in SetToSeqs(dead) : lines = [k \in DOMAIN s |-> pdi(s[k])]
  BY <1>2 DEF Lines
<1>8. Enumerates(s, dead)
  BY <1>6, <1>7, ParadeFinite, SeqsEnumerate
<1> QED  BY <1>2, <1>3, <1>5, <1>6, <1>7, <1>8

LEMMA LivesAnnounced ==
  ASSUME GameInv, GameInv', connected, NEW m, Mirrors(m), Lives
  PROVE  Announces(m)
<1>1. PICK dead, s, lines :
        /\ dead \subseteq Alive /\ Alive' = Alive \ dead /\ Abandon(dead)
        /\ Enumerates(s, dead) /\ lines = [k \in DOMAIN s |-> pdi(s[k])]
        /\ wire' = wire \o lines
        /\ UNCHANGED <<team, stones, lvl, inv, pos, dir, eggs, freq, quit, said, unseen>>
  BY LivesSay
<1>9. PICK w \in GameState :
        /\ Works(m, lines, w) /\ Removed(dead, m.players, w.players)
        /\ SameTiles(m, w) /\ SameEggs(m, w) /\ SameRites(m, w) /\ SameTime(m, w)
  <2>1. PICK n \in Nat : n = Len(s) /\ DOMAIN s = 1 .. n
    BY <1>1 DEF Enumerates
  <2>2. lines = [k \in 1 .. n |-> lines[k]] /\ \A k \in 1 .. n : lines[k] = pdi(s[k])
    BY <1>1, <2>1
  <2>3. dead \subseteq DOMAIN m.players /\ m \in GameState
    BY <1>1 DEF Mirrors, PlayersMirrored
  <2> QED  BY <1>1, <2>1, <2>2, <2>3, EachDead
<1>10. PlayersMirrored(w)'
  <2>1. ASSUME NEW p \in Alive' PROVE AsItIs(p, w.players[p])'
    <3>1. p \in Alive /\ p \in DOMAIN w.players
      BY <1>1, <1>9, <2>1 DEF Mirrors, PlayersMirrored, Removed
    <3>2. Steady(p)
      BY <1>1 DEF Steady
    <3> QED  BY <1>9, <3>1, <3>2, SteadyStays DEF Mirrors, PlayersMirrored, Removed
  <2>2. Alive' \subseteq DOMAIN w.players /\ DOMAIN w.players \subseteq Alive' \cup quit'
    BY <1>1, <1>9 DEF Mirrors, PlayersMirrored, Removed
  <2> QED  BY <2>1, <2>2 DEF PlayersMirrored
<1>11. RitesMirrored(w)'
  BY <1>1, <1>9, RitesAbandoned DEF Mirrors
<1>12. TilesMirrored(w)' /\ EggsMirrored(w)' /\ TimeMirrored(w)'
  BY <1>1, <1>9, TilesStill, EggsStill, TimeStill DEF Mirrors
<1>13. Mirrors(w)'
  BY <1>10, <1>11, <1>12 DEF Mirrors
<1> QED  BY <1>1, <1>9, <1>13 DEF Announces

LEMMA LeavesAlive ==
  ASSUME GameInv, NEW p \in Players, HangsUp(p)
  PROVE  p \in Alive /\ Alive' = Alive \ {p}
<1>1. on' = [on EXCEPT ![pos[p]] = @ \ {p}] /\ pos' = pos /\ p \in Alive
  BY DEF HangsUp, Leave, leaveMap, Alive
<1>2. /\ pos \in [Players -> Tile] /\ on \in [Tile -> SUBSET Players]
      /\ \A t \in Tile : \A q \in on[t] : pos[q] = t
  BY DEF GameInv, WorldInv, WorldTypeOK, MapConsistent
<1>3. \A q \in Players : q \in on'[pos[q]] <=> q \in on[pos[q]] /\ q # p
  BY <1>1, <1>2
<1> QED  BY <1>1, <1>3 DEF Alive, InPlay

(* Of a player that hangs up nothing is said: it stays on the screen. *)
LEMMA HangsUpUnannounced ==
  ASSUME GameInv, GameInv', connected, NEW m, Mirrors(m), NEW p \in Players, HangsUp(p)
  PROVE  Mirrors(m)'
<1>1. /\ UNCHANGED <<team, lvl, inv, pos, dir, eggs, freq, said, unseen>>
      /\ on' = [on EXCEPT ![pos[p]] = @ \ {p}]
      /\ Abandon({p}) /\ quit' = quit \cup {p} /\ p \in Alive
  BY DEF HangsUp, Leave, leaveMap, Alive, ritualVars, stoneVars, eggVars
<1>2. Alive' = Alive \ {p}
  BY LeavesAlive
<1>3. SameTiles(m, m) /\ SameEggs(m, m) /\ SameRites(m, m) /\ SameTime(m, m)
  BY DEF SameTiles, SameEggs, SameRites, SameTime
<1>4. TilesMirrored(m)' /\ EggsMirrored(m)' /\ TimeMirrored(m)'
  BY <1>1, <1>3, TilesStill, EggsStill, TimeStill DEF Mirrors
<1>5. RitesMirrored(m)'
  BY <1>1, <1>3, RitesAbandoned DEF Mirrors
<1>6. PlayersMirrored(m)'
  <2>1. ASSUME NEW q \in Alive' PROVE AsItIs(q, m.players[q])'
    <3>1. q \in Alive /\ Steady(q)
      BY <1>1, <1>2, <2>1 DEF Steady
    <3> QED  BY <3>1, SteadyStays DEF Mirrors, PlayersMirrored
  <2>2. Alive' \subseteq DOMAIN m.players /\ DOMAIN m.players \subseteq Alive' \cup quit'
    BY <1>1, <1>2 DEF Mirrors, PlayersMirrored
  <2> QED  BY <2>1, <2>2 DEF PlayersMirrored
<1> QED  BY <1>4, <1>5, <1>6 DEF Mirrors

-----------------------------------------------------------------------------
(* The answers to what the client asks. *)
LEMMA Retold ==
  ASSUME NEW m, Mirrors(m), NEW w \in GameState, DOMAIN w.tiles = Tile,
         SamePlayers(m, w), SameEggs(m, w), SameRites(m, w), SameTime(m, w),
         UNCHANGED <<worldVars, freq, performing, strays, quit, said>>, unseen' = unseen
  PROVE  Mirrors(w)'
<1>1. UNCHANGED <<team, lvl, inv, pos, dir, on, eggs>>
  BY DEF worldVars, placeVars, ritualVars, stoneVars, eggVars
<1>2. Alive' = Alive /\ \A q \in Alive : Steady(q)
  BY <1>1, SettledKeepsAlive DEF Steady
<1>3. TilesMirrored(w)'
  BY DEF TilesMirrored
<1>4. EggsMirrored(w)' /\ TimeMirrored(w)' /\ RitesMirrored(w)' /\ PlayersMirrored(w)'
  BY <1>1, <1>2, EggsStill, TimeStill, RitesStill, PlayersStill DEF Mirrors
<1> QED  BY <1>3, <1>4 DEF Mirrors

LEMMA TimeTold ==
  ASSUME GameInv, NEW m, Mirrors(m), NEW f \in Nat, NEW l, l = sgt(f) \/ l = sst(f),
         wire' = wire \o <<l>>, freq' = f, Informs({TimeUnit}),
         UNCHANGED <<worldVars, performing, strays, quit, said>>
  PROVE  Announces(m)
<1>1. PICK w : w = handleLine(m, l)
  OBVIOUS
<1>2. /\ Knows(m, l) /\ w \in GameState /\ w.timeUnit = f
      /\ SameTiles(m, w) /\ SamePlayers(m, w) /\ SameEggs(m, w) /\ SameRites(m, w)
  BY <1>1, OnTime DEF Mirrors
<1>3. UNCHANGED <<team, lvl, inv, pos, dir, on, eggs>>
  BY DEF worldVars, placeVars, ritualVars, stoneVars, eggVars
<1>4. Alive' = Alive /\ \A q \in Alive : Steady(q)
  <2>1. \A q : /\ At(q) \in unseen => At(q) \in unseen'
               /\ Facing(q) \in unseen => Facing(q) \in unseen'
               /\ Inventory(q) \in unseen => Inventory(q) \in unseen'
    BY DEF Informs, At, Facing, Inventory, TimeUnit
  <2> QED  BY <1>3, <2>1, SettledKeepsAlive DEF Steady
<1>5. TimeMirrored(w)'
  BY <1>2 DEF TimeMirrored
<1>6. TilesMirrored(w)' /\ EggsMirrored(w)' /\ RitesMirrored(w)' /\ PlayersMirrored(w)'
  BY <1>2, <1>3, <1>4, TilesStill, EggsStill, RitesStill, PlayersStill DEF Mirrors
<1>7. Mirrors(w)'
  BY <1>2, <1>5, <1>6 DEF Mirrors
<1> QED  BY <1>1, <1>2, <1>7, WorksOne DEF Announces

(* The time unit is set by another client: this one does not know. *)
LEMMA TimeConcealed ==
  ASSUME NEW m, Mirrors(m), TimeUnit \in unseen', unseen \subseteq unseen',
         UNCHANGED <<worldVars, performing, strays, quit, said>>
  PROVE  Mirrors(m)'
<1>1. UNCHANGED <<team, lvl, inv, pos, dir, on, eggs>>
  BY DEF worldVars, placeVars, ritualVars, stoneVars, eggVars
<1>2. Alive' = Alive /\ \A q \in Alive : Steady(q)
  BY <1>1, SettledKeepsAlive DEF Steady
<1>3. SameTiles(m, m) /\ SameEggs(m, m) /\ SameRites(m, m) /\ SamePlayers(m, m)
  BY DEF SameTiles, SameEggs, SameRites, SamePlayers
<1>4. TimeMirrored(m)'
  BY DEF TimeMirrored
<1>5. TilesMirrored(m)' /\ EggsMirrored(m)' /\ RitesMirrored(m)' /\ PlayersMirrored(m)'
  BY <1>1, <1>2, <1>3, TilesStill, EggsStill, RitesStill, PlayersStill DEF Mirrors
<1> QED  BY <1>4, <1>5 DEF Mirrors

(* What is asked about a player, of whom one part is then shown as it is. *)
LEMMA PlayerTold ==
  ASSUME GameInv, NEW m, Mirrors(m), NEW p \in Alive, NEW l, NEW w, NEW shown,
         Knows(m, l), w = handleLine(m, l), ShownAs(m, w, p, shown), AsItIs(p, shown)',
         wire' = wire \o <<l>>, UNCHANGED <<worldVars, freq, performing, strays, quit, said>>,
         \/ unseen' = unseen
         \/ unseen' = unseen \ {At(p), Facing(p)}
         \/ unseen' = unseen \ {At(p), Inventory(p)}
  PROVE  Announces(m)
<1>1. UNCHANGED <<team, lvl, inv, pos, dir, on, eggs>>
  BY DEF worldVars, placeVars, ritualVars, stoneVars, eggVars
<1>2. Alive' = Alive \cup {p}
  BY <1>1, SettledKeepsAlive
<1>3. ASSUME NEW q \in Alive, q # p PROVE Steady(q)
  <2>1. {At(q), Facing(q), Inventory(q)} \cap {At(p), Facing(p), Inventory(p)} = {}
    BY <1>3 DEF At, Facing, Inventory
  <2> QED  BY <1>1, <2>1 DEF Steady
<1>4. TimeUnit \in unseen => TimeUnit \in unseen'
  BY DEF TimeUnit, At, Facing, Inventory
<1>5. TilesMirrored(w)' /\ EggsMirrored(w)' /\ TimeMirrored(w)' /\ RitesMirrored(w)'
  BY <1>1, <1>4, TilesStill, EggsStill, TimeStill, RitesStill DEF Mirrors, ShownAs
<1>6. PlayersMirrored(w)'
  BY <1>2, <1>3, PlayersBut DEF Mirrors
<1>7. Mirrors(w)'
  BY <1>5, <1>6 DEF Mirrors, ShownAs
<1> QED  BY <1>7, WorksOne DEF Announces

LEMMA TeamsSaid ==
  ASSUME NEW s \in sendTeams, NEW m \in GameState
  PROVE  \E w \in GameState : Works(m, s, w) /\ Same(m, w)
<1>1. PICK names \in SetToSeqs(Teams) : s = [k \in DOMAIN names |-> tna(names[k])]
  BY DEF sendTeams, Lines
<1>2. Enumerates(names, Teams)
  BY <1>1, WorldAssumption, SeqsEnumerate
<1>3. PICK n \in Nat : n = Len(names) /\ DOMAIN names = 1 .. n
  BY <1>2 DEF Enumerates
<1>4. s = [k \in 1 .. n |-> s[k]] /\ \A k \in 1 .. n : s[k] = tna(names[k])
  BY <1>1, <1>3
<1>5. ASSUME NEW k \in 1 .. n, NEW x \in GameState, NEW y, y = handleLine(x, s[k])
      PROVE  Knows(x, s[k]) /\ y \in GameState /\ Same(x, y)
  <2>1. PICK t, l : t \in Teams /\ t = names[k] /\ l = s[k] /\ l = tna(t)
    BY <1>2, <1>3, <1>4 DEF Enumerates
  <2> QED  BY <1>5, <2>1, OnTna
<1> QED  BY <1>4, <1>5, EachSame

LEMMA WorldAnswered ==
  ASSUME GameInv, connected, NEW m, Mirrors(m), AskWorld
  PROVE  Announces(m)
<1>0. m \in GameState /\ DOMAIN m.tiles = Tile /\ stones \in [Tile -> [Resource -> Nat]]
  BY DEF Mirrors, TilesMirrored, GameInv, WorldInv, WorldTypeOK
<1>1. ASSUME NEW s, NEW w \in GameState, Reply(s), Informs({}), Works(m, s, w),
             DOMAIN w.tiles = Tile,
             SamePlayers(m, w), SameEggs(m, w), SameRites(m, w), SameTime(m, w)
      PROVE  Announces(m)
  <2>1. unseen' = unseen /\ wire' = wire \o s
    BY <1>1 DEF Informs, Reply
  <2>2. Mirrors(w)'
    BY <1>1, <2>1, Retold DEF Reply
  <2> QED  BY <1>1, <2>1, <2>2 DEF Announces
<1>2. ASSUME NEW s, NEW w \in GameState, Reply(s), Informs({}), Works(m, s, w), Same(m, w)
      PROVE  Announces(m)
  <2>1. DOMAIN w.tiles = Tile
    BY <1>0, <1>2 DEF Same, SameTiles
  <2> QED  BY <1>1, <1>2, <2>1 DEF Same
<1>3. ASSUME NEW s \in sendTeams, Reply(s), Informs({}) PROVE Announces(m)
  <2>1. PICK w \in GameState : Works(m, s, w) /\ Same(m, w)
    BY <1>0, TeamsSaid
  <2> QED  BY <1>2, <1>3, <2>1
<1>4. ASSUME Reply(mapTiles), Informs({}) PROVE Announces(m)
  <2>1. PICK s : s = mapTiles
    OBVIOUS
  <2>2. PICK w \in GameState :
          /\ Works(m, s, w) /\ DOMAIN w.tiles = Tile
          /\ SamePlayers(m, w) /\ SameEggs(m, w) /\ SameRites(m, w) /\ SameTime(m, w)
    BY <1>0, <2>1, TilesSaid
  <2>3. Reply(s)
    BY <1>4, <2>1
  <2> QED  BY <1>1, <1>4, <2>2, <2>3
<1>5. ASSUME Reply(<<sbp>>), Informs({}) PROVE Announces(m)
  <2>1. PICK l, w : l = sbp /\ w = handleLine(m, l)
    OBVIOUS
  <2>2. l.cmd \in {"pex", "pfk", "pdr", "pgt", "sbp"}
    BY <2>1 DEF sbp
  <2>3. Knows(m, l) /\ w \in GameState /\ Same(m, w)
    BY <1>0, <2>1, <2>2, OnText
  <2>4. PICK s : s = <<l>> /\ Reply(s) /\ Works(m, s, w)
    BY <1>5, <2>1, <2>3, WorksOne
  <2> QED  BY <1>2, <1>5, <2>3, <2>4
<1>6. ASSUME NEW t \in Tile, Reply(<<tileQuantities(t)>>), Informs({}) PROVE Announces(m)
  <2>1. PICK q \in [Resource -> Nat] : q = stones[t]
    BY <1>0
  <2>2. PICK l, w : l = bct(t, q) /\ w = handleLine(m, l)
    OBVIOUS
  <2>3. /\ Knows(m, l) /\ w \in GameState /\ DOMAIN w.tiles = Tile
        /\ SamePlayers(m, w) /\ SameEggs(m, w) /\ SameRites(m, w) /\ SameTime(m, w)
    BY <1>0, <2>2, OnBct
  <2>4. PICK s : s = <<l>> /\ Reply(s) /\ Works(m, s, w)
    BY <1>6, <2>1, <2>2, <2>3, WorksOne DEF tileQuantities
  <2> QED  BY <1>1, <1>6, <2>3, <2>4
<1>7. ASSUME Reply(<<sgt(freq)>>), Informs({TimeUnit}) PROVE Announces(m)
  <2>1. PICK f, l : f \in Nat /\ f = freq /\ l = sgt(f)
    BY GuiAssumption DEF GameInv, GuiTypeOK
  <2>2. wire' = wire \o <<l>> /\ freq' = f
    BY <1>7, <2>1 DEF Reply
  <2>3. UNCHANGED <<worldVars, performing, strays, quit, said>>
    BY <1>7 DEF Reply
  <2> QED  BY <1>7, <2>1, <2>2, <2>3, TimeTold
<1> QED  BY <1>3, <1>4, <1>5, <1>6, <1>7 DEF AskWorld

LEMMA PlayerAnswered ==
  ASSUME GameInv, connected, NEW m, Mirrors(m), NEW p \in Players, handleGUIPlayerQuery(p)
  PROVE  Announces(m)
<1>1. /\ p \in Alive
      /\ UNCHANGED <<worldVars, freq, performing, strays, quit, said>>
      /\ UNCHANGED <<team, lvl, inv, pos, dir>>
  BY DEF handleGUIPlayerQuery, clientByPlayerId, Alive, Reply, worldVars, placeVars,
         ritualVars, stoneVars
<1>2. p \in DOMAIN m.players /\ m \in GameState /\ AsItIs(p, m.players[p])
  BY <1>1 DEF Mirrors, PlayersMirrored
<1>3. PICK was \in Shown : was = m.players[p]
  BY <1>2, PlayerIsShown
<1>4. PICK at \in Tile, o \in 1 .. 4, v \in 1 .. MaxLevel, q \in [Resource -> Nat] :
        at = pos[p] /\ o = Orientation(dir[p]) /\ v = lvl[p] /\ q = inv[p]
  BY OrientationRange DEF GameInv, WorldInv, WorldTypeOK
<1>5. CASE Reply(<<ppo(p, pos[p], Orientation(dir[p]))>>) /\ Informs({At(p), Facing(p)})
  <2>1. PICK l, w, shown :
          /\ l = ppo(p, at, o) /\ w = handleLine(m, l)
          /\ shown = [m.players[p] EXCEPT !.at = at, !.orientation = o]
    OBVIOUS
  <2>2. Knows(m, l) /\ ShownAs(m, w, p, shown)
    BY <1>2, <2>1, OnPpo
  <2>3. /\ shown.at = at /\ shown.orientation = o /\ shown.team = was.team
        /\ shown.level = was.level /\ shown.inventory = was.inventory
        /\ shown.broadcastVersion = was.broadcastVersion
    BY <1>3, <2>1 DEF Shown
  <2>4. unseen' = unseen \ {At(p), Facing(p)} /\ wire' = wire \o <<l>>
    BY <1>4, <1>5, <2>1 DEF Reply, Informs
  <2>5. AsItIs(p, shown)'
    <3>1. Inventory(p) \in unseen => Inventory(p) \in unseen'
      BY <2>4 DEF At, Facing, Inventory
    <3> QED  BY <1>1, <1>2, <1>3, <1>4, <2>3, <3>1 DEF AsItIs, Inventory
  <2> QED  BY <1>1, <2>1, <2>2, <2>4, <2>5, PlayerTold
<1>6. CASE Reply(<<plv(p, lvl[p])>>) /\ Informs({})
  <2>1. PICK l, w, shown :
          /\ l = plv(p, v) /\ w = handleLine(m, l)
          /\ shown = [m.players[p] EXCEPT !.level = v]
    OBVIOUS
  <2>2. Knows(m, l) /\ ShownAs(m, w, p, shown)
    BY <1>2, <2>1, OnPlv
  <2>3. /\ shown.at = was.at /\ shown.orientation = was.orientation
        /\ shown.team = was.team /\ shown.level = v /\ shown.inventory = was.inventory
        /\ shown.broadcastVersion = was.broadcastVersion
    BY <1>3, <2>1 DEF Shown
  <2>4. unseen' = unseen /\ wire' = wire \o <<l>>
    BY <1>4, <1>6, <2>1 DEF Reply, Informs
  <2>5. AsItIs(p, shown)'
    BY <1>1, <1>2, <1>3, <1>4, <2>3, <2>4 DEF AsItIs, At, Facing, Inventory
  <2> QED  BY <1>1, <2>1, <2>2, <2>4, <2>5, PlayerTold
<1>7. CASE Reply(<<playerQuantities(p)>>) /\ Informs({At(p), Inventory(p)})
  <2>1. PICK l, w, shown :
          /\ l = pin(p, at, q) /\ w = handleLine(m, l)
          /\ shown = [m.players[p] EXCEPT !.at = at, !.inventory = q]
    OBVIOUS
  <2>2. Knows(m, l) /\ ShownAs(m, w, p, shown)
    BY <1>2, <2>1, OnPin
  <2>3. /\ shown.at = at /\ shown.orientation = was.orientation /\ shown.team = was.team
        /\ shown.level = was.level /\ shown.inventory = q
        /\ shown.broadcastVersion = was.broadcastVersion
    BY <1>3, <2>1 DEF Shown
  <2>4. unseen' = unseen \ {At(p), Inventory(p)} /\ wire' = wire \o <<l>>
    BY <1>4, <1>7, <2>1 DEF Reply, Informs, playerQuantities
  <2>5. AsItIs(p, shown)'
    <3>1. Facing(p) \in unseen => Facing(p) \in unseen'
      BY <2>4 DEF At, Facing, Inventory
    <3> QED  BY <1>1, <1>2, <1>3, <1>4, <2>3, <3>1 DEF AsItIs, Facing
  <2> QED  BY <1>1, <2>1, <2>2, <2>4, <2>5, PlayerTold
<1> QED  BY <1>5, <1>6, <1>7 DEF handleGUIPlayerQuery

-----------------------------------------------------------------------------
(* The greeting. *)
EggsSaid(l, s, n) ==
  l = [k \in 1 .. n |-> l[k]] /\ \A k \in 1 .. n : l[k] = enw(s[k].id, Nobody, s[k].tile)

LEMMA EachEgg ==
  ASSUME NEW s, Enumerates(s, eggs), eggs \subseteq Egg, NEW n, n = Len(s),
         NEW l, EggsSaid(l, s, n),
         NEW m \in GameState, DOMAIN m.eggs = {}, DOMAIN m.tiles = Tile
  PROVE  \E w \in GameState :
           /\ Works(m, l, w) /\ DOMAIN w.eggs = EggIds
           /\ SameTiles(m, w) /\ SamePlayers(m, w) /\ SameRites(m, w) /\ SameTime(m, w)
<1> DEFINE Good(x, k) == /\ SameTiles(m, x) /\ SamePlayers(m, x) /\ SameRites(m, x)
                         /\ SameTime(m, x)
                         /\ DOMAIN x.eggs = {e.id : e \in Upto(s, k)}
           G == [k \in 0 .. n |-> {x \in GameState : Good(x, k)}]
<1>0. n \in Nat /\ \A k \in 0 .. n : \A x : x \in G[k] <=> x \in GameState /\ Good(x, k)
  BY DEF Enumerates
<1>1. m \in G[0]
  <2>1. Good(m, 0)
    BY UptoEnds DEF SameTiles, SamePlayers, SameRites, SameTime
  <2> HIDE DEF G, Good
  <2> QED  BY <1>0, <2>1
<1>2. ASSUME NEW k \in 1 .. n, NEW x \in G[k - 1]
      PROVE  Knows(x, l[k]) /\ handleLine(x, l[k]) \in G[k]
  <2>1. x \in GameState /\ Good(x, k - 1)
    <3> HIDE DEF G, Good
    <3> QED  BY <1>0
  <2>2. PICK e : e = s[k]
    OBVIOUS
  <2>3. Upto(s, k) = Upto(s, k - 1) \cup {e} /\ e \in eggs
    BY <2>2, UptoNext
  <2>4. PICK id, at, by :
          /\ id = e.id /\ at = e.tile /\ by = Nobody
          /\ id \in Nat /\ at \in Tile /\ by \in Players \cup {Nobody}
    BY <2>3 DEF Egg
  <2>5. PICK a, y : a = l[k] /\ a = enw(id, by, at) /\ y = handleLine(x, a)
    BY <2>2, <2>4 DEF EggsSaid
  <2>6. at \in DOMAIN x.tiles
    BY <2>1, <2>4 DEF SameTiles
  <2>7. /\ Knows(x, a) /\ y \in GameState /\ DOMAIN y.eggs = DOMAIN x.eggs \cup {id}
        /\ SameTiles(x, y) /\ SamePlayers(x, y) /\ SameRites(x, y) /\ SameTime(x, y)
    <3>1. x \in GameState /\ by \in Players \cup {Nobody} /\ id \in Nat /\ at \in Tile
      BY <2>1, <2>4
    <3>2. a = enw(id, by, at) /\ y = handleLine(x, a)
      BY <2>5
    <3> HIDE DEF G, Good
    <3> QED  BY <2>6, <3>1, <3>2, OnEnw
  <2>8. {f.id : f \in Upto(s, k)} = {f.id : f \in Upto(s, k - 1)} \cup {id}
    BY <2>3, <2>4
  <2>9. Good(y, k)
    BY <2>1, <2>7, <2>8 DEF SameTiles, SamePlayers, SameRites, SameTime
  <2> HIDE DEF G, Good
  <2> QED  BY <1>0, <2>5, <2>7, <2>9
<1>3. \E w \in G[n] : Works(m, l, w)
  <2>1. n \in Nat /\ l = [k \in 1 .. n |-> l[k]]
    BY <1>0 DEF EggsSaid
  <2> HIDE DEF G
  <2> QED  BY <1>1, <1>2, <2>1, WorksEach
<1>4. PICK w \in GameState : Works(m, l, w) /\ Good(w, n)
  <2> HIDE DEF G, Good
  <2> QED  BY <1>0, <1>3
<1>5. Upto(s, n) = eggs
  BY UptoEnds
<1> QED  BY <1>4, <1>5 DEF EggIds

LEMMA NothingShown ==
  /\ NewGameState \in GameState
  /\ DOMAIN NewGameState.tiles = {} /\ DOMAIN NewGameState.players = {}
  /\ DOMAIN NewGameState.eggs = {} /\ NewGameState.incantations = {}
<1>1. \A A, B : <<>> \in Partial(A, B)
  <2> SUFFICES ASSUME NEW A, NEW B PROVE <<>> \in Partial(A, B)
    OBVIOUS
  <2>1. <<>> \in [{} -> B] /\ {} \in SUBSET A
    OBVIOUS
  <2> QED  BY <2>1 DEF Partial
<1>2. <<>> \in Ground /\ <<>> \in Roster /\ <<>> \in Nest /\ {} \in Rites
  BY <1>1 DEF Ground, Roster, Nest, Rites
<1>3. DOMAIN <<>> = {}
  OBVIOUS
<1> QED  BY <1>2, <1>3 DEF NewGameState, GameState

(* The size of the map, the time unit, the teams and the tiles. *)
LEMMA GroundGreeted ==
  ASSUME GameInv, NEW teams \in sendTeams,
         NEW s, s = <<msz(Width, Height), sgt(freq)>> \o teams \o mapTiles
  PROVE  \E w \in GameState :
           /\ Works(NewGameState, s, w)
           /\ DOMAIN w.tiles = Tile /\ w.timeUnit = freq
           /\ DOMAIN w.players = {} /\ DOMAIN w.eggs = {} /\ w.incantations = {}
<1>1. PICK z \in GameState :
        /\ z = NewGameState
        /\ DOMAIN z.players = {} /\ DOMAIN z.eggs = {} /\ z.incantations = {}
  BY NothingShown
<1>2. PICK f, a, b, u, v :
        /\ f \in Nat /\ f = freq /\ a = msz(Width, Height) /\ b = sgt(f)
        /\ u = handleLine(z, a) /\ v = handleLine(u, b)
  BY GuiAssumption DEF GameInv, GuiTypeOK
<1>3. /\ Knows(z, a) /\ u \in GameState /\ DOMAIN u.tiles = Tile
      /\ SamePlayers(z, u) /\ SameEggs(z, u) /\ SameRites(z, u) /\ SameTime(z, u)
  BY <1>1, <1>2, OnMsz
<1>4. /\ Knows(u, b) /\ v \in GameState /\ v.timeUnit = f
      /\ SameTiles(u, v) /\ SamePlayers(u, v) /\ SameEggs(u, v) /\ SameRites(u, v)
  BY <1>2, <1>3, OnTime
<1>5. Works(z, <<a, b>>, v)
  BY <1>2, <1>3, <1>4, WorksTwo
<1>6. PICK x \in GameState : Works(v, teams, x) /\ Same(v, x)
  BY <1>4, TeamsSaid
<1>7. PICK tiles : tiles = mapTiles
  OBVIOUS
<1>8. PICK w \in GameState :
        /\ Works(x, tiles, w) /\ DOMAIN w.tiles = Tile
        /\ SamePlayers(x, w) /\ SameEggs(x, w) /\ SameRites(x, w) /\ SameTime(x, w)
  <2>1. DOMAIN x.tiles = Tile
    BY <1>3, <1>4, <1>6 DEF Same, SameTiles
  <2>2. stones \in [Tile -> [Resource -> Nat]]
    BY DEF GameInv, WorldInv, WorldTypeOK
  <2> QED  BY <1>6, <1>7, <2>1, <2>2, TilesSaid
<1>9. Works(z, <<a, b>> \o teams \o tiles, w)
  BY <1>5, <1>6, <1>8, WorksOn
<1>10. /\ w.timeUnit = f /\ DOMAIN w.players = {} /\ DOMAIN w.eggs = {}
      /\ w.incantations = {}
  BY <1>1, <1>3, <1>4, <1>6, <1>8
  DEF Same, SamePlayers, SameEggs, SameRites, SameTime
<1> QED  BY <1>1, <1>2, <1>7, <1>8, <1>9, <1>10

LEMMA EveryoneGreeted ==
  ASSUME GameInv, Connect, view = NewGameState
  PROVE  \E w : Works(view', wire', w) /\ Mirrors(w)'
<1>1. PICK teams \in sendTeams, players \in sendPlayers :
        wire' = <<msz(Width, Height), sgt(freq)>> \o teams \o mapTiles
                  \o players \o sendEggs
  BY DEF Connect, sendInitialState
<1>2. /\ UNCHANGED <<team, lvl, inv, pos, dir, on, eggs, freq, performing, strays, quit>>
      /\ view' = NewGameState /\ \A p \in Players : said'[p] = 0
  BY DEF Connect, worldVars, placeVars, ritualVars, stoneVars, eggVars
<1>3. PICK first : first = <<msz(Width, Height), sgt(freq)>> \o teams \o mapTiles
  OBVIOUS
<1>10. PICK x \in GameState :
        /\ Works(NewGameState, first, x) /\ DOMAIN x.tiles = Tile /\ x.timeUnit = freq
        /\ DOMAIN x.players = {} /\ DOMAIN x.eggs = {} /\ x.incantations = {}
  BY <1>1, <1>3, GroundGreeted
<1>4. PICK S : S = Alive /\ S \in SUBSET Players /\ IsFiniteSet(S)
  <2>1. Alive \subseteq Alive /\ Alive \in SUBSET Players
    BY DEF Alive
  <2> QED  BY <2>1, ParadeFinite
<1>5. PICK s \in SetToSeqs(S) : players = [k \in DOMAIN s |-> playerInfo(s[k])]
  BY <1>1, <1>4 DEF sendPlayers, Lines, Alive
<1>6. PICK y \in GameState :
        /\ Works(x, players, y) /\ Introduced(S, y.players)
        /\ SameTiles(x, y) /\ SameEggs(x, y) /\ SameRites(x, y) /\ SameTime(x, y)
  <2>1. Enumerates(s, S)
    BY <1>4, SeqsEnumerate
  <2>2. PICK n : n = Len(s) /\ DOMAIN s = 1 .. n
    BY <2>1 DEF Enumerates
  <2>3. players = [k \in 1 .. n |-> playerInfo(s[k])]
    BY <1>5, <2>2
  <2>4. S \subseteq hatched
    BY <1>4, AliveHatched DEF GameInv
  <2>5. \A p \in S : /\ pos[p] \in Tile /\ dir[p] \in Direction
                     /\ lvl[p] \in 1 .. MaxLevel /\ team[p] \in Teams
    BY <1>4, <2>4 DEF GameInv, WorldInv, WorldTypeOK
  <2> QED  BY <1>10, <1>4, <2>1, <2>2, <2>3, <2>5, EachGreeted
<1>11. PICK l : l = sendEggs
  OBVIOUS
<1>7. PICK w \in GameState :
        /\ Works(y, l, w) /\ DOMAIN w.eggs = EggIds
        /\ SameTiles(y, w) /\ SamePlayers(y, w) /\ SameRites(y, w) /\ SameTime(y, w)
  <2>1. PICK all : all = SetToSeq(eggs)
    OBVIOUS
  <2>2. eggs \subseteq Egg /\ IsFiniteSet(eggs)
    BY DEF GameInv, WorldInv, WorldTypeOK
  <2>3. Enumerates(all, eggs)
    BY <2>1, <2>2, SeqEnumerates
  <2>4. PICK n : n = Len(all) /\ DOMAIN all = 1 .. n
    BY <2>3 DEF Enumerates
  <2>5. EggsSaid(l, all, n)
    <3>1. sendEggs = [k \in DOMAIN all |-> enw(all[k].id, Nobody, all[k].tile)]
      BY <2>1, Zenon DEF sendEggs
    <3> QED  BY <1>11, <2>4, <3>1 DEF EggsSaid
  <2>6. DOMAIN y.eggs = {} /\ DOMAIN y.tiles = Tile
    BY <1>10, <1>6 DEF SameEggs, SameTiles
  <2> QED  BY <2>2, <2>3, <2>4, <2>5, <2>6, EachEgg
<1>8. Works(view', wire', w)
  <2>1. wire' = first \o players \o l
    BY <1>1, <1>3, <1>11
  <2> QED  BY <1>2, <1>10, <1>6, <1>7, <2>1, WorksOn
<1>9. Mirrors(w)'
  <2>1. TilesMirrored(w)' /\ EggsMirrored(w)' /\ TimeMirrored(w)' /\ RitesMirrored(w)'
    BY <1>2, <1>10, <1>6, <1>7
    DEF TilesMirrored, EggsMirrored, EggIds, TimeMirrored, RitesMirrored, SameTiles,
        SameEggs, SameTime, SameRites
  <2>2. Alive' = S /\ DOMAIN w.players = S
    BY <1>2, <1>4, <1>6, <1>7, SettledKeepsAlive DEF SamePlayers, Introduced
  <2>3. ASSUME NEW p \in S PROVE AsItIs(p, w.players[p])'
    <3>1. Inventory(p) \notin unseen' => inv[p] = NoStones
      BY <1>4 DEF Connect, Alive
    <3>2. PICK shown :
            /\ shown = w.players[p]
            /\ shown = [at |-> pos[p], orientation |-> Orientation(dir[p]), level |-> lvl[p],
                        team |-> team[p], inventory |-> NoStones, broadcastVersion |-> 0]
      BY <1>6, <1>7 DEF SamePlayers, FirstShown, Introduced
    <3>3. p \in Players
      BY <1>4
    <3> QED  BY <1>2, <3>1, <3>2, <3>3 DEF AsItIs
  <2>4. PlayersMirrored(w)'
    BY <2>2, <2>3 DEF PlayersMirrored
  <2> QED  BY <1>7, <2>1, <2>4 DEF Mirrors
<1> QED  BY <1>8, <1>9

-----------------------------------------------------------------------------
(* The invariant holds at first, and every step keeps it. *)
LEMMA GuiInvInit == GuiInit => GuiInv
<1> SUFFICES ASSUME GuiInit PROVE GuiInv
  OBVIOUS
<1>1. WorldInit /\ WorldInv
  BY WorldInvInit DEF GuiInit
<1>2. GuiTypeOK
  BY GuiAssumption DEF GuiInit, GuiTypeOK
<1>3. EggsApart
  <2>1. PICK owner \in [0 .. nextEgg - 1 -> Teams], at \in [0 .. nextEgg - 1 -> Tile] :
          eggs = {[id |-> i, team |-> owner[i], tile |-> at[i]] : i \in 0 .. nextEgg - 1}
    BY <1>1 DEF WorldInit, spawnEggs
  <2>2. nextEgg \in Nat
    BY <1>1 DEF WorldInv, WorldTypeOK
  <2>3. \A e \in eggs :
          e.id \in 0 .. nextEgg - 1 /\ e = [id |-> e.id, team |-> owner[e.id], tile |-> at[e.id]]
    BY <2>1
  <2>4. \A e \in eggs : e.id < nextEgg
    BY <2>2, <2>3
  <2>5. ASSUME NEW e \in eggs, NEW f \in eggs, e.id = f.id PROVE e = f
    <3>1. PICK i : i = e.id /\ i = f.id
      BY <2>5
    <3>2. e = [id |-> i, team |-> owner[i], tile |-> at[i]]
      BY <2>3, <3>1
    <3>3. f = [id |-> i, team |-> owner[i], tile |-> at[i]]
      BY <2>3, <3>1
    <3> QED  BY <3>2, <3>3
  <2> QED  BY <2>4, <2>5 DEF EggsApart
<1>4. NewbornsAlike
  <2>1. hatched = {} /\ \A p \in Players : inv[p] = NoStones /\ said[p] = 0
    BY <1>1 DEF GuiInit, WorldInit, newTrantorian, NoStones
  <2> QED  BY <2>1, FS_EmptySet DEF NewbornsAlike
<1>5. StreamInv
  BY DEF GuiInit, StreamInv
<1> QED  BY <1>1, <1>2, <1>3, <1>4, <1>5 DEF GuiInv, GameInv

LEMMA GuiTypeStep == GameInv /\ [GuiNext]_guiVars => GuiTypeOK'
<1> SUFFICES ASSUME GameInv, [GuiNext]_guiVars PROVE GuiTypeOK'
  OBVIOUS
<1>0. /\ connected \in BOOLEAN /\ freq \in Frequency
      /\ performing \in [Players -> Tile \cup {NoTile}]
      /\ strays \subseteq Tile /\ quit \subseteq Players /\ said \in [Players -> Nat]
      /\ pos \in [Players -> Tile]
  BY DEF GameInv, GuiTypeOK, WorldInv, WorldTypeOK
<1> DEFINE Idle == UNCHANGED <<connected, freq, performing, strays, quit, said>>
<1>1. Idle => GuiTypeOK'
  BY <1>0 DEF GuiTypeOK
<1>2. ASSUME NEW p \in Players,
             Joins(p) \/ Moves(p) \/ Takes(p) \/ Drops(p) \/ Lays(p) \/ Pushes(p)
      PROVE  Idle
  BY <1>2 DEF Joins, Moves, Takes, Drops, emitStones, Lays, Pushes, Quiet
<1>3. ASSUME NEW p \in Players, Speaks(p) PROVE GuiTypeOK'
  <2>1. said' \in [Players -> Nat]
    BY <1>0, <1>3 DEF Speaks
  <2> QED  BY <1>0, <1>3, <2>1 DEF Speaks, GuiTypeOK
<1>4. ASSUME NEW p \in Players, StartsRitual(p) PROVE GuiTypeOK'
  <2>1. performing' \in [Players -> Tile \cup {NoTile}]
    BY <1>0, <1>4 DEF StartsRitual
  <2> QED  BY <1>0, <1>4, <2>1 DEF StartsRitual, GuiTypeOK, historyVars
<1>5. ASSUME NEW S \in SUBSET Players, Abandon(S)
      PROVE  performing' \in [Players -> Tile \cup {NoTile}] /\ strays' \subseteq Tile
  <2>1. Stray(S) \subseteq Tile
    BY <1>0 DEF Stray
  <2> QED  BY <1>0, <1>5, <2>1 DEF Abandon
<1>6. ASSUME NEW p \in Players, EndsRitual(p) PROVE GuiTypeOK'
  <2>1. performing' \in [Players -> Tile \cup {NoTile}] /\ strays' \subseteq Tile
    BY <1>0, <1>6 DEF EndsRitual, Stray
  <2> QED  BY <1>0, <1>6, <2>1 DEF EndsRitual, GuiTypeOK
<1>7. ASSUME NEW p \in Players, HangsUp(p) PROVE GuiTypeOK'
  BY <1>0, <1>5, <1>7 DEF HangsUp, GuiTypeOK, streamVars
<1>8. ASSUME Lives PROVE GuiTypeOK'
  BY <1>0, <1>5, <1>8 DEF Lives, GuiTypeOK
<1>9. ASSUME Regrows PROVE Idle
  BY <1>9 DEF Regrows, Quiet
<1>10. ASSUME GUICommand PROVE GuiTypeOK'
  <2>1. CASE AskWorld \/ \E p \in Players : handleGUIPlayerQuery(p)
    BY <1>1, <2>1 DEF AskWorld, handleGUIPlayerQuery, Reply
  <2>2. CASE guiSetTimeUnit
    BY <1>0, <2>2 DEF guiSetTimeUnit, GuiTypeOK
  <2> QED  BY <1>10, <2>1, <2>2 DEF GUICommand
<1>11. ASSUME Connect PROVE GuiTypeOK'
  BY <1>0, <1>11 DEF Connect, GuiTypeOK
<1>12. ASSUME Deliver \/ UNCHANGED guiVars PROVE Idle
  BY <1>12 DEF Deliver, guiVars, streamVars, historyVars
<1> QED
  BY <1>1, <1>2, <1>3, <1>4, <1>6, <1>7, <1>8, <1>9, <1>10, <1>11, <1>12
  DEF GuiNext, GameStep

(* Eggs come with the next id, and otherwise only go. *)
LEMMA EggsApartStep == GameInv /\ [WorldNext]_worldVars => EggsApart'
<1> SUFFICES ASSUME GameInv, [WorldNext]_worldVars PROVE EggsApart'
  OBVIOUS
<1>0. nextEgg \in Nat /\ \A e \in eggs : e.id \in Nat
  BY DEF GameInv, WorldInv, WorldTypeOK, Egg
<1>1. ASSUME eggs' \subseteq eggs, nextEgg' = nextEgg PROVE EggsApart'
  BY <1>1 DEF GameInv, EggsApart
<1>2. ASSUME NEW p \in Players, fork(p) PROVE EggsApart'
  <2>1. PICK x : /\ eggs' = eggs \cup {x} /\ nextEgg' = nextEgg + 1 /\ x.id = nextEgg
    <3>1. PICK x : x = [id |-> nextEgg, team |-> team[p], tile |-> pos[p]]
      OBVIOUS
    <3> QED  BY <1>2, <3>1 DEF fork, layEgg
  <2> QED  BY <1>0, <2>1 DEF GameInv, EggsApart
<1>3. ASSUME NEW p \in Players, Hatch(p) PROVE eggs' \subseteq eggs /\ nextEgg' = nextEgg
  BY <1>3 DEF Hatch, hatchEgg
<1>4. ASSUME NEW p \in Players,
             \/ Step(p) \/ Turn(p) \/ Take(p) \/ Drop(p) \/ Start(p) \/ Finish(p) \/ Leave(p)
      PROVE  eggs' \subseteq eggs /\ nextEgg' = nextEgg
  BY <1>4 DEF Step, forward, Turn, left, right, turn, Take, take, Drop, set, Start,
              startElevation, Finish, finishElevation, endElevation, Leave, leaveMap, eggVars
<1>5. ASSUME NEW p \in Players, Eject(p) PROVE eggs' \subseteq eggs /\ nextEgg' = nextEgg
  BY <1>5 DEF Eject, eject
<1>6. ASSUME Age \/ Respawn \/ UNCHANGED worldVars
      PROVE  eggs' \subseteq eggs /\ nextEgg' = nextEgg
  BY <1>6 DEF Age, checkLives, Respawn, generateResources, worldVars, eggVars
<1> QED  BY <1>1, <1>2, <1>3, <1>4, <1>5, <1>6 DEF WorldNext, Fork

LEMMA HatchedGrows ==
  ASSUME [WorldNext]_worldVars
  PROVE  hatched' = hatched \/ \E p \in Players : hatched' = hatched \cup {p}
<1>1. ASSUME NEW p \in Players, Hatch(p)
      PROVE  hatched' = hatched \cup {p}
  BY <1>1 DEF Hatch, hatchEgg
<1>2. ASSUME NEW p \in Players,
             \/ Step(p) \/ Turn(p) \/ Eject(p) \/ Take(p) \/ Drop(p) \/ Fork(p)
             \/ Start(p) \/ Finish(p) \/ Leave(p)
      PROVE  hatched' = hatched
  BY <1>2 DEF Step, forward, Turn, left, right, turn, Eject, eject, Take, take, Drop, set,
              Fork, fork, layEgg, Start, startElevation, Finish, finishElevation,
              endElevation, Leave, leaveMap
<1>3. ASSUME Age \/ Respawn \/ UNCHANGED worldVars PROVE hatched' = hatched
  BY <1>3 DEF Age, checkLives, Respawn, generateResources, worldVars
<1> QED  BY <1>1, <1>2, <1>3 DEF WorldNext

(* Whoever has not hatched gets nothing and says nothing. *)
LEMMA NewbornsStep == GameInv /\ [GuiNext]_guiVars => NewbornsAlike'
<1> SUFFICES ASSUME GameInv, [GuiNext]_guiVars PROVE NewbornsAlike'
  OBVIOUS
<1>0. /\ [WorldNext]_worldVars
      /\ inv \in [Players -> [Resource -> Nat]] /\ said \in [Players -> Nat]
  BY GuiStepsWorld DEF GameInv, WorldInv, WorldTypeOK, GuiTypeOK
<1>1. hatched' = hatched \/ \E p \in Players : hatched' = hatched \cup {p}
  BY <1>0, HatchedGrows
<1>2. IsFiniteSet(hatched') /\ hatched \subseteq hatched'
  BY <1>1, FS_AddElement DEF GameInv, NewbornsAlike
<1>3. ASSUME NEW p \in Players, p \notin hatched PROVE inv'[p] = inv[p]
  <2>1. p \notin Alive
    BY <1>3, AliveHatched DEF GameInv
  <2>2. ASSUME NEW q \in Alive, NEW r \in Resource, take(q, r) \/ set(q, r)
        PROVE  inv'[p] = inv[p]
    <3>1. q # p
      BY <2>1
    <3>2. CASE take(q, r)
      BY <1>0, <1>3, <3>1, <3>2 DEF take
    <3>3. CASE set(q, r)
      BY <1>0, <1>3, <3>1, <3>3 DEF set
    <3> QED  BY <2>2, <3>2, <3>3
  <2>3. ASSUME NEW q \in Players, Take(q) \/ Drop(q) PROVE inv'[p] = inv[p]
    BY <2>2, <2>3 DEF Take, Drop, Alive
  <2>4. ASSUME NEW q \in Players,
               \/ Hatch(q) \/ Step(q) \/ Turn(q) \/ Eject(q) \/ Fork(q)
               \/ Start(q) \/ Finish(q) \/ Leave(q)
        PROVE  inv' = inv
    BY <2>4 DEF Hatch, hatchEgg, Step, forward, Turn, left, right, turn, Eject, eject,
                Fork, fork, layEgg, Start, startElevation, Finish, finishElevation,
                endElevation, Leave, leaveMap, stoneVars
  <2>5. ASSUME Age \/ Respawn \/ UNCHANGED worldVars PROVE inv' = inv
    BY <2>5 DEF Age, checkLives, Respawn, generateResources, worldVars, stoneVars
  <2> QED  BY <1>0, <2>3, <2>4, <2>5 DEF WorldNext
<1>4. ASSUME NEW p \in Players, p \notin hatched, said[p] = 0 PROVE said'[p] = 0
  <2>1. p \notin Alive
    BY <1>4, AliveHatched DEF GameInv
  <2>2. ASSUME NEW q \in Players, Speaks(q) PROVE said'[p] = 0
    <3>1. q # p
      BY <2>1, <2>2 DEF Speaks, Alive
    <3> QED  BY <1>0, <1>4, <2>2, <3>1 DEF Speaks
  <2>3. ASSUME NEW q \in Players,
               \/ Joins(q) \/ Moves(q) \/ Takes(q) \/ Drops(q) \/ Lays(q) \/ Pushes(q)
               \/ StartsRitual(q) \/ EndsRitual(q) \/ HangsUp(q)
        PROVE  said' = said
    BY <2>3 DEF Joins, Moves, Takes, Drops, emitStones, Lays, Pushes, StartsRitual,
                EndsRitual, HangsUp, Quiet, historyVars
  <2>4. ASSUME Lives \/ Regrows \/ GUICommand \/ Deliver \/ UNCHANGED guiVars
        PROVE  said' = said
    BY <2>4 DEF Lives, Regrows, GUICommand, AskWorld, handleGUIPlayerQuery, guiSetTimeUnit,
                Reply, Deliver, Quiet, guiVars, historyVars
  <2>5. ASSUME Connect PROVE said'[p] = 0
    BY <2>5 DEF Connect
  <2> QED  BY <1>4, <2>2, <2>3, <2>4, <2>5 DEF GuiNext, GameStep
<1> QED  BY <1>2, <1>3, <1>4 DEF GameInv, NewbornsAlike

LEMMA GameInvStep == GameInv /\ [GuiNext]_guiVars => GameInv'
BY GuiStepsWorld, WorldInvStep, GuiTypeStep, EggsApartStep, NewbornsStep DEF GameInv

(* A client that has been greeted: what the server adds keeps its mirror true. *)
LEMMA StreamGrows ==
  ASSUME connected, StreamInv, connected' = connected, view' = view,
         \A m : Works(view, wire, m) /\ Mirrors(m) => Announces(m)
  PROVE  StreamInv'
<1>1. PICK m : Works(view, wire, m) /\ Mirrors(m)
  BY DEF StreamInv
<1>2. PICK s, w : wire' = wire \o s /\ Works(m, s, w) /\ Mirrors(w)'
  BY <1>1 DEF Announces
<1>3. Works(view', wire', w)
  BY <1>1, <1>2, WorksOn
<1> QED  BY <1>2, <1>3 DEF StreamInv

(* What is not announced changes nothing that the mirror is to show. *)
LEMMA StreamStays ==
  ASSUME connected, StreamInv, connected' = connected, view' = view, wire' = wire,
         \A m : Mirrors(m) => Mirrors(m)'
  PROVE  StreamInv'
<1>1. PICK m : Works(view, wire, m) /\ Mirrors(m)
  BY DEF StreamInv
<1> QED  BY <1>1 DEF StreamInv

LEMMA AnsweredStep ==
  ASSUME GameInv, StreamInv, GUICommand, connected
  PROVE  StreamInv'
<1>1. CASE AskWorld
  <2>1. connected' = connected /\ view' = view
    BY <1>1 DEF AskWorld, Reply
  <2> QED  BY <1>1, <2>1, WorldAnswered, StreamGrows
<1>2. ASSUME NEW p \in Players, handleGUIPlayerQuery(p) PROVE StreamInv'
  <2>1. connected' = connected /\ view' = view
    BY <1>2 DEF handleGUIPlayerQuery, Reply
  <2> QED  BY <1>2, <2>1, PlayerAnswered, StreamGrows
<1>3. CASE guiSetTimeUnit
  <2>0. PICK f \in Frequency :
          /\ freq' = f
          /\ \/ wire' = wire \o <<sst(f)>> /\ Informs({TimeUnit})
             \/ wire' = wire /\ Conceals({TimeUnit})
          /\ UNCHANGED <<worldVars, connected, view, performing, strays, quit, said>>
    BY <1>3 DEF guiSetTimeUnit
  <2>1. CASE wire' = wire \o <<sst(f)>> /\ Informs({TimeUnit})
    <3>1. PICK n, l : n \in Nat /\ n = f /\ l = sst(n)
      BY GuiAssumption
    <3>2. wire' = wire \o <<l>> /\ freq' = n
      BY <2>0, <2>1, <3>1
    <3>3. \A m : Works(view, wire, m) /\ Mirrors(m) => Announces(m)
      BY <2>0, <2>1, <3>1, <3>2, TimeTold
    <3> QED  BY <2>0, <3>3, StreamGrows
  <2>2. CASE wire' = wire /\ Conceals({TimeUnit})
    <3>1. TimeUnit \in unseen' /\ unseen \subseteq unseen'
      BY <2>2 DEF Conceals
    <3>2. \A m : Mirrors(m) => Mirrors(m)'
      BY <2>0, <3>1, TimeConcealed
    <3> QED  BY <2>0, <2>2, <3>2, StreamStays
  <2> QED  BY <2>0, <2>1, <2>2
<1> QED  BY <1>1, <1>2, <1>3 DEF GUICommand

LEMMA AnnouncedStep ==
  ASSUME GameInv, GameInv', StreamInv, GameStep, connected
  PROVE  StreamInv'
<1>1. ASSUME NEW p \in Players,
             \/ Joins(p) \/ Moves(p) \/ Takes(p) \/ Drops(p) \/ Lays(p) \/ Pushes(p)
             \/ Speaks(p) \/ StartsRitual(p) \/ EndsRitual(p)
      PROVE  StreamInv'
  <2>1. connected' = connected /\ view' = view
    BY <1>1 DEF Joins, Moves, Takes, Drops, emitStones, Lays, Pushes, Speaks, StartsRitual,
                EndsRitual, Quiet
  <2>2. ASSUME NEW m, Mirrors(m) PROVE Announces(m)
    BY <1>1, <2>2, JoinsAnnounced, MovesAnnounced, TakesAnnounced, LaysAnnounced,
       PushesAnnounced, SpeaksAnnounced, StartsAnnounced, FailsAnnounced, SucceedsAnnounced
  <2> QED  BY <2>1, <2>2, StreamGrows
<1>2. ASSUME NEW p \in Players, HangsUp(p) PROVE StreamInv'
  <2>1. connected' = connected /\ view' = view /\ wire' = wire
    BY <1>2 DEF HangsUp, streamVars
  <2> QED  BY <1>2, <2>1, HangsUpUnannounced, StreamStays
<1>3. CASE Lives \/ Regrows
  <2>1. connected' = connected /\ view' = view
    BY <1>3 DEF Lives, Regrows, Quiet
  <2>2. ASSUME NEW m, Mirrors(m) PROVE Announces(m)
    BY <1>3, <2>2, LivesAnnounced, RegrowsAnnounced
  <2> QED  BY <2>1, <2>2, StreamGrows
<1> QED  BY <1>1, <1>2, <1>3 DEF GameStep

(* Before anyone is connected nothing is sent. *)
LEMMA SilentGame ==
  ASSUME ~connected, GameStep \/ GUICommand
  PROVE  UNCHANGED <<connected, wire, view, quit>>
<1>1. ASSUME NEW p \in Players,
             \/ Joins(p) \/ Moves(p) \/ Takes(p) \/ Drops(p) \/ Lays(p) \/ Pushes(p)
             \/ Speaks(p) \/ StartsRitual(p) \/ EndsRitual(p) \/ HangsUp(p)
      PROVE  UNCHANGED <<connected, wire, view, quit>>
  BY <1>1 DEF Joins, Moves, Takes, Drops, emitStones, Lays, Pushes, ejectFanout, Speaks,
              StartsRitual, EndsRitual, HangsUp, Quiet, broadcastGUI, streamVars, historyVars
<1>2. ASSUME Lives \/ Regrows PROVE UNCHANGED <<connected, wire, view, quit>>
  BY <1>2 DEF Lives, Regrows, Quiet, broadcastGUI
<1>3. ASSUME GUICommand PROVE UNCHANGED <<connected, wire, view, quit>>
  BY <1>3 DEF GUICommand, AskWorld, handleGUIPlayerQuery, guiSetTimeUnit, Reply
<1> QED  BY <1>1, <1>2, <1>3 DEF GameStep

LEMMA SilentStep ==
  ASSUME StreamInv, GameStep \/ GUICommand, ~connected
  PROVE  StreamInv'
BY SilentGame DEF StreamInv

LEMMA StreamStep == GuiInv /\ [GuiNext]_guiVars => StreamInv'
<1> SUFFICES ASSUME GuiInv, [GuiNext]_guiVars PROVE StreamInv'
  OBVIOUS
<1>0. GameInv /\ GameInv' /\ StreamInv
  BY GameInvStep DEF GuiInv
<1>1. CASE GameStep \/ GUICommand
  BY <1>0, <1>1, AnnouncedStep, AnsweredStep, SilentStep
<1>2. CASE Connect
  <2>1. ~connected /\ connected' /\ view = NewGameState
    BY <1>0, <1>2 DEF Connect, StreamInv
  <2>2. \E m : Works(view', wire', m) /\ Mirrors(m)'
    BY <1>0, <1>2, <2>1, EveryoneGreeted
  <2> QED  BY <2>1, <2>2 DEF StreamInv
<1>3. CASE Deliver
  <2>1. wire # <<>> /\ connected' = connected
    BY <1>3 DEF Deliver
  <2>2. PICK m : connected /\ Works(view, wire, m) /\ Mirrors(m)
    BY <1>0, <2>1 DEF StreamInv
  <2>3. Works(view', wire', m)
    BY <1>3, <2>1, <2>2, WorksTail DEF Deliver
  <2>4. Mirrors(m)'
    <3>1. UNCHANGED <<team, lvl, inv, pos, dir, on, eggs, freq, performing, historyVars>>
      BY <1>3 DEF Deliver, worldVars, placeVars, ritualVars, stoneVars, eggVars
    <3>2. UNCHANGED <<performing, strays, quit, said, unseen>>
      BY <3>1 DEF historyVars
    <3>3. Alive' = Alive /\ \A q \in Alive : Steady(q)
      BY <3>1, <3>2, SettledKeepsAlive DEF Steady
    <3>4. m \in GameState /\ Same(m, m)
      BY <2>2 DEF Mirrors, Same, SameTiles, SamePlayers, SameEggs, SameRites, SameTime
    <3> QED  BY <2>2, <3>1, <3>2, <3>3, <3>4, MirrorsStill
  <2> QED  BY <2>1, <2>2, <2>3, <2>4 DEF StreamInv
<1>4. CASE UNCHANGED guiVars
  <2>1. UNCHANGED <<connected, wire, view>>
    BY <1>4 DEF guiVars, streamVars
  <2>2. CASE connected
    <3>1. UNCHANGED <<team, lvl, inv, pos, dir, on, eggs, freq, performing, strays, quit,
                      said, unseen>>
      BY <1>4 DEF guiVars, historyVars, worldVars, placeVars, ritualVars, stoneVars, eggVars
    <3>2. Alive' = Alive /\ \A q \in Alive : Steady(q)
      BY <3>1, SettledKeepsAlive DEF Steady
    <3>3. ASSUME NEW m, Mirrors(m) PROVE Mirrors(m)'
      <4>1. m \in GameState /\ Same(m, m)
        BY <3>3 DEF Mirrors, Same, SameTiles, SamePlayers, SameEggs, SameRites, SameTime
      <4> QED  BY <3>1, <3>2, <3>3, <4>1, MirrorsStill
    <3> QED  BY <1>0, <2>1, <2>2, <3>3, StreamStays
  <2>3. CASE ~connected
    BY <1>0, <2>1, <2>3 DEF StreamInv
  <2> QED  BY <2>2, <2>3
<1> QED  BY <1>1, <1>2, <1>3, <1>4 DEF GuiNext

THEOREM GuiInvariant == GuiSpec => []GuiInv
<1>1. GuiInv /\ [GuiNext]_guiVars => GuiInv'
  BY GameInvStep, StreamStep DEF GuiInv
<1> QED  BY <1>1, GuiInvInit, PTL DEF GuiSpec

-----------------------------------------------------------------------------
(***************************************************************************)
(* The game under a graphical client's eyes is the game of World.tla.      *)
(***************************************************************************)
THEOREM GuiPlaysWorld == GuiSpec => WorldSpec
<1>1. GuiInit => WorldInit
  BY DEF GuiInit
<1> QED  BY <1>1, GuiStepsWorld, PTL DEF GuiSpec, WorldSpec

(***************************************************************************)
(* The caught-up mirror shows every player on the map as it is, but for    *)
(* what the server never told it: the mirror at the end of the stream is   *)
(* the one GuiInv speaks of, as lines can be handled in one way only.      *)
(***************************************************************************)
THEOREM PlayersAlwaysShown == GuiSpec => []PlayersShown
<1>1. GuiInv => PlayersShown
  <2> SUFFICES ASSUME GuiInv, connected
               PROVE  /\ TimeUnit \notin unseen => Final.timeUnit = freq
                      /\ \A p \in Players : InPlay(p) =>
                           p \in DOMAIN Final.players /\ AsItIs(p, Final.players[p])
    BY DEF PlayersShown, AsItIs
  <2>1. PICK m : Works(view, wire, m) /\ Mirrors(m)
    BY DEF GuiInv, StreamInv
  <2>2. Final = m
    BY <2>1, WorksAfter DEF Final
  <2> QED  BY <2>1, <2>2 DEF Mirrors, TimeMirrored, PlayersMirrored, Alive
<1> QED  BY <1>1, GuiInvariant, PTL

(***************************************************************************)
(* It shows nobody but the players on the map and those that hung up.      *)
(***************************************************************************)
THEOREM NobodyElseEverShown == GuiSpec => []NobodyElseShown
<1>1. GuiInv => NobodyElseShown
  <2> SUFFICES ASSUME GuiInv, connected
               PROVE  DOMAIN Final.players \subseteq {p \in Players : InPlay(p)} \cup quit
    BY DEF NobodyElseShown
  <2>1. PICK m : Works(view, wire, m) /\ Mirrors(m)
    BY DEF GuiInv, StreamInv
  <2>2. Final = m
    BY <2>1, WorksAfter DEF Final
  <2> QED  BY <2>1, <2>2 DEF Mirrors, PlayersMirrored, Alive
<1> QED  BY <1>1, GuiInvariant, PTL

(***************************************************************************)
(* A ritual it shows is under way, unless its performer was pushed off the *)
(* tile, died or hung up.                                                  *)
(***************************************************************************)
THEOREM RitualsAlwaysShown == GuiSpec => []RitualsShown
<1>1. GuiInv => RitualsShown
  <2> SUFFICES ASSUME GuiInv, NEW i \in Final.incantations
               PROVE  i.at \in strays \/ \E p \in Players : performing[p] = i.at
    BY DEF RitualsShown
  <2>1. CASE connected
    <3>1. PICK m : Works(view, wire, m) /\ Mirrors(m)
      BY <2>1 DEF GuiInv, StreamInv
    <3>2. Final = m
      BY <3>1, WorksAfter DEF Final
    <3> QED  BY <3>1, <3>2 DEF Mirrors, RitesMirrored
  <2>2. CASE ~connected
    <3>1. Works(view, wire, NewGameState)
      BY <2>2, WorksNone DEF GuiInv, StreamInv
    <3>2. Final = NewGameState
      BY <3>1, WorksAfter DEF Final
    <3> QED  BY <3>2, NothingShown
  <2> QED  BY <2>1, <2>2
<1> QED  BY <1>1, GuiInvariant, PTL

(***************************************************************************)
(* No line is ever ignored for being about what the client does not know.  *)
(***************************************************************************)
THEOREM NothingEverIgnored == GuiSpec => []NothingIgnored
<1>1. GuiInv => NothingIgnored
  <2> SUFFICES ASSUME GuiInv, wire # <<>> PROVE Knows(view, Head(wire))
    BY DEF NothingIgnored, Knows
  <2>1. PICK m : Works(view, wire, m)
    BY DEF GuiInv, StreamInv
  <2> QED  BY <2>1, WorksTail
<1> QED  BY <1>1, GuiInvariant, PTL
-----------------------------------------------------------------------------
(***************************************************************************)
(* The mirror as the copy of a replica (Replica.tla).                      *)
(*                                                                         *)
(* A copy converges to the truth, for any items, values and updates, and   *)
(* any number of updates under way.  No induction over the log is needed:  *)
(* what the log says of an item is the last update that names it, and the  *)
(* steps put updates at one end and take them from the other.              *)
(***************************************************************************)
(* What a part that comes later says, the whole says too. *)
LEMMA SaysLast ==
  ASSUME NEW s \in Seq(R!Update), NEW t \in Seq(R!Update), NEW i \in Item, NEW v,
         R!Says(t, i, v)
  PROVE  R!Says(s \o t, i, v)
<1>1. PICK k \in DOMAIN t : t[k][i] = {v} /\ \A j \in DOMAIN t : j > k => t[j][i] = {}
  BY DEF R!Says
<1> DEFINE n == Len(s)
<1>2. n + k \in DOMAIN (s \o t) /\ (s \o t)[n + k] = t[k]
  OBVIOUS
<1>3. ASSUME NEW j \in DOMAIN (s \o t), j > n + k
      PROVE  (s \o t)[j][i] = {}
  <2>1. j - n \in DOMAIN t /\ j - n > k /\ (s \o t)[j] = t[j - n]
    BY <1>3
  <2> QED  BY <1>1, <2>1
<1> QED  BY <1>1, <1>2, <1>3 DEF R!Says

(* What a later part does not name is as the earlier part left it. *)
LEMMA SaysFirst ==
  ASSUME NEW s \in Seq(R!Update), NEW t \in Seq(R!Update), NEW i \in Item, NEW v,
         R!Says(s, i, v), ~R!Told(t, i)
  PROVE  R!Says(s \o t, i, v)
<1>1. PICK k \in DOMAIN s : s[k][i] = {v} /\ \A j \in DOMAIN s : j > k => s[j][i] = {}
  BY DEF R!Says
<1>2. k \in DOMAIN (s \o t) /\ (s \o t)[k] = s[k]
  OBVIOUS
<1>3. ASSUME NEW j \in DOMAIN (s \o t), j > k
      PROVE  (s \o t)[j][i] = {}
  <2>1. CASE j \in DOMAIN s
    BY <1>1, <1>3, <2>1
  <2>2. CASE j \notin DOMAIN s
    <3>1. j - Len(s) \in DOMAIN t /\ (s \o t)[j] = t[j - Len(s)]
      BY <2>2
    <3> QED  BY <3>1 DEF R!Told
  <2> QED  BY <2>1, <2>2
<1> QED  BY <1>1, <1>2, <1>3 DEF R!Says

LEMMA ToldEither ==
  ASSUME NEW s \in Seq(R!Update), NEW t \in Seq(R!Update), NEW i \in Item
  PROVE  R!Told(s \o t, i) <=> R!Told(s, i) \/ R!Told(t, i)
<1>1. ASSUME R!Told(s \o t, i) PROVE R!Told(s, i) \/ R!Told(t, i)
  <2>1. PICK k \in DOMAIN (s \o t) : (s \o t)[k][i] # {}
    BY <1>1 DEF R!Told
  <2>2. CASE k \in DOMAIN s
    BY <2>1, <2>2 DEF R!Told
  <2>3. CASE k \notin DOMAIN s
    <3>1. k - Len(s) \in DOMAIN t /\ (s \o t)[k] = t[k - Len(s)]
      BY <2>3
    <3> QED  BY <2>1, <3>1 DEF R!Told
  <2> QED  BY <2>2, <2>3
<1>2. ASSUME R!Told(s, i) PROVE R!Told(s \o t, i)
  <2>1. PICK k \in DOMAIN s : s[k][i] # {}
    BY <1>2 DEF R!Told
  <2>2. k \in DOMAIN (s \o t) /\ (s \o t)[k] = s[k]
    OBVIOUS
  <2> QED  BY <2>1, <2>2 DEF R!Told
<1>3. ASSUME R!Told(t, i) PROVE R!Told(s \o t, i)
  <2>1. PICK k \in DOMAIN t : t[k][i] # {}
    BY <1>3 DEF R!Told
  <2>2. Len(s) + k \in DOMAIN (s \o t) /\ (s \o t)[Len(s) + k] = t[k]
    OBVIOUS
  <2> QED  BY <2>1, <2>2 DEF R!Told
<1> QED  BY <1>1, <1>2, <1>3

(* Updates that lead from a to b, and more from b to c, lead from a to c. *)
LEMMA LeadsOn ==
  ASSUME NEW s \in Seq(R!Update), NEW t \in Seq(R!Update), NEW a, NEW b, NEW c,
         R!Leads(s, a, b), R!Leads(t, b, c)
  PROVE  R!Leads(s \o t, a, c)
<1> SUFFICES ASSUME NEW i \in Item
             PROVE  IF R!Told(s \o t, i) THEN R!Says(s \o t, i, c[i]) ELSE a[i] = c[i]
  BY DEF R!Leads
<1>1. CASE R!Told(t, i)
  <2>1. R!Says(t, i, c[i])
    BY <1>1 DEF R!Leads
  <2> QED  BY <1>1, <2>1, SaysLast, ToldEither
<1>2. CASE ~R!Told(t, i) /\ R!Told(s, i)
  <2>1. R!Says(s, i, b[i]) /\ b[i] = c[i]
    BY <1>2 DEF R!Leads
  <2> QED  BY <1>2, <2>1, SaysFirst, ToldEither
<1>3. CASE ~R!Told(t, i) /\ ~R!Told(s, i)
  BY <1>3, ToldEither DEF R!Leads
<1> QED  BY <1>1, <1>2, <1>3

(* Taking the first update in leaves the rest to be taken in. *)
LEMMA LeadsTail ==
  ASSUME NEW s \in Seq(R!Update), s # <<>>, NEW a, NEW b, NEW c, R!Leads(s, a, c),
         \A i \in Item : IF Head(s)[i] = {} THEN b[i] = a[i] ELSE b[i] \in Head(s)[i]
  PROVE  R!Leads(Tail(s), b, c)
<1> SUFFICES ASSUME NEW i \in Item
             PROVE  IF R!Told(Tail(s), i) THEN R!Says(Tail(s), i, c[i]) ELSE b[i] = c[i]
  BY DEF R!Leads
<1>0. /\ Tail(s) \in Seq(R!Update) /\ Len(Tail(s)) = Len(s) - 1 /\ Len(s) \in Nat \ {0}
      /\ \A j \in DOMAIN Tail(s) : j + 1 \in DOMAIN s /\ Tail(s)[j] = s[j + 1]
      /\ \A j \in DOMAIN s : j # 1 => j - 1 \in DOMAIN Tail(s) /\ Tail(s)[j - 1] = s[j]
      /\ Head(s) = s[1] /\ 1 \in DOMAIN s
      /\ DOMAIN s = 1 .. Len(s) /\ DOMAIN Tail(s) = 1 .. Len(s) - 1
  OBVIOUS
<1>1. CASE R!Told(Tail(s), i)
  <2>1. PICK m \in DOMAIN Tail(s) : Tail(s)[m][i] # {}
    BY <1>1 DEF R!Told
  <2>2. R!Told(s, i)
    BY <1>0, <2>1 DEF R!Told
  <2>3. PICK k \in DOMAIN s : s[k][i] = {c[i]} /\ \A j \in DOMAIN s : j > k => s[j][i] = {}
    BY <2>2 DEF R!Leads, R!Says
  <2>4. k # 1
    BY <1>0, <2>1, <2>3
  <2>5. k - 1 \in DOMAIN Tail(s) /\ Tail(s)[k - 1][i] = {c[i]}
    BY <1>0, <2>3, <2>4
  <2>6. ASSUME NEW j \in DOMAIN Tail(s), j > k - 1 PROVE Tail(s)[j][i] = {}
    <3>1. j + 1 \in DOMAIN s /\ j + 1 > k /\ Tail(s)[j] = s[j + 1]
      BY <1>0, <2>6
    <3> QED  BY <2>3, <3>1
  <2> QED  BY <1>1, <2>5, <2>6 DEF R!Says
<1>2. CASE ~R!Told(Tail(s), i)
  <2>1. ASSUME NEW j \in DOMAIN s, j # 1 PROVE s[j][i] = {}
    <3>1. j - 1 \in DOMAIN Tail(s) /\ Tail(s)[j - 1] = s[j]
      BY <1>0, <2>1
    <3>2. Tail(s)[j - 1][i] = {}
      BY <1>2, <3>1 DEF R!Told
    <3> QED  BY <3>1, <3>2
  <2>2. CASE Head(s)[i] = {}
    <3>1. ~R!Told(s, i)
      BY <1>0, <2>1, <2>2 DEF R!Told
    <3>2. a[i] = c[i] /\ b[i] = a[i]
      BY <2>2, <3>1 DEF R!Leads
    <3> QED  BY <1>2, <3>2
  <2>3. CASE Head(s)[i] # {}
    <3>1. R!Told(s, i)
      BY <1>0, <2>3 DEF R!Told
    <3>2. PICK k \in DOMAIN s : s[k][i] = {c[i]} /\ \A j \in DOMAIN s : j > k => s[j][i] = {}
      BY <3>1 DEF R!Leads, R!Says
    <3>3. k = 1
      BY <1>0, <2>1, <3>2
    <3> QED  BY <1>0, <1>2, <2>3, <3>2, <3>3
  <2> QED  BY <2>2, <2>3
<1> QED  BY <1>1, <1>2

(* The types of a replica: the log holds updates, and both ends every item. *)
THEOREM ReplicaTypes == R!Spec => []R!TypeOK
<1>1. R!Init => R!TypeOK
  <2>1. <<>> \in Seq(R!Update)
    OBVIOUS
  <2> QED  BY <2>1 DEF R!Init, R!TypeOK
<1>2. R!TypeOK /\ [R!Next]_(R!vars) => R!TypeOK'
  <2> SUFFICES ASSUME R!TypeOK, [R!Next]_(R!vars) PROVE R!TypeOK'
    OBVIOUS
  <2>1. CASE R!Change
    BY <2>1 DEF R!TypeOK, R!Change
  <2>2. CASE R!GoLive
    BY <2>2 DEF R!TypeOK, R!GoLive
  <2>3. CASE R!Publish
    BY <2>3 DEF R!TypeOK, R!Publish
  <2>4. CASE R!Deliver
    <3>1. Head(meanings) \in R!Update /\ meanings' \in Seq(R!Update)
      BY <2>4 DEF R!TypeOK, R!Deliver
    <3> QED  BY <2>4, <3>1 DEF R!TypeOK, R!Deliver
  <2>5. CASE UNCHANGED R!vars
    BY <2>5 DEF R!TypeOK, R!vars
  <2> QED  BY <2>1, <2>2, <2>3, <2>4, <2>5 DEF R!Next
<1> QED  BY <1>1, <1>2, PTL DEF R!Spec

(***************************************************************************)
(* What the copy holds and what is on its way to it amount to the truth,   *)
(* at every moment after it went live.                                     *)
(***************************************************************************)
THEOREM ReplicaConverges == R!Spec => []R!Converges
<1>1. R!Init => R!Converges
  BY DEF R!Init, R!Converges
<1>2. R!TypeOK /\ R!TypeOK' /\ R!Converges /\ [R!Next]_(R!vars) => R!Converges'
  <2> SUFFICES ASSUME R!TypeOK, R!TypeOK', R!Converges, [R!Next]_(R!vars), connected'
               PROVE  R!Leads(meanings', mirror', gameTruth')
    BY DEF R!Converges
  <2>1. CASE R!Change
    BY <2>1 DEF R!Change
  <2>2. CASE R!GoLive
    BY <2>2 DEF R!GoLive
  <2>3. CASE R!Publish
    <3>1. meanings' = meanings \o R!News /\ R!News \in Seq(R!Update)
      <4>1. meanings' \in Seq(R!Update) /\ Len(meanings) \in Nat /\ Len(meanings) <= Len(meanings')
        BY <2>3 DEF R!Publish, R!TypeOK
      <4> QED  BY <2>3, <4>1 DEF R!Publish, R!News
    <3>2. R!Leads(meanings, mirror, gameTruth) /\ R!Leads(R!News, gameTruth, gameTruth')
      BY <2>3 DEF R!Publish, R!Converges
    <3>3. R!Leads(meanings \o R!News, mirror, gameTruth')
      BY <3>1, <3>2, LeadsOn DEF R!TypeOK
    <3> QED  BY <2>3, <3>1, <3>3 DEF R!Publish
  <2>4. CASE R!Deliver
    <3>1. /\ connected /\ meanings \in Seq(R!Update) /\ meanings # <<>>
          /\ meanings' = Tail(meanings) /\ gameTruth' = gameTruth
          /\ \A i \in Item :
               IF Head(meanings)[i] = {} THEN mirror'[i] = mirror[i] ELSE mirror'[i] \in Head(meanings)[i]
      BY <2>4 DEF R!Deliver, R!TypeOK
    <3>2. R!Leads(Tail(meanings), mirror', gameTruth)
      BY <3>1, LeadsTail DEF R!Converges
    <3> QED  BY <3>1, <3>2
  <2>5. CASE UNCHANGED R!vars
    BY <2>5 DEF R!vars, R!Converges
  <2> QED  BY <2>1, <2>2, <2>3, <2>4, <2>5 DEF R!Next
<1> QED  BY <1>1, <1>2, ReplicaTypes, PTL DEF R!Spec

(* So a live copy with nothing on its way to it is the truth. *)
THEOREM ReplicaCatchesUp == R!Spec => []R!CaughtUp
<1>1. R!TypeOK /\ R!Converges => R!CaughtUp
  <2> SUFFICES ASSUME R!TypeOK, R!Converges, connected, meanings = <<>> PROVE mirror = gameTruth
    BY DEF R!CaughtUp
  <2>1. \A i \in Item : ~R!Told(meanings, i)
    BY DEF R!Told
  <2>2. \A i \in Item : mirror[i] = gameTruth[i]
    BY <2>1 DEF R!Converges, R!Leads
  <2> QED  BY <2>2 DEF R!TypeOK
<1> QED  BY <1>1, ReplicaTypes, ReplicaConverges, PTL

-----------------------------------------------------------------------------
(***************************************************************************)
(* What lines mean is what the handlers make of them, and what the server  *)
(* says is true: Gui.tla implements Replica.tla.                           *)
(*                                                                         *)
(* An aside says nothing of a tile, an egg or a level.                     *)
(***************************************************************************)
Aside(l) ==
  \/ l.cmd \in {"pex", "pfk", "pdr", "pgt", "sbp"}
  \/ l.cmd = "pie"
  \/ \E t \in Teams : l = tna(t)
  \/ \E f \in Nat : l = sgt(f) \/ l = sst(f)
  \/ \E p \in Players, t \in Tile, o \in 1 .. 4 : l = ppo(p, t, o)
  \/ \E p \in Players, t \in Tile, q \in [Resource -> Nat] : l = pin(p, t, q)
  \/ \E p \in Players : l = pbc(p)
  \/ \E t \in Tile, v \in 1 .. MaxLevel, S \in SUBSET Players : l = pic(t, v, S)

Line(l) ==
  \/ Aside(l)
  \/ l = msz(Width, Height)
  \/ \E t \in Tile, q \in [Resource -> Nat] : l = bct(t, q)
  \/ \E p \in Players, t \in Tile, o \in 1 .. 4, v \in 1 .. MaxLevel, name \in Teams :
       l = pnw(p, t, o, v, name)
  \/ \E p \in Players, v \in 1 .. MaxLevel : l = plv(p, v)
  \/ \E p \in Players : l = pdi(p)
  \/ \E e \in Nat, p \in Players \cup {Nobody}, t \in Tile : l = enw(e, p, t)
  \/ \E e \in Nat : l = ebo(e) \/ l = edi(e)

(* The players whose level the client knows. *)
Known == Alive \cup quit

(* A line that says of the game what is so. *)
IsTrue(l) ==
  \/ Aside(l)
  \/ \E t \in Tile : l = bct(t, stones[t])
  \/ \E p \in Alive, t \in Tile, o \in 1 .. 4 : l = pnw(p, t, o, lvl[p], team[p])
  \/ \E p \in Alive : l = plv(p, lvl[p])
  \/ \E p \in Players \ Known : l = pdi(p)
  \/ \E e \in eggs, p \in Players \cup {Nobody} : l = enw(e.id, p, e.tile)
  \/ \E e \in Nat \ EggIds : l = ebo(e) \/ l = edi(e)

LEMMA AsideCommands ==
  ASSUME NEW l, Aside(l)
  PROVE  l.cmd \in {"pex", "pfk", "pdr", "pgt", "sbp", "pie", "tna", "sgt", "sst", "ppo",
                    "pin", "pbc", "pic"}
BY DEF Aside, tna, sgt, sst, ppo, pin, pbc, pic

LEMMA ItemKinds ==
  ASSUME NEW i \in Item
  PROVE  \/ \E t \in Tile : i = <<"stones", t>>
         \/ \E e \in 0 .. MaxEggs - 1 : i = <<"egg", e>>
         \/ \E p \in Players : i = <<"level", p>>
BY DEF Item

(* What a line says of each item. *)
LEMMA MeansOfTile ==
  ASSUME NEW l, NEW t \in Tile, NEW i, i = <<"stones", t>>
  PROVE  /\ i \in Item
         /\ l.cmd = "msz" => Meaning(l)[i] = {<<"stones", NoStones>>}
         /\ l.cmd = "bct" /\ l.at = t => Meaning(l)[i] = {<<"stones", l.stones>>}
         /\ l.cmd # "msz" /\ ~(l.cmd = "bct" /\ l.at = t) => Meaning(l)[i] = {}
<1>1. i \in Item
  BY DEF Item
<1>2. i[1] = "stones" /\ \A x : (i = <<"stones", x>> <=> x = t) /\ i # <<"egg", x>> /\ i # <<"level", x>>
  OBVIOUS
<1> QED  BY <1>1, <1>2 DEF Meaning

LEMMA MeansOfEgg ==
  ASSUME NEW l, NEW e \in 0 .. MaxEggs - 1, NEW i, i = <<"egg", e>>
  PROVE  /\ i \in Item
         /\ l.cmd = "enw" /\ l.egg = e => Meaning(l)[i] = {<<"at", l.at>>}
         /\ l.cmd \in {"ebo", "edi"} /\ l.egg = e => Meaning(l)[i] = {Unknown}
         /\ ~(l.cmd \in {"enw", "ebo", "edi"} /\ l.egg = e) => Meaning(l)[i] = {}
<1>1. i \in Item
  BY DEF Item
<1>2. i[1] # "stones" /\ \A x : (i = <<"egg", x>> <=> x = e) /\ i # <<"stones", x>> /\ i # <<"level", x>>
  OBVIOUS
<1> QED  BY <1>1, <1>2 DEF Meaning

LEMMA MeansOfLevel ==
  ASSUME NEW l, NEW p \in Players, NEW i, i = <<"level", p>>
  PROVE  /\ i \in Item
         /\ l.cmd \in {"pnw", "plv"} /\ l.player = p => Meaning(l)[i] = {<<"level", l.level>>}
         /\ l.cmd = "pdi" /\ l.player = p => Meaning(l)[i] = {Unknown}
         /\ ~(l.cmd \in {"pnw", "plv", "pdi"} /\ l.player = p) => Meaning(l)[i] = {}
<1>1. i \in Item
  BY DEF Item
<1>2. i[1] # "stones" /\ \A x : (i = <<"level", x>> <=> x = p) /\ i # <<"stones", x>> /\ i # <<"egg", x>>
  OBVIOUS
<1> QED  BY <1>1, <1>2 DEF Meaning

LEMMA LineMeans ==
  ASSUME NEW l, Line(l)
  PROVE  Meaning(l) \in R!Update
<1> SUFFICES ASSUME NEW i \in Item PROVE Meaning(l)[i] \in SUBSET Value
  BY DEF Meaning, R!Update
<1>1. /\ l.cmd = "bct" => l.stones \in [Resource -> Nat]
      /\ l.cmd = "enw" => l.at \in Tile
      /\ l.cmd \in {"pnw", "plv"} => l.level \in 1 .. MaxLevel
  BY AsideCommands DEF Line, msz, bct, pnw, plv, pdi, enw, ebo, edi
<1>2. /\ <<"stones", NoStones>> \in Value /\ Unknown \in Value
      /\ \A q \in [Resource -> Nat] : <<"stones", q>> \in Value
      /\ \A t \in Tile : <<"at", t>> \in Value
      /\ \A v \in 1 .. MaxLevel : <<"level", v>> \in Value
  BY DEF Value, NoStones
<1>3. PICK M : M = Meaning(l)[i]
  OBVIOUS
<1>4. ASSUME NEW t \in Tile, i = <<"stones", t>> PROVE \A v \in M : v \in Value
  <2>1. \/ M = {} \/ M = {<<"stones", NoStones>>}
        \/ l.cmd = "bct" /\ M = {<<"stones", l.stones>>}
    BY <1>3, <1>4, MeansOfTile
  <2> QED  BY <1>1, <1>2, <2>1
<1>5. ASSUME NEW e \in 0 .. MaxEggs - 1, i = <<"egg", e>> PROVE \A v \in M : v \in Value
  <2>1. M = {} \/ M = {Unknown} \/ (l.cmd = "enw" /\ M = {<<"at", l.at>>})
    BY <1>3, <1>5, MeansOfEgg
  <2> QED  BY <1>1, <1>2, <2>1
<1>6. ASSUME NEW p \in Players, i = <<"level", p>> PROVE \A v \in M : v \in Value
  <2>1. M = {} \/ M = {Unknown} \/ (l.cmd \in {"pnw", "plv"} /\ M = {<<"level", l.level>>})
    BY <1>3, <1>6, MeansOfLevel
  <2> QED  BY <1>1, <1>2, <2>1
<1> QED  BY <1>3, <1>4, <1>5, <1>6, ItemKinds


(* What a handler makes of a line is what the line means. *)
SameLevels(m, w) ==
  /\ DOMAIN w.players = DOMAIN m.players
  /\ \A p \in DOMAIN m.players : w.players[p].level = m.players[p].level

LEMMA LevelsSame ==
  ASSUME NEW m, NEW w, SamePlayers(m, w)
  PROVE  SameLevels(m, w)
BY DEF SamePlayers, SameLevels

LEMMA ShowKeepsLevels ==
  ASSUME NEW m \in GameState, NEW p \in DOMAIN m.players, NEW shown \in Shown,
         shown.level = m.players[p].level, NEW w, w = Show(m, p, shown)
  PROVE  w \in GameState /\ SameTiles(m, w) /\ SameEggs(m, w) /\ SameLevels(m, w)
<1>1. ShownAs(m, w, p, shown)
  BY PlayerIsShown, ShowOne
<1> QED  BY <1>1 DEF ShownAs, SameLevels

LEMMA AsideHandled ==
  ASSUME NEW m \in GameState, NEW l, Aside(l), Knows(m, l), NEW w, w = handleLine(m, l)
  PROVE  w \in GameState /\ SameTiles(m, w) /\ SameEggs(m, w) /\ SameLevels(m, w)
<1>1. CASE l.cmd \in {"pex", "pfk", "pdr", "pgt", "sbp"}
  BY <1>1, OnText, LevelsSame DEF Same
<1>2. CASE l.cmd = "pie"
  <2>1. PICK t : t = l.at
    OBVIOUS
  <2> QED  BY <1>2, <2>1, OnPie, LevelsSame
<1>3. ASSUME NEW t \in Teams, l = tna(t)
      PROVE  w \in GameState /\ SameTiles(m, w) /\ SameEggs(m, w) /\ SameLevels(m, w)
  BY <1>3, OnTna, LevelsSame DEF Same
<1>4. ASSUME NEW f \in Nat, l = sgt(f) \/ l = sst(f)
      PROVE  w \in GameState /\ SameTiles(m, w) /\ SameEggs(m, w) /\ SameLevels(m, w)
  BY <1>4, OnTime, LevelsSame
<1>5. ASSUME NEW p \in Players, NEW t \in Tile, NEW o \in 1 .. 4, l = ppo(p, t, o)
      PROVE  w \in GameState /\ SameTiles(m, w) /\ SameEggs(m, w) /\ SameLevels(m, w)
  <2>1. l.cmd = "ppo" /\ l.player = p /\ l.at = t /\ l.orientation = o
    BY <1>5 DEF ppo
  <2>2. p \in DOMAIN m.players
    BY <2>1 DEF Knows
  <2>3. PICK shown : shown = [m.players[p] EXCEPT !.at = t, !.orientation = o]
    OBVIOUS
  <2>4. shown \in Shown /\ shown.level = m.players[p].level
    BY <2>2, <2>3, PlayerIsShown DEF Shown
  <2>5. w = Show(m, p, shown)
    BY <2>1, <2>2, <2>3 DEF handleLine, handlePpo
  <2> QED  BY <2>2, <2>4, <2>5, ShowKeepsLevels
<1>6. ASSUME NEW p \in Players, NEW t \in Tile, NEW q \in [Resource -> Nat], l = pin(p, t, q)
      PROVE  w \in GameState /\ SameTiles(m, w) /\ SameEggs(m, w) /\ SameLevels(m, w)
  <2>1. l.cmd = "pin" /\ l.player = p /\ l.at = t /\ l.stones = q
    BY <1>6 DEF pin
  <2>2. p \in DOMAIN m.players
    BY <2>1 DEF Knows
  <2>3. PICK shown : shown = [m.players[p] EXCEPT !.at = t, !.inventory = q]
    OBVIOUS
  <2>4. shown \in Shown /\ shown.level = m.players[p].level
    BY <2>2, <2>3, PlayerIsShown DEF Shown
  <2>5. w = Show(m, p, shown)
    BY <2>1, <2>2, <2>3 DEF handleLine, handlePin
  <2> QED  BY <2>2, <2>4, <2>5, ShowKeepsLevels
<1>7. ASSUME NEW p \in Players, l = pbc(p)
      PROVE  w \in GameState /\ SameTiles(m, w) /\ SameEggs(m, w) /\ SameLevels(m, w)
  <2>1. CASE p \in DOMAIN m.players
    <3>1. PICK shown : shown = [m.players[p] EXCEPT !.broadcastVersion = @ + 1]
      OBVIOUS
    <3>2. ShownAs(m, w, p, shown)
      BY <1>7, <2>1, <3>1, OnPbc
    <3>3. shown.level = m.players[p].level
      BY <2>1, <3>1, PlayerIsShown DEF Shown
    <3> QED  BY <2>1, <3>2, <3>3 DEF ShownAs, SameLevels
  <2>2. CASE p \notin DOMAIN m.players
    <3>1. w = m
      BY <1>7, <2>2 DEF pbc, handleLine, handlePbc
    <3> QED  BY <3>1 DEF SameTiles, SameEggs, SameLevels
  <2> QED  BY <2>1, <2>2
<1>8. ASSUME NEW t \in Tile, NEW v \in 1 .. MaxLevel, NEW S \in SUBSET Players,
             l = pic(t, v, S)
      PROVE  w \in GameState /\ SameTiles(m, w) /\ SameEggs(m, w) /\ SameLevels(m, w)
  BY <1>8, OnPic, LevelsSame
<1> QED  BY <1>1, <1>2, <1>3, <1>4, <1>5, <1>6, <1>7, <1>8 DEF Aside

LEMMA ShowsTile ==
  ASSUME NEW m, NEW t
  PROVE  shownIn(m, <<"stones", t>>) =
           <<"stones", IF t \in DOMAIN m.tiles THEN m.tiles[t] ELSE NoStones>>
BY DEF shownIn

LEMMA ShowsEgg ==
  ASSUME NEW m, NEW e
  PROVE  shownIn(m, <<"egg", e>>) =
           IF e \in DOMAIN m.eggs THEN <<"at", m.eggs[e].at>> ELSE Unknown
BY DEF shownIn

LEMMA ShowsLevel ==
  ASSUME NEW m, NEW p
  PROVE  shownIn(m, <<"level", p>>) =
           IF p \in DOMAIN m.players THEN <<"level", m.players[p].level>> ELSE Unknown
BY DEF shownIn

(* An item that a mirror takes in as a line means it. *)
TakenIn(m, l, w, i) ==
  IF Meaning(l)[i] = {} THEN shownIn(w, i) = shownIn(m, i)
                        ELSE shownIn(w, i) \in Meaning(l)[i]

LEMMA TilesTakenIn ==
  ASSUME NEW m, NEW l, NEW w, NEW t \in Tile, NEW i, i = <<"stones", t>>,
         \/ SameTiles(m, w) /\ l.cmd \notin {"msz", "bct"}
         \/ l.cmd = "msz" /\ t \in DOMAIN w.tiles /\ w.tiles[t] = NoStones
         \/ /\ l.cmd = "bct" /\ DOMAIN w.tiles = DOMAIN m.tiles
            /\ l.at = t => t \in DOMAIN w.tiles /\ w.tiles[t] = l.stones
            /\ l.at # t /\ t \in DOMAIN m.tiles => w.tiles[t] = m.tiles[t]
  PROVE  TakenIn(m, l, w, i)
<1>1. PICK M : M = Meaning(l)[i]
  OBVIOUS
<1>2. CASE SameTiles(m, w) /\ l.cmd \notin {"msz", "bct"}
  BY <1>2, MeansOfTile, ShowsTile DEF TakenIn, SameTiles
<1>3. CASE l.cmd = "msz" /\ t \in DOMAIN w.tiles /\ w.tiles[t] = NoStones
  <2>1. M = {<<"stones", NoStones>>}
    BY <1>1, <1>3, MeansOfTile
  <2>2. shownIn(w, i) = <<"stones", NoStones>>
    BY <1>3, ShowsTile
  <2> QED  BY <1>1, <2>1, <2>2 DEF TakenIn
<1>4. CASE /\ l.cmd = "bct" /\ DOMAIN w.tiles = DOMAIN m.tiles
           /\ l.at = t => t \in DOMAIN w.tiles /\ w.tiles[t] = l.stones
           /\ l.at # t /\ t \in DOMAIN m.tiles => w.tiles[t] = m.tiles[t]
  <2>1. CASE l.at = t
    <3>1. M = {<<"stones", l.stones>>}
      BY <1>1, <1>4, <2>1, MeansOfTile
    <3>2. shownIn(w, i) = <<"stones", l.stones>>
      BY <1>4, <2>1, ShowsTile
    <3> QED  BY <1>1, <3>1, <3>2 DEF TakenIn
  <2>2. CASE l.at # t
    <3>1. M = {}
      BY <1>1, <1>4, <2>2, MeansOfTile
    <3>2. shownIn(w, i) = shownIn(m, i)
      BY <1>4, <2>2, ShowsTile
    <3> QED  BY <1>1, <3>1, <3>2 DEF TakenIn
  <2> QED  BY <2>1, <2>2
<1> QED  BY <1>2, <1>3, <1>4

LEMMA EggsTakenIn ==
  ASSUME NEW m, NEW l, NEW w, NEW e \in 0 .. MaxEggs - 1, NEW i, i = <<"egg", e>>,
         \/ SameEggs(m, w) /\ l.cmd \notin {"enw", "ebo", "edi"}
         \/ /\ l.cmd = "enw" /\ DOMAIN w.eggs = DOMAIN m.eggs \cup {l.egg}
            /\ w.eggs[l.egg].at = l.at
            /\ \A x \in DOMAIN m.eggs : x # l.egg => w.eggs[x] = m.eggs[x]
         \/ /\ l.cmd \in {"ebo", "edi"} /\ DOMAIN w.eggs = DOMAIN m.eggs \ {l.egg}
            /\ \A x \in DOMAIN w.eggs : w.eggs[x] = m.eggs[x]
  PROVE  TakenIn(m, l, w, i)
<1>1. PICK M : M = Meaning(l)[i]
  OBVIOUS
<1>2. CASE SameEggs(m, w) /\ l.cmd \notin {"enw", "ebo", "edi"}
  <2>1. M = {}
    BY <1>1, <1>2, MeansOfEgg
  <2>2. shownIn(w, i) = shownIn(m, i)
    BY <1>2, ShowsEgg DEF SameEggs
  <2> QED  BY <1>1, <2>1, <2>2 DEF TakenIn
<1>3. CASE /\ l.cmd = "enw" /\ DOMAIN w.eggs = DOMAIN m.eggs \cup {l.egg}
           /\ w.eggs[l.egg].at = l.at
           /\ \A x \in DOMAIN m.eggs : x # l.egg => w.eggs[x] = m.eggs[x]
  <2>1. CASE l.egg = e
    <3>1. M = {<<"at", l.at>>}
      BY <1>1, <1>3, <2>1, MeansOfEgg
    <3>2. shownIn(w, i) = <<"at", l.at>>
      BY <1>3, <2>1, ShowsEgg
    <3> QED  BY <1>1, <3>1, <3>2 DEF TakenIn
  <2>2. CASE l.egg # e
    <3>1. M = {}
      BY <1>1, <1>3, <2>2, MeansOfEgg
    <3>2. shownIn(w, i) = shownIn(m, i)
      <4>1. CASE e \in DOMAIN m.eggs
        BY <1>3, <2>2, <4>1, ShowsEgg
      <4>2. CASE e \notin DOMAIN m.eggs
        BY <1>3, <2>2, <4>2, ShowsEgg
      <4> QED  BY <4>1, <4>2
    <3> QED  BY <1>1, <3>1, <3>2 DEF TakenIn
  <2> QED  BY <2>1, <2>2
<1>4. CASE /\ l.cmd \in {"ebo", "edi"} /\ DOMAIN w.eggs = DOMAIN m.eggs \ {l.egg}
           /\ \A x \in DOMAIN w.eggs : w.eggs[x] = m.eggs[x]
  <2>1. CASE l.egg = e
    <3>1. M = {Unknown}
      BY <1>1, <1>4, <2>1, MeansOfEgg
    <3>2. shownIn(w, i) = Unknown
      BY <1>4, <2>1, ShowsEgg
    <3> QED  BY <1>1, <3>1, <3>2 DEF TakenIn
  <2>2. CASE l.egg # e
    <3>1. M = {}
      BY <1>1, <1>4, <2>2, MeansOfEgg
    <3>2. shownIn(w, i) = shownIn(m, i)
      BY <1>4, <2>2, ShowsEgg
    <3> QED  BY <1>1, <3>1, <3>2 DEF TakenIn
  <2> QED  BY <2>1, <2>2
<1> QED  BY <1>2, <1>3, <1>4

LEMMA LevelsTakenIn ==
  ASSUME NEW m, NEW l, NEW w, NEW p \in Players, NEW i, i = <<"level", p>>,
         \/ SameLevels(m, w) /\ l.cmd \notin {"pnw", "plv", "pdi"}
         \/ /\ l.cmd \in {"pnw", "plv"} /\ DOMAIN w.players = DOMAIN m.players \cup {l.player}
            /\ w.players[l.player].level = l.level
            /\ \A q \in DOMAIN m.players : q # l.player => w.players[q] = m.players[q]
         \/ /\ l.cmd = "pdi" /\ DOMAIN w.players = DOMAIN m.players \ {l.player}
            /\ \A q \in DOMAIN w.players : w.players[q] = m.players[q]
  PROVE  TakenIn(m, l, w, i)
<1>1. PICK M : M = Meaning(l)[i]
  OBVIOUS
<1>2. CASE SameLevels(m, w) /\ l.cmd \notin {"pnw", "plv", "pdi"}
  <2>1. M = {}
    BY <1>1, <1>2, MeansOfLevel
  <2>2. shownIn(w, i) = shownIn(m, i)
    <3>1. CASE p \in DOMAIN m.players
      BY <1>2, <3>1, ShowsLevel DEF SameLevels
    <3>2. CASE p \notin DOMAIN m.players
      BY <1>2, <3>2, ShowsLevel DEF SameLevels
    <3> QED  BY <3>1, <3>2
  <2> QED  BY <1>1, <2>1, <2>2 DEF TakenIn
<1>3. CASE /\ l.cmd \in {"pnw", "plv"} /\ DOMAIN w.players = DOMAIN m.players \cup {l.player}
           /\ w.players[l.player].level = l.level
           /\ \A q \in DOMAIN m.players : q # l.player => w.players[q] = m.players[q]
  <2>1. CASE l.player = p
    <3>1. M = {<<"level", l.level>>}
      BY <1>1, <1>3, <2>1, MeansOfLevel
    <3>2. shownIn(w, i) = <<"level", l.level>>
      BY <1>3, <2>1, ShowsLevel
    <3> QED  BY <1>1, <3>1, <3>2 DEF TakenIn
  <2>2. CASE l.player # p
    <3>1. M = {}
      BY <1>1, <1>3, <2>2, MeansOfLevel
    <3>2. shownIn(w, i) = shownIn(m, i)
      <4>1. CASE p \in DOMAIN m.players
        BY <1>3, <2>2, <4>1, ShowsLevel
      <4>2. CASE p \notin DOMAIN m.players
        BY <1>3, <2>2, <4>2, ShowsLevel
      <4> QED  BY <4>1, <4>2
    <3> QED  BY <1>1, <3>1, <3>2 DEF TakenIn
  <2> QED  BY <2>1, <2>2
<1>4. CASE /\ l.cmd = "pdi" /\ DOMAIN w.players = DOMAIN m.players \ {l.player}
           /\ \A q \in DOMAIN w.players : w.players[q] = m.players[q]
  <2>1. CASE l.player = p
    <3>1. M = {Unknown}
      BY <1>1, <1>4, <2>1, MeansOfLevel
    <3>2. shownIn(w, i) = Unknown
      BY <1>4, <2>1, ShowsLevel
    <3> QED  BY <1>1, <3>1, <3>2 DEF TakenIn
  <2>2. CASE l.player # p
    <3>1. M = {}
      BY <1>1, <1>4, <2>2, MeansOfLevel
    <3>2. shownIn(w, i) = shownIn(m, i)
      BY <1>4, <2>2, ShowsLevel
    <3> QED  BY <1>1, <3>1, <3>2 DEF TakenIn
  <2> QED  BY <2>1, <2>2
<1> QED  BY <1>2, <1>3, <1>4

LEMMA LineHandled ==
  ASSUME NEW m \in GameState, NEW l, Line(l), Knows(m, l), NEW w, w = handleLine(m, l)
  PROVE  w \in GameState /\ \A i \in Item : TakenIn(m, l, w, i)
<1> DEFINE Tiles(k) ==
             \/ SameTiles(m, w) /\ l.cmd \notin {"msz", "bct"}
             \/ l.cmd = "msz" /\ k \in DOMAIN w.tiles /\ w.tiles[k] = NoStones
             \/ /\ l.cmd = "bct" /\ DOMAIN w.tiles = DOMAIN m.tiles
                /\ l.at = k => k \in DOMAIN w.tiles /\ w.tiles[k] = l.stones
                /\ l.at # k /\ k \in DOMAIN m.tiles => w.tiles[k] = m.tiles[k]
           Eggs ==
             \/ SameEggs(m, w) /\ l.cmd \notin {"enw", "ebo", "edi"}
             \/ /\ l.cmd = "enw" /\ DOMAIN w.eggs = DOMAIN m.eggs \cup {l.egg}
                /\ w.eggs[l.egg].at = l.at
                /\ \A x \in DOMAIN m.eggs : x # l.egg => w.eggs[x] = m.eggs[x]
             \/ /\ l.cmd \in {"ebo", "edi"} /\ DOMAIN w.eggs = DOMAIN m.eggs \ {l.egg}
                /\ \A x \in DOMAIN w.eggs : w.eggs[x] = m.eggs[x]
           Levels ==
             \/ SameLevels(m, w) /\ l.cmd \notin {"pnw", "plv", "pdi"}
             \/ /\ l.cmd \in {"pnw", "plv"}
                /\ DOMAIN w.players = DOMAIN m.players \cup {l.player}
                /\ w.players[l.player].level = l.level
                /\ \A q \in DOMAIN m.players : q # l.player => w.players[q] = m.players[q]
             \/ /\ l.cmd = "pdi" /\ DOMAIN w.players = DOMAIN m.players \ {l.player}
                /\ \A q \in DOMAIN w.players : w.players[q] = m.players[q]
           Handled == w \in GameState /\ (\A k \in Tile : Tiles(k)) /\ Eggs /\ Levels
<1>1. ASSUME Aside(l) PROVE Handled
  <2>1. w \in GameState /\ SameTiles(m, w) /\ SameEggs(m, w) /\ SameLevels(m, w)
    BY <1>1, AsideHandled
  <2>2. l.cmd \notin {"msz", "bct", "enw", "ebo", "edi", "pnw", "plv", "pdi"}
    BY <1>1, AsideCommands
  <2> QED  BY <2>1, <2>2
<1>2. ASSUME l = msz(Width, Height) PROVE Handled
  <2>1. l.cmd = "msz"
    BY <1>2 DEF msz
  <2>2. /\ w \in GameState /\ DOMAIN w.tiles = Tile /\ \A t \in Tile : w.tiles[t] = NoStones
        /\ SamePlayers(m, w) /\ SameEggs(m, w)
    BY <1>2, OnMsz
  <2> QED  BY <2>1, <2>2, LevelsSame
<1>3. ASSUME NEW t \in Tile, NEW q \in [Resource -> Nat], l = bct(t, q) PROVE Handled
  <2>1. l.cmd = "bct" /\ l.at = t /\ l.stones = q
    BY <1>3 DEF bct
  <2>2. t \in DOMAIN m.tiles
    BY <2>1 DEF Knows
  <2>3. /\ w \in GameState /\ DOMAIN w.tiles = DOMAIN m.tiles /\ w.tiles[t] = q
        /\ \A u \in DOMAIN m.tiles : u # t => w.tiles[u] = m.tiles[u]
        /\ SamePlayers(m, w) /\ SameEggs(m, w)
    BY <1>3, <2>2, OnBct
  <2> QED  BY <2>1, <2>2, <2>3, LevelsSame
<1>4. ASSUME NEW p \in Players, NEW t \in Tile, NEW o \in 1 .. 4, NEW v \in 1 .. MaxLevel,
             NEW name \in Teams, l = pnw(p, t, o, v, name)
      PROVE  Handled
  <2>1. l.cmd = "pnw" /\ l.player = p /\ l.at = t /\ l.level = v
    BY <1>4 DEF pnw
  <2>2. t \in DOMAIN m.tiles
    BY <2>1 DEF Knows
  <2>3. PICK shown : shown = [at |-> t, orientation |-> o, level |-> v, team |-> name,
                              inventory |-> NoStones, broadcastVersion |-> 0]
    OBVIOUS
  <2>4. Knows(m, l) /\ ShownAs(m, w, p, shown)
    BY <1>4, <2>2, <2>3, OnPnw
  <2> QED  BY <2>1, <2>3, <2>4 DEF ShownAs
<1>5. ASSUME NEW p \in Players, NEW v \in 1 .. MaxLevel, l = plv(p, v) PROVE Handled
  <2>1. l.cmd = "plv" /\ l.player = p /\ l.level = v
    BY <1>5 DEF plv
  <2>2. p \in DOMAIN m.players
    BY <2>1 DEF Knows
  <2>3. PICK shown : shown = [m.players[p] EXCEPT !.level = v]
    OBVIOUS
  <2>4. Knows(m, l) /\ ShownAs(m, w, p, shown)
    BY <1>5, <2>2, <2>3, OnPlv
  <2>5. shown.level = v
    BY <2>2, <2>3, PlayerIsShown DEF Shown
  <2> QED  BY <2>1, <2>4, <2>5 DEF ShownAs
<1>6. ASSUME NEW p \in Players, l = pdi(p) PROVE Handled
  <2>1. l.cmd = "pdi" /\ l.player = p
    BY <1>6 DEF pdi
  <2>2. p \in DOMAIN m.players
    BY <2>1 DEF Knows
  <2>3. /\ w \in GameState /\ DOMAIN w.players = DOMAIN m.players \ {p}
        /\ \A q \in DOMAIN w.players : w.players[q] = m.players[q]
        /\ SameTiles(m, w) /\ SameEggs(m, w)
    BY <1>6, <2>2, OnPdi
  <2> QED  BY <2>1, <2>3
<1>7. ASSUME NEW e \in Nat, NEW p \in Players \cup {Nobody}, NEW t \in Tile, l = enw(e, p, t)
      PROVE  Handled
  <2>1. l.cmd = "enw" /\ l.egg = e /\ l.at = t
    BY <1>7 DEF enw
  <2>2. t \in DOMAIN m.tiles
    BY <2>1 DEF Knows
  <2>3. /\ w \in GameState /\ DOMAIN w.eggs = DOMAIN m.eggs \cup {e} /\ w.eggs[e].at = t
        /\ \A x \in DOMAIN m.eggs : x # e => w.eggs[x] = m.eggs[x]
        /\ SameTiles(m, w) /\ SamePlayers(m, w)
    BY <1>7, <2>2, OnEnw
  <2> QED  BY <2>1, <2>3, LevelsSame
<1>8. ASSUME NEW e \in Nat, l = ebo(e) \/ l = edi(e) PROVE Handled
  <2>1. l.cmd \in {"ebo", "edi"} /\ l.egg = e
    BY <1>8 DEF ebo, edi
  <2>2. e \in DOMAIN m.eggs
    BY <2>1 DEF Knows
  <2>3. /\ w \in GameState /\ DOMAIN w.eggs = DOMAIN m.eggs \ {e}
        /\ \A x \in DOMAIN w.eggs : w.eggs[x] = m.eggs[x]
        /\ SameTiles(m, w) /\ SamePlayers(m, w)
    BY <1>8, <2>2, OnEggGone
  <2> QED  BY <2>1, <2>3, LevelsSame
<1>9. Handled
  <2> HIDE DEF Handled
  <2> QED  BY <1>1, <1>2, <1>3, <1>4, <1>5, <1>6, <1>7, <1>8 DEF Line
<1>10. ASSUME NEW i \in Item PROVE TakenIn(m, l, w, i)
  <2>1. ASSUME NEW t \in Tile, i = <<"stones", t>> PROVE TakenIn(m, l, w, i)
    <3>1. Tiles(t)
      BY <1>9
    <3> QED  BY <2>1, <3>1, TilesTakenIn
  <2>2. ASSUME NEW e \in 0 .. MaxEggs - 1, i = <<"egg", e>> PROVE TakenIn(m, l, w, i)
    BY <1>9, <2>2, EggsTakenIn
  <2>3. ASSUME NEW p \in Players, i = <<"level", p>> PROVE TakenIn(m, l, w, i)
    BY <1>9, <2>3, LevelsTakenIn
  <2> QED  BY <2>1, <2>2, <2>3, ItemKinds
<1> QED  BY <1>9, <1>10

-----------------------------------------------------------------------------
(* The truth, item by item. *)
LEMMA TruthOfTile ==
  ASSUME NEW t \in Tile, NEW i, i = <<"stones", t>>
  PROVE  i \in Item /\ gameTruth[i] = <<"stones", stones[t]>>
<1>1. i \in Item
  BY DEF Item
<1> QED  BY <1>1 DEF gameTruth

LEMMA TruthOfLevel ==
  ASSUME NEW p \in Players, NEW i, i = <<"level", p>>
  PROVE  /\ i \in Item
         /\ gameTruth[i] = IF p \in Known THEN <<"level", lvl[p]>> ELSE Unknown
<1>1. i \in Item
  BY DEF Item
<1>2. i[1] = "level" /\ i[2] = p
  OBVIOUS
<1>3. p \in Known <=> InPlay(p) \/ p \in quit
  BY DEF Known, Alive
<1> QED  BY <1>1, <1>2, <1>3 DEF gameTruth

LEMMA TruthOfEgg ==
  ASSUME EggsApart, NEW n \in 0 .. MaxEggs - 1, NEW i, i = <<"egg", n>>
  PROVE  /\ i \in Item
         /\ \A e \in eggs : e.id = n => gameTruth[i] = <<"at", e.tile>>
         /\ n \notin EggIds => gameTruth[i] = Unknown
<1>1. i \in Item
  BY DEF Item
<1>2. i[1] = "egg" /\ i[2] = n
  OBVIOUS
<1>3. gameTruth[i] = IF \E e \in eggs : e.id = n THEN <<"at", EggAt(n)>> ELSE Unknown
  BY <1>1, <1>2 DEF gameTruth
<1>4. ASSUME NEW e \in eggs, e.id = n PROVE EggAt(n) = e.tile
  <2>1. PICK f : f = CHOOSE x \in eggs : x.id = n
    OBVIOUS
  <2>2. f \in eggs /\ f.id = n
    BY <1>4, <2>1
  <2>3. f = e
    BY <1>4, <2>2 DEF EggsApart
  <2> QED  BY <2>1, <2>3 DEF EggAt
<1>5. \A e \in eggs : e.id = n => gameTruth[i] = <<"at", e.tile>>
  BY <1>3, <1>4
<1>6. n \notin EggIds => gameTruth[i] = Unknown
  BY <1>3 DEF EggIds
<1> QED  BY <1>1, <1>5, <1>6

LEMMA TruthType == GameInv => gameTruth \in [Item -> Value]
<1> SUFFICES ASSUME GameInv, NEW i \in Item PROVE gameTruth[i] \in Value
  BY DEF gameTruth
<1>1. ASSUME NEW t \in Tile, i = <<"stones", t>> PROVE gameTruth[i] \in Value
  <2>1. stones[t] \in [Resource -> Nat] /\ gameTruth[i] = <<"stones", stones[t]>>
    BY <1>1, TruthOfTile DEF GameInv, WorldInv, WorldTypeOK
  <2> QED  BY <2>1 DEF Value
<1>2. ASSUME NEW n \in 0 .. MaxEggs - 1, i = <<"egg", n>> PROVE gameTruth[i] \in Value
  <2>1. /\ \A e \in eggs : e.id = n => gameTruth[i] = <<"at", e.tile>>
        /\ n \notin EggIds => gameTruth[i] = Unknown
    BY <1>2, TruthOfEgg DEF GameInv
  <2>2. \A e \in eggs : e.tile \in Tile
    BY DEF GameInv, WorldInv, WorldTypeOK, Egg
  <2> QED  BY <2>1, <2>2 DEF Value, EggIds
<1>3. ASSUME NEW p \in Players, i = <<"level", p>> PROVE gameTruth[i] \in Value
  <2>1. /\ lvl[p] \in 1 .. MaxLevel
        /\ gameTruth[i] = <<"level", lvl[p]>> \/ gameTruth[i] = Unknown
    BY <1>3, TruthOfLevel DEF GameInv, WorldInv, WorldTypeOK
  <2> QED  BY <2>1 DEF Value
<1> QED  BY <1>1, <1>2, <1>3, ItemKinds

LEMMA GameStateParts ==
  ASSUME NEW m \in GameState
  PROVE  m.tiles \in Ground /\ m.eggs \in Nest
<1>1. m.tiles \in Ground
  BY Zenon DEF GameState
<1>2. m.eggs \in Nest
  BY Zenon DEF GameState
<1> QED  BY <1>1, <1>2

LEMMA MirrorType ==
  ASSUME view \in GameState
  PROVE  mirror \in [Item -> Value]
<1> SUFFICES ASSUME NEW i \in Item PROVE shownIn(view, i) \in Value
  BY DEF mirror
<1>1. ASSUME NEW t \in Tile, i = <<"stones", t>> PROVE shownIn(view, i) \in Value
  <2>1. PICK f : f = view.tiles /\ f \in Partial(Tile, [Resource -> Nat])
    BY GameStateParts DEF Ground
  <2>2. t \in DOMAIN f => f[t] \in [Resource -> Nat]
    BY <2>1 DEF Partial
  <2>3. PICK q \in [Resource -> Nat] : q = IF t \in DOMAIN f THEN f[t] ELSE NoStones
    BY <2>2 DEF NoStones
  <2>4. shownIn(view, i) = <<"stones", q>>
    BY <1>1, <2>1, <2>3, ShowsTile
  <2> QED  BY <2>4 DEF Value
<1>2. ASSUME NEW n \in 0 .. MaxEggs - 1, i = <<"egg", n>> PROVE shownIn(view, i) \in Value
  <2>1. PICK f : f = view.eggs /\ f \in Partial(Nat, [player : Players \cup {Nobody}, at : Tile])
    BY GameStateParts DEF Nest
  <2>2. n \in DOMAIN f => f[n].at \in Tile
    BY <2>1 DEF Partial
  <2>3. CASE n \in DOMAIN f
    <3>1. shownIn(view, i) = <<"at", f[n].at>>
      BY <1>2, <2>1, <2>3, ShowsEgg
    <3> QED  BY <2>2, <2>3, <3>1 DEF Value
  <2>4. CASE n \notin DOMAIN f
    <3>1. shownIn(view, i) = Unknown
      BY <1>2, <2>1, <2>4, ShowsEgg
    <3> QED  BY <3>1 DEF Value
  <2> QED  BY <2>3, <2>4
<1>3. ASSUME NEW p \in Players, i = <<"level", p>> PROVE shownIn(view, i) \in Value
  <2>1. CASE p \in DOMAIN view.players
    <3>1. PICK v : v = view.players[p].level /\ v \in 1 .. MaxLevel
      BY <2>1, PlayerIsShown DEF Shown
    <3>2. shownIn(view, i) = <<"level", v>>
      BY <1>3, <2>1, <3>1, ShowsLevel
    <3> QED  BY <3>1, <3>2 DEF Value
  <2>2. CASE p \notin DOMAIN view.players
    <3>1. shownIn(view, i) = Unknown
      BY <1>3, <2>2, ShowsLevel
    <3> QED  BY <3>1 DEF Value
  <2> QED  BY <2>1, <2>2
<1> QED  BY <1>1, <1>2, <1>3, ItemKinds

(* A true line says of an item what is so, or nothing. *)
LEMMA TrueLine ==
  ASSUME GameInv, NEW l, IsTrue(l)
  PROVE  /\ Line(l)
         /\ \A i \in Item : Meaning(l)[i] = {} \/ Meaning(l)[i] = {gameTruth[i]}
<1>1. /\ \A p \in Alive : p \in Players /\ lvl[p] \in 1 .. MaxLevel /\ team[p] \in Teams
      /\ stones \in [Tile -> [Resource -> Nat]]
      /\ \A e \in eggs : e.id \in Nat /\ e.tile \in Tile
  <2>1. Alive \subseteq hatched
    BY AliveHatched DEF GameInv
  <2> QED  BY <2>1 DEF GameInv, WorldInv, WorldTypeOK, Egg
<1>2. Line(l)
  BY <1>1 DEF IsTrue, Line, Known
<1>3. ASSUME NEW i \in Item, NEW t \in Tile, i = <<"stones", t>>
      PROVE  Meaning(l)[i] = {} \/ Meaning(l)[i] = {gameTruth[i]}
  <2>1. l.cmd # "msz" /\ (l.cmd = "bct" => l.stones = stones[l.at])
    BY AsideCommands DEF IsTrue, bct, pnw, plv, pdi, enw, ebo, edi
  <2>2. gameTruth[i] = <<"stones", stones[t]>>
    BY <1>3, TruthOfTile
  <2> QED  BY <1>3, <2>1, <2>2, MeansOfTile
<1>4. ASSUME NEW i \in Item, NEW n \in 0 .. MaxEggs - 1, i = <<"egg", n>>
      PROVE  Meaning(l)[i] = {} \/ Meaning(l)[i] = {gameTruth[i]}
  <2>1. /\ l.cmd = "enw" => \E e \in eggs : e.id = l.egg /\ e.tile = l.at
        /\ l.cmd \in {"ebo", "edi"} => l.egg \notin EggIds
    BY AsideCommands DEF IsTrue, bct, pnw, plv, pdi, enw, ebo, edi
  <2>2. /\ \A e \in eggs : e.id = n => gameTruth[i] = <<"at", e.tile>>
        /\ n \notin EggIds => gameTruth[i] = Unknown
    BY <1>4, TruthOfEgg DEF GameInv
  <2>3. CASE l.cmd = "enw" /\ l.egg = n
    <3>1. Meaning(l)[i] = {<<"at", l.at>>}
      BY <1>4, <2>3, MeansOfEgg
    <3> QED  BY <2>1, <2>2, <2>3, <3>1
  <2>4. CASE l.cmd \in {"ebo", "edi"} /\ l.egg = n
    <3>1. Meaning(l)[i] = {Unknown}
      BY <1>4, <2>4, MeansOfEgg
    <3> QED  BY <2>1, <2>2, <2>4, <3>1
  <2>5. CASE ~(l.cmd \in {"enw", "ebo", "edi"} /\ l.egg = n)
    BY <1>4, <2>5, MeansOfEgg
  <2> QED  BY <2>3, <2>4, <2>5
<1>5. ASSUME NEW i \in Item, NEW p \in Players, i = <<"level", p>>
      PROVE  Meaning(l)[i] = {} \/ Meaning(l)[i] = {gameTruth[i]}
  <2>1. /\ l.cmd \in {"pnw", "plv"} => l.player \in Known /\ l.level = lvl[l.player]
        /\ l.cmd = "pdi" => l.player \notin Known
    BY AsideCommands DEF IsTrue, bct, pnw, plv, pdi, enw, ebo, edi, Known
  <2>2. gameTruth[i] = IF p \in Known THEN <<"level", lvl[p]>> ELSE Unknown
    BY <1>5, TruthOfLevel
  <2>3. CASE l.cmd \in {"pnw", "plv"} /\ l.player = p
    <3>1. Meaning(l)[i] = {<<"level", l.level>>}
      BY <1>5, <2>3, MeansOfLevel
    <3> QED  BY <2>1, <2>2, <2>3, <3>1
  <2>4. CASE l.cmd = "pdi" /\ l.player = p
    <3>1. Meaning(l)[i] = {Unknown}
      BY <1>5, <2>4, MeansOfLevel
    <3> QED  BY <2>1, <2>2, <2>4, <3>1
  <2>5. CASE ~(l.cmd \in {"pnw", "plv", "pdi"} /\ l.player = p)
    BY <1>5, <2>5, MeansOfLevel
  <2> QED  BY <2>3, <2>4, <2>5
<1> QED  BY <1>2, <1>3, <1>4, <1>5, ItemKinds

(* Updates that are all true, and miss no item that has changed, lead to the truth. *)
LEMMA NewsLeads ==
  ASSUME NEW s \in Seq(R!Update), NEW a, NEW b,
         \A k \in DOMAIN s : \A i \in Item : s[k][i] = {} \/ s[k][i] = {b[i]},
         \A i \in Item : a[i] # b[i] => R!Told(s, i)
  PROVE  R!Leads(s, a, b)
<1> SUFFICES ASSUME NEW i \in Item, R!Told(s, i) PROVE R!Says(s, i, b[i])
  BY DEF R!Leads
<1>1. PICK n \in Nat : n = Len(s) /\ DOMAIN s = 1 .. n
  OBVIOUS
<1>2. PICK D : D = {d \in 0 .. n - 1 : s[n - d][i] # {}}
  OBVIOUS
<1>3. D \subseteq Nat /\ D # {}
  <2>1. PICK k \in 1 .. n : s[k][i] # {}
    BY <1>1 DEF R!Told
  <2>2. PICK d \in 0 .. n - 1 : d = n - k /\ n - d = k
    BY <2>1
  <2>3. d \in D
    BY <1>2, <2>1, <2>2
  <2>4. \A e \in D : e \in 0 .. n - 1
    BY <1>2
  <2>5. \A e \in 0 .. n - 1 : e \in Nat
    OBVIOUS
  <2> QED  BY <2>3, <2>4, <2>5
<1>4. PICK d \in D : \A e \in D : d <= e
  BY <1>3, SmallestOf
<1>5. PICK k \in 1 .. n : k = n - d /\ s[k][i] # {}
  BY <1>2, <1>4
<1>6. ASSUME NEW j \in 1 .. n, j > k PROVE s[j][i] = {}
  <2>0. d \in 0 .. n - 1
    BY <1>2, <1>4
  <2>1. PICK e \in 0 .. n - 1 : e = n - j /\ n - e = j /\ e < d
    BY <1>5, <1>6, <2>0
  <2>2. e \notin D
    BY <1>4, <2>0, <2>1
  <2> QED  BY <1>2, <2>1, <2>2
<1> QED  BY <1>1, <1>5, <1>6 DEF R!Says

-----------------------------------------------------------------------------
(***************************************************************************)
(* What lines mean together, and what makes them a publication.            *)
(***************************************************************************)
Meanings(s) == [k \in DOMAIN s |-> Meaning(s[k])]

LinesOnly(s) == (\E S : s \in Seq(S)) /\ \A k \in DOMAIN s : Line(s[k])

Truths(s) == (\E S : s \in Seq(S)) /\ \A k \in DOMAIN s : IsTrue(s[k])

NamesTile(s, t)  == \E k \in DOMAIN s : s[k].cmd = "bct" /\ s[k].at = t
NamesEgg(s, n)   == \E k \in DOMAIN s : s[k].cmd \in {"enw", "ebo", "edi"} /\ s[k].egg = n
NamesLevel(s, p) == \E k \in DOMAIN s : s[k].cmd \in {"pnw", "plv", "pdi"} /\ s[k].player = p

(* Every tile, egg and level that a step changes is named in s. *)
Tells(s) ==
  /\ \A t \in Tile : stones'[t] = stones[t] \/ NamesTile(s, t)
  /\ \A e : (e \in eggs <=> e \in eggs') \/ NamesEgg(s, e.id)
  /\ \A p \in Players :
       ((p \in Known <=> p \in Known') /\ lvl'[p] = lvl[p]) \/ NamesLevel(s, p)

Reports == \E s : wire' = wire \o s /\ Truths(s)' /\ Tells(s)

LEMMA SecondPart ==
  ASSUME NEW S, NEW s \in Seq(S), NEW t \in Seq(S), NEW a, a = Len(s),
         NEW j \in 1 .. Len(t), NEW k, k = a + j
  PROVE  (s \o t)[k] = t[j]
<1>1. a \in Nat /\ j \in Nat /\ j > 0 /\ Len(t) \in Nat
  OBVIOUS
<1>2. k \in 1 .. a + Len(t) /\ k > a /\ k - a = j
  BY <1>1
<1> QED  BY <1>2

LEMMA MeaningsType ==
  ASSUME NEW s, LinesOnly(s)
  PROVE  Meanings(s) \in Seq(R!Update) /\ Len(Meanings(s)) = Len(s)
<1>1. PICK n \in Nat : n = Len(s) /\ DOMAIN s = 1 .. n
  BY DEF LinesOnly
<1>2. PICK f : f = Meanings(s)
  OBVIOUS
<1>3. f \in [1 .. n -> R!Update]
  BY <1>1, <1>2, LineMeans DEF Meanings, LinesOnly
<1> QED  BY <1>1, <1>2, <1>3

LEMMA MeaningsOn ==
  ASSUME NEW s, LinesOnly(s), NEW t, LinesOnly(t)
  PROVE  LinesOnly(s \o t) /\ Meanings(s \o t) = Meanings(s) \o Meanings(t)
<1>1. PICK S : s \in Seq(S) /\ t \in Seq(S)
  <2>1. PICK A, B : s \in Seq(A) /\ t \in Seq(B)
    BY DEF LinesOnly
  <2>2. s \in Seq(A \cup B) /\ t \in Seq(A \cup B)
    BY <2>1
  <2> QED  BY <2>2
<1>2. PICK a \in Nat, b \in Nat : a = Len(s) /\ b = Len(t)
  BY <1>1
<1>3. PICK all : all = s \o t
  OBVIOUS
<1>4. /\ DOMAIN all = 1 .. a + b /\ all \in Seq(S)
      /\ \A k \in 1 .. a : all[k] = s[k]
      /\ \A k \in 1 .. a + b : k > a => k - a \in 1 .. b /\ all[k] = t[k - a]
  BY <1>1, <1>2, <1>3
<1>5. ASSUME NEW k \in 1 .. a + b PROVE Line(all[k])
  <2>1. DOMAIN s = 1 .. a /\ DOMAIN t = 1 .. b
    BY <1>1, <1>2
  <2>2. CASE k <= a
    BY <1>4, <2>1, <2>2 DEF LinesOnly
  <2>3. CASE k > a
    BY <1>4, <2>1, <2>3 DEF LinesOnly
  <2> QED  BY <2>2, <2>3
<1>6. PICK f, g : f = Meanings(s) /\ g = Meanings(t)
  OBVIOUS
<1>7. f \in Seq(R!Update) /\ g \in Seq(R!Update) /\ Len(f) = a /\ Len(g) = b
  BY <1>2, <1>6, MeaningsType
<1>8. /\ \A k \in 1 .. a : f[k] = Meaning(s[k])
      /\ \A k \in 1 .. b : g[k] = Meaning(t[k])
  BY <1>1, <1>2, <1>6 DEF Meanings
<1>9. PICK h : h = f \o g
  OBVIOUS
<1>10. h = [k \in 1 .. a + b |-> h[k]]
  <2>1. h \in Seq(R!Update) /\ Len(h) = a + b
    BY <1>7, <1>9
  <2> QED  BY <2>1
<1>11. ASSUME NEW k \in 1 .. a + b PROVE h[k] = Meaning(all[k])
  <2>1. CASE k <= a
    <3>1. k \in 1 .. a /\ h[k] = f[k]
      BY <1>7, <1>9, <2>1
    <3> QED  BY <1>4, <1>8, <3>1
  <2>2. CASE k > a
    <3>1. PICK j \in 1 .. b : j = k - a /\ all[k] = t[j]
      BY <1>4, <2>2
    <3>2. k = a + j
      BY <3>1
    <3>3. (f \o g)[k] = g[j]
      BY <1>7, <3>2, SecondPart
    <3> QED  BY <1>8, <1>9, <3>1, <3>3
  <2> QED  BY <2>1, <2>2
<1>12. Meanings(all) = [k \in 1 .. a + b |-> Meaning(all[k])]
  BY <1>4 DEF Meanings
<1>13. Meanings(all) = h
  BY <1>10, <1>11, <1>12
<1>14. LinesOnly(all)
  BY <1>4, <1>5 DEF LinesOnly
<1> QED  BY <1>3, <1>6, <1>9, <1>13, <1>14

(* What a longer log has over a shorter one. *)
LEMMA NewsAre ==
  ASSUME NEW S, NEW a \in Seq(S), NEW b \in Seq(S), NEW c, c = a \o b
  PROVE  Len(a) <= Len(c) /\ SubSeq(c, Len(a) + 1, Len(c)) = b
<1>1. PICK m \in Nat, n \in Nat : m = Len(a) /\ n = Len(b) /\ Len(c) = m + n
  OBVIOUS
<1>2. \A k \in 1 .. n : c[m + k] = b[k]
  <2> SUFFICES ASSUME NEW k \in 1 .. n PROVE c[m + k] = b[k]
    OBVIOUS
  <2>1. m + k \in 1 .. m + n /\ m + k > m /\ (m + k) - m = k
    OBVIOUS
  <2> QED  BY <1>1, <2>1
<1>3. PICK d : d = SubSeq(c, m + 1, m + n)
  OBVIOUS
<1>4. d = [k \in 1 .. n |-> c[m + k]]
  BY <1>1, <1>3
<1>5. d = b
  BY <1>1, <1>2, <1>4
<1>6. Len(a) <= Len(c)
  BY <1>1
<1>7. SubSeq(c, Len(a) + 1, Len(c)) = d
  BY <1>1, <1>3
<1> QED  BY <1>5, <1>6, <1>7

LEMMA MeaningsTail ==
  ASSUME NEW s, LinesOnly(s), s # <<>>
  PROVE  /\ LinesOnly(Tail(s)) /\ Line(Head(s)) /\ Meanings(s) # <<>>
         /\ Head(Meanings(s)) = Meaning(Head(s)) /\ Tail(Meanings(s)) = Meanings(Tail(s))
<1>1. PICK S : s \in Seq(S)
  BY DEF LinesOnly
<1>2. PICK n \in Nat : n + 1 = Len(s) /\ DOMAIN s = 1 .. n + 1
  <2>1. PICK x \in Nat : x = Len(s) /\ x # 0 /\ DOMAIN s = 1 .. x
    BY <1>1
  <2>2. PICK n \in Nat : n + 1 = x
    <3>1. x - 1 \in Nat /\ (x - 1) + 1 = x
      BY <2>1
    <3> QED  BY <3>1
  <2> QED  BY <2>1, <2>2
<1>3. PICK t : t = Tail(s)
  OBVIOUS
<1>4. /\ t \in Seq(S) /\ DOMAIN t = 1 .. n /\ Head(s) = s[1]
      /\ \A k \in 1 .. n : t[k] = s[k + 1]
  BY <1>1, <1>2, <1>3
<1>5. LinesOnly(t) /\ Line(Head(s))
  BY <1>2, <1>4 DEF LinesOnly
<1>6. PICK f : f = Meanings(s) /\ f \in Seq(R!Update) /\ Len(f) = n + 1
  BY <1>2, MeaningsType
<1>7. \A k \in 1 .. n + 1 : f[k] = Meaning(s[k])
  BY <1>2, <1>6 DEF Meanings
<1>8. f # <<>> /\ Head(f) = f[1]
  BY <1>6
<1>9. Head(f) = Meaning(Head(s))
  BY <1>4, <1>7, <1>8
<1>10. PICK g : g = Tail(f)
  OBVIOUS
<1>11. g = [k \in 1 .. n |-> g[k]] /\ \A k \in 1 .. n : g[k] = f[k + 1]
  <2>1. g \in Seq(R!Update) /\ Len(g) = n
    BY <1>6, <1>8, <1>10
  <2>2. \A k \in 1 .. n : g[k] = f[k + 1]
    BY <1>6, <1>8, <1>10
  <2> QED  BY <2>1, <2>2
<1>12. Meanings(t) = [k \in 1 .. n |-> Meaning(t[k])]
  BY <1>4 DEF Meanings
<1>13. \A k \in 1 .. n : g[k] = Meaning(t[k])
  BY <1>4, <1>7, <1>11
<1>14. g = Meanings(t)
  BY <1>11, <1>12, <1>13
<1> QED  BY <1>3, <1>5, <1>6, <1>8, <1>9, <1>10, <1>14

(* One list of lines after another. *)
LEMMA NamesOn ==
  ASSUME NEW S, NEW s \in Seq(S), NEW t \in Seq(S), NEW all, all = s \o t
  PROVE  /\ \A x : NamesTile(s, x) \/ NamesTile(t, x) => NamesTile(all, x)
         /\ \A x : NamesEgg(s, x) \/ NamesEgg(t, x) => NamesEgg(all, x)
         /\ \A x : NamesLevel(s, x) \/ NamesLevel(t, x) => NamesLevel(all, x)
<1>1. PICK a \in Nat, b \in Nat : a = Len(s) /\ b = Len(t)
  OBVIOUS
<1>2. \A k \in DOMAIN s : k \in DOMAIN all /\ all[k] = s[k]
  BY <1>1
<1>3. \A k \in DOMAIN t : a + k \in DOMAIN all /\ all[a + k] = t[k]
  <2> SUFFICES ASSUME NEW k \in 1 .. b PROVE a + k \in DOMAIN all /\ all[a + k] = t[k]
    BY <1>1
  <2>1. a + k \in 1 .. a + b /\ a + k > a /\ (a + k) - a = k
    OBVIOUS
  <2> QED  BY <1>1, <2>1
<1>4. \A k \in DOMAIN t : \E j \in DOMAIN all : all[j] = t[k]
  BY <1>3
<1> QED  BY <1>2, <1>4 DEF NamesTile, NamesEgg, NamesLevel

LEMMA TruthsOn ==
  ASSUME NEW s, Truths(s)', NEW t, Truths(t)', NEW all, all = s \o t
  PROVE  Truths(all)'
<1>1. PICK A, B : s \in Seq(A) /\ t \in Seq(B)
  BY DEF Truths
<1>2. PICK S : s \in Seq(S) /\ t \in Seq(S)
  <2>1. s \in Seq(A \cup B) /\ t \in Seq(A \cup B)
    BY <1>1
  <2> QED  BY <2>1
<1>3. PICK a \in Nat, b \in Nat : a = Len(s) /\ b = Len(t)
  BY <1>2
<1>4. /\ DOMAIN all = 1 .. a + b /\ all \in Seq(S)
      /\ \A k \in 1 .. a : all[k] = s[k]
      /\ \A k \in 1 .. a + b : k > a => k - a \in 1 .. b /\ all[k] = t[k - a]
  BY <1>2, <1>3
<1>5. DOMAIN s = 1 .. a /\ DOMAIN t = 1 .. b
  BY <1>2, <1>3
<1>6. \A k \in 1 .. a : IsTrue(s[k])'
  BY <1>5 DEF Truths
<1>7. \A k \in 1 .. b : IsTrue(t[k])'
  BY <1>5 DEF Truths
<1>8. ASSUME NEW k \in 1 .. a + b PROVE IsTrue(all[k])'
  <2>1. CASE k <= a
    <3>1. k \in 1 .. a /\ all[k] = s[k]
      BY <1>4, <2>1
    <3> QED  BY <1>6, <3>1
  <2>2. CASE k > a
    <3>1. PICK j \in 1 .. b : all[k] = t[j]
      BY <1>4, <2>2
    <3> QED  BY <1>7, <3>1
  <2>3. k <= a \/ k > a
    OBVIOUS
  <2> QED  BY <2>1, <2>2, <2>3
<1>9. \A k \in DOMAIN all : IsTrue(all[k])'
  BY <1>4, <1>8
<1>10. \E T : all \in Seq(T)
  BY <1>4
<1> QED  BY <1>9, <1>10 DEF Truths

-----------------------------------------------------------------------------
(* The truth as one formula, and what true lines say of it. *)
TruthIs ==
  /\ gameTruth \in [Item -> Value]
  /\ \A t \in Tile : gameTruth[<<"stones", t>>] = <<"stones", stones[t]>>
  /\ \A n \in 0 .. MaxEggs - 1 :
       /\ \A e \in eggs : e.id = n => gameTruth[<<"egg", n>>] = <<"at", e.tile>>
       /\ n \notin EggIds => gameTruth[<<"egg", n>>] = Unknown
  /\ \A p \in Players :
       gameTruth[<<"level", p>>] = IF p \in Known THEN <<"level", lvl[p]>> ELSE Unknown

TrueLinesSay ==
  \A l : IsTrue(l) =>
    /\ Line(l)
    /\ \A i \in Item : Meaning(l)[i] = {} \/ Meaning(l)[i] = {gameTruth[i]}

LEMMA TruthKnown == GameInv => TruthIs /\ TrueLinesSay
<1> SUFFICES ASSUME GameInv PROVE TruthIs /\ TrueLinesSay
  OBVIOUS
<1>1. gameTruth \in [Item -> Value]
  BY TruthType
<1>2. ASSUME NEW t \in Tile PROVE gameTruth[<<"stones", t>>] = <<"stones", stones[t]>>
  <2>1. PICK i : i = <<"stones", t>>
    OBVIOUS
  <2> QED  BY <2>1, TruthOfTile
<1>3. ASSUME NEW n \in 0 .. MaxEggs - 1
      PROVE  /\ \A e \in eggs : e.id = n => gameTruth[<<"egg", n>>] = <<"at", e.tile>>
             /\ n \notin EggIds => gameTruth[<<"egg", n>>] = Unknown
  <2>1. PICK i : i = <<"egg", n>>
    OBVIOUS
  <2> QED  BY <2>1, TruthOfEgg DEF GameInv
<1>4. ASSUME NEW p \in Players
      PROVE  gameTruth[<<"level", p>>] = IF p \in Known THEN <<"level", lvl[p]>> ELSE Unknown
  <2>1. PICK i : i = <<"level", p>>
    OBVIOUS
  <2> QED  BY <2>1, TruthOfLevel
<1>5. TrueLinesSay
  BY TrueLine DEF TrueLinesSay
<1> QED  BY <1>1, <1>2, <1>3, <1>4, <1>5 DEF TruthIs

(* What is named is spoken of. *)
SpeaksOf(s, i) == \E k \in DOMAIN s : Meaning(s[k])[i] # {}

LEMMA TileNamed ==
  ASSUME NEW s, NEW t \in Tile, NamesTile(s, t), NEW i, i = <<"stones", t>>
  PROVE  SpeaksOf(s, i)
<1>1. PICK k \in DOMAIN s : s[k].cmd = "bct" /\ s[k].at = t
  BY DEF NamesTile
<1>2. PICK l : l = s[k]
  OBVIOUS
<1>3. Meaning(l)[i] = {<<"stones", l.stones>>}
  BY <1>1, <1>2, MeansOfTile
<1>4. Meaning(l)[i] # {}
  BY <1>3
<1> QED  BY <1>1, <1>2, <1>4 DEF SpeaksOf

LEMMA EggNamed ==
  ASSUME NEW s, NEW n \in 0 .. MaxEggs - 1, NamesEgg(s, n), NEW i, i = <<"egg", n>>
  PROVE  SpeaksOf(s, i)
<1>1. PICK k \in DOMAIN s : s[k].cmd \in {"enw", "ebo", "edi"} /\ s[k].egg = n
  BY DEF NamesEgg
<1>2. PICK l : l = s[k]
  OBVIOUS
<1>3. Meaning(l)[i] = {<<"at", l.at>>} \/ Meaning(l)[i] = {Unknown}
  BY <1>1, <1>2, MeansOfEgg
<1>4. Meaning(l)[i] # {}
  BY <1>3
<1> QED  BY <1>1, <1>2, <1>4 DEF SpeaksOf

LEMMA LevelNamed ==
  ASSUME NEW s, NEW p \in Players, NamesLevel(s, p), NEW i, i = <<"level", p>>
  PROVE  SpeaksOf(s, i)
<1>1. PICK k \in DOMAIN s : s[k].cmd \in {"pnw", "plv", "pdi"} /\ s[k].player = p
  BY DEF NamesLevel
<1>2. PICK l : l = s[k]
  OBVIOUS
<1>3. Meaning(l)[i] = {<<"level", l.level>>} \/ Meaning(l)[i] = {Unknown}
  BY <1>1, <1>2, MeansOfLevel
<1>4. Meaning(l)[i] # {}
  BY <1>3
<1> QED  BY <1>1, <1>2, <1>4 DEF SpeaksOf

(* An item of which no line says anything is what it was. *)
LEMMA Untold ==
  ASSUME TruthIs, TruthIs', NEW s, Tells(s), NEW i \in Item, gameTruth'[i] # gameTruth[i]
  PROVE  SpeaksOf(s, i)
<1>1. ASSUME NEW t \in Tile, i = <<"stones", t>> PROVE SpeaksOf(s, i)
  <2>1. stones'[t] # stones[t]
    BY <1>1 DEF TruthIs
  <2> QED  BY <1>1, <2>1, TileNamed DEF Tells
<1>2. ASSUME NEW n \in 0 .. MaxEggs - 1, i = <<"egg", n>> PROVE SpeaksOf(s, i)
  <2>1. NamesEgg(s, n)
    <3> SUFFICES ASSUME ~NamesEgg(s, n) PROVE gameTruth'[i] = gameTruth[i]
      OBVIOUS
    <3>1. \A e : e.id = n => (e \in eggs <=> e \in eggs')
      BY DEF Tells
    <3>2. CASE n \in EggIds
      <4>1. PICK e \in eggs : e.id = n
        BY <3>2 DEF EggIds
      <4>2. e \in eggs'
        BY <3>1, <4>1
      <4> QED  BY <1>2, <4>1, <4>2 DEF TruthIs
    <3>3. CASE n \notin EggIds
      <4>1. n \notin EggIds'
        BY <3>1, <3>3 DEF EggIds
      <4> QED  BY <1>2, <3>3, <4>1 DEF TruthIs
    <3> QED  BY <3>2, <3>3
  <2> QED  BY <1>2, <2>1, EggNamed
<1>3. ASSUME NEW p \in Players, i = <<"level", p>> PROVE SpeaksOf(s, i)
  <2>1. ~((p \in Known <=> p \in Known') /\ lvl'[p] = lvl[p])
    BY <1>3 DEF TruthIs
  <2> QED  BY <1>3, <2>1, LevelNamed DEF Tells
<1> QED  BY <1>1, <1>2, <1>3, ItemKinds

(* True lines that name all that differs from b lead to what is so. *)
LEMMA TruthsLead ==
  ASSUME TrueLinesSay', NEW s, Truths(s)', NEW b,
         \A i \in Item : b[i] # gameTruth'[i] => SpeaksOf(s, i)
  PROVE  LinesOnly(s) /\ R!Leads(Meanings(s), b, gameTruth')
<1>1. ASSUME NEW k \in DOMAIN s
      PROVE  /\ Line(s[k])
             /\ \A i \in Item : Meaning(s[k])[i] = {} \/ Meaning(s[k])[i] = {gameTruth'[i]}
  BY DEF Truths, TrueLinesSay
<1>2. LinesOnly(s)
  BY <1>1 DEF LinesOnly, Truths
<1>3. PICK M : M = Meanings(s) /\ M \in Seq(R!Update)
  BY <1>2, MeaningsType
<1>4. DOMAIN M = DOMAIN s /\ \A k \in DOMAIN s : M[k] = Meaning(s[k])
  BY <1>3 DEF Meanings
<1>5. PICK c : c = gameTruth'
  OBVIOUS
<1>6. \A k \in DOMAIN M : \A i \in Item : M[k][i] = {} \/ M[k][i] = {c[i]}
  BY <1>1, <1>4, <1>5
<1>7. \A i \in Item : b[i] # c[i] => R!Told(M, i)
  BY <1>4, <1>5 DEF R!Told, SpeaksOf
<1> QED  BY <1>2, <1>3, <1>5, <1>6, <1>7, NewsLeads

(* A step that is reported is a publication. *)
LEMMA Published ==
  ASSUME GameInv, GameInv', LinesOnly(wire), Reports, connected, connected' = connected,
         view' = view
  PROVE  R!Publish /\ LinesOnly(wire')
<1>1. PICK s : wire' = wire \o s /\ Truths(s)' /\ Tells(s)
  BY DEF Reports
<1>2. TruthIs /\ TruthIs' /\ TrueLinesSay'
  BY TruthKnown, PTL
<1>3. LinesOnly(s) /\ R!Leads(Meanings(s), gameTruth, gameTruth')
  BY <1>1, <1>2, Untold, TruthsLead
<1>4. PICK old, new, all : /\ old = meanings /\ new = Meanings(s) /\ all = meanings'
                           /\ old = Meanings(wire) /\ all = Meanings(wire')
  BY DEF meanings, Meanings
<1>5. LinesOnly(wire') /\ all = old \o new
  BY <1>1, <1>3, <1>4, MeaningsOn
<1>6. old \in Seq(R!Update) /\ new \in Seq(R!Update) /\ all \in Seq(R!Update)
  BY <1>3, <1>4, <1>5, MeaningsType
<1>7. Len(old) <= Len(all) /\ SubSeq(all, Len(old) + 1, Len(all)) = new
  BY <1>5, <1>6, NewsAre
<1>8. gameTruth' \in [Item -> Value]
  BY <1>2 DEF TruthIs
<1>9. mirror' = mirror
  BY DEF mirror
<1>10. R!News = new
  BY <1>4, <1>7 DEF R!News
<1> QED  BY <1>3, <1>4, <1>5, <1>6, <1>7, <1>8, <1>9, <1>10 DEF R!Publish

(* Before anyone is connected the game goes on by itself. *)
LEMMA Unpublished ==
  ASSUME GameInv', ~connected, UNCHANGED <<connected, wire, view>>
  PROVE  R!Change
<1>1. TruthIs'
  BY TruthKnown, PTL
<1> QED  BY <1>1 DEF R!Change, TruthIs, meanings, mirror

-----------------------------------------------------------------------------
(* The tiles as mapTiles goes through them leave none out. *)
LEMMA RowsApart ==
  ASSUME NEW w \in Nat \ {0}, NEW q \in Int, NEW b \in Int, NEW r \in 0 .. w - 1,
         NEW a \in 0 .. w - 1, w * q + r = w * b + a
  PROVE  q = b /\ r = a
<1>1. ~(q < b)
  <2> SUFFICES ASSUME q < b PROVE FALSE
    OBVIOUS
  <2>1. w * q <= w * (b - 1)
    OBVIOUS
  <2>2. w * (b - 1) = w * b - w
    OBVIOUS
  <2> QED  BY <2>1, <2>2
<1>2. ~(b < q)
  <2> SUFFICES ASSUME b < q PROVE FALSE
    OBVIOUS
  <2>1. w * b <= w * (q - 1)
    OBVIOUS
  <2>2. w * (q - 1) = w * q - w
    OBVIOUS
  <2> QED  BY <2>1, <2>2
<1>3. q = b
  BY <1>1, <1>2
<1> QED  BY <1>3

LEMMA RowsReach ==
  ASSUME NEW t \in Tile
  PROVE  \E k \in 1 .. Width * Height : <<(k - 1) % Width, (k - 1) \div Width>> = t
<1>1. PICK w \in Nat \ {0}, h \in Nat \ {0} : w = Width /\ h = Height
  BY SizeAssumption
<1>2. PICK a \in 0 .. w - 1, b \in 0 .. h - 1 : t = <<a, b>>
  BY <1>1 DEF Tile
<1>3. PICK n \in Nat : n = w * b + a /\ n < w * h
  <2>1. w * b <= w * (h - 1) /\ w * b >= 0
    OBVIOUS
  <2>2. w * (h - 1) = w * h - w
    OBVIOUS
  <2>3. w * b \in Int /\ w * h \in Int
    OBVIOUS
  <2> QED  BY <2>1, <2>2, <2>3
<1>4. PICK q \in Int, r \in 0 .. w - 1 : q = n \div w /\ r = n % w /\ n = w * q + r
  <2>1. n = w * (n \div w) + (n % w) /\ n \div w \in Int /\ n % w \in 0 .. w - 1
    OBVIOUS
  <2> QED  BY <2>1
<1>5. q = b /\ r = a
  BY <1>3, <1>4, RowsApart
<1>6. PICK k : k = n + 1 /\ k - 1 = n /\ k \in 1 .. w * h
  BY <1>3
<1>7. <<n % w, n \div w>> = t
  BY <1>2, <1>4, <1>5
<1> QED  BY <1>1, <1>6, <1>7

(* All tiles, as they are. *)
MapIsTold == Truths(mapTiles) /\ \A t \in Tile : NamesTile(mapTiles, t)

LEMMA MapTold == MapIsTold
<1>1. PICK n \in Nat : n = Width * Height
  BY SizeAssumption
<1>2. PICK s : s = mapTiles /\ s = [k \in 1 .. n |-> s[k]]
  BY <1>1 DEF mapTiles
<1>3. ASSUME NEW k \in 1 .. n, NEW t, t = <<(k - 1) % Width, (k - 1) \div Width>>
      PROVE  t \in Tile /\ s[k] = bct(t, stones[t])
  <2>1. t \in Tile
    BY <1>1, <1>3, RowsAreTiles
  <2>2. s[k] = bct(t, stones[t])
    BY <1>1, <1>2, <1>3 DEF mapTiles, tileQuantities
  <2> QED  BY <2>1, <2>2
<1>4. DOMAIN s = 1 .. n /\ \E S : s \in Seq(S)
  <2>1. DOMAIN s = 1 .. n
    BY <1>2
  <2>2. PICK S : S = {s[k] : k \in 1 .. n}
    OBVIOUS
  <2>3. \A k \in 1 .. n : s[k] \in S
    BY <2>2
  <2>4. s \in Seq(S)
    BY <1>2, <2>3
  <2> QED  BY <2>1, <2>4
<1>5. ASSUME NEW k \in 1 .. n PROVE \E t \in Tile : s[k] = bct(t, stones[t])
  <2>1. PICK t : t = <<(k - 1) % Width, (k - 1) \div Width>>
    OBVIOUS
  <2> QED  BY <1>3, <2>1
<1>6. Truths(s)
  BY <1>4, <1>5 DEF Truths, IsTrue
<1>7. ASSUME NEW t \in Tile PROVE NamesTile(s, t)
  <2>1. PICK k \in 1 .. n : <<(k - 1) % Width, (k - 1) \div Width>> = t
    BY <1>1, RowsReach
  <2>2. s[k] = bct(t, stones[t])
    BY <1>3, <2>1
  <2>3. s[k].cmd = "bct" /\ s[k].at = t
    BY <2>2 DEF bct
  <2> QED  BY <1>4, <2>3 DEF NamesTile
<1> QED  BY <1>2, <1>6, <1>7 DEF MapIsTold

-----------------------------------------------------------------------------
(***************************************************************************)
(* What each step says of tiles, eggs and levels is true once it is taken, *)
(* and it names all of them that change.                                   *)
(***************************************************************************)
LEMMA TellsNothing ==
  ASSUME UNCHANGED <<stones, eggs, lvl>>, Known' = Known, NEW s
  PROVE  Tells(s)
BY DEF Tells

LEMMA TrueOne ==
  ASSUME NEW l, IsTrue(l)'
  PROVE  Truths(<<l>>)'
<1>1. PICK s : s = <<l>>
  OBVIOUS
<1>2. s \in Seq({l}) /\ Len(s) = 1 /\ s[1] = l
  BY <1>1
<1>3. ASSUME NEW k \in DOMAIN s PROVE IsTrue(s[k])'
  <2>1. k = 1
    BY <1>2
  <2>2. s[k] = l
    BY <1>2, <2>1
  <2> QED  BY <2>2
<1> QED  BY <1>1, <1>2, <1>3 DEF Truths

LEMMA PairNamed ==
  ASSUME NEW a, NEW b, NEW s, s = <<a, b>>
  PROVE  1 \in DOMAIN s /\ 2 \in DOMAIN s /\ s[1] = a /\ s[2] = b
<1>1. s \in Seq({a, b}) /\ Len(s) = 2 /\ s[1] = a /\ s[2] = b
  OBVIOUS
<1> QED  BY <1>1

LEMMA TrueTwo ==
  ASSUME NEW a, IsTrue(a)', NEW b, IsTrue(b)'
  PROVE  Truths(<<a, b>>)'
<1>1. <<a, b>> = <<a>> \o <<b>>
  OBVIOUS
<1> QED  BY <1>1, TrueOne, TruthsOn

LEMMA TrueEach ==
  ASSUME NEW n \in Nat, NEW s, s = [k \in 1 .. n |-> s[k]], \A k \in 1 .. n : IsTrue(s[k])'
  PROVE  Truths(s)'
<1>1. PICK S : S = {s[k] : k \in 1 .. n}
  OBVIOUS
<1>2. s \in [1 .. n -> S]
  BY <1>1
<1>3. s \in Seq(S) /\ DOMAIN s = 1 .. n
  BY <1>2
<1> QED  BY <1>3 DEF Truths

LEMMA AsidesTrue ==
  ASSUME NEW l, Aside(l)
  PROVE  IsTrue(l)'
BY DEF IsTrue, Aside

(* Only a death or a birth changes who is known. *)
LEMMA KnownStays ==
  ASSUME Alive' = Alive, quit' = quit
  PROVE  Known' = Known
BY DEF Known

LEMMA JoinsReported ==
  ASSUME GameInv, GameInv', connected, NEW p \in Players, Joins(p)
  PROVE  Reports
<1>1. PICK e, t, d, a, b :
        /\ e \in eggs /\ t \in Teams /\ d \in Direction
        /\ p \notin hatched /\ a = ebo(e.id)
        /\ b = pnw(p, e.tile, Orientation(d), lvl[p], t)
        /\ wire' = wire \o <<a, b>>
        /\ eggs' = eggs \ {e}
        /\ team' = [team EXCEPT ![p] = t]
        /\ pos' = [pos EXCEPT ![p] = e.tile]
        /\ dir' = [dir EXCEPT ![p] = d]
        /\ Alive' = Alive \cup {p}
        /\ UNCHANGED <<ritualVars, stoneVars, freq, performing, strays, quit, said, unseen>>
  BY JoinsSay
<1>2. IsTrue(a)'
  <2>1. e.id \in Nat
    BY <1>1 DEF GameInv, WorldInv, WorldTypeOK, Egg
  <2>2. e.id \notin EggIds'
    BY <1>1 DEF EggIds, GameInv, EggsApart
  <2> QED  BY <1>1, <2>1, <2>2 DEF IsTrue
<1>3. IsTrue(b)'
  <2>1. PICK o \in 1 .. 4, at \in Tile : o = Orientation(d) /\ at = e.tile
    BY <1>1, OrientationRange DEF GameInv, WorldInv, WorldTypeOK, Egg
  <2>2. b = pnw(p, at, o, lvl'[p], team'[p]) /\ p \in Alive'
    BY <1>1, <2>1 DEF GameInv, WorldInv, WorldTypeOK, ritualVars
  <2> QED  BY <2>2 DEF IsTrue
<1>4. Truths(<<a, b>>)'
  BY <1>2, <1>3, TrueTwo
<1>5. Tells(<<a, b>>)
  <2>1. PICK s : s = <<a, b>>
    OBVIOUS
  <2>5. 1 \in DOMAIN s /\ 2 \in DOMAIN s /\ s[1] = a /\ s[2] = b
    BY <2>1, PairNamed
  <2>2. NamesEgg(s, e.id)
    BY <1>1, <2>5 DEF NamesEgg, ebo
  <2>3. NamesLevel(s, p)
    BY <1>1, <2>5 DEF NamesLevel, pnw
  <2>4. Known' = Known \cup {p}
    BY <1>1 DEF Known
  <2> QED  BY <1>1, <2>1, <2>2, <2>3, <2>4 DEF Tells, ritualVars, stoneVars
<1> QED  BY <1>1, <1>4, <1>5 DEF Reports

LEMMA MovesReported ==
  ASSUME GameInv, GameInv', connected, NEW p \in Players, Moves(p)
  PROVE  Reports
<1>1. PICK at \in Tile, o \in 1 .. 4 : at = pos'[p] /\ o = Orientation(dir'[p])
  BY OrientationRange DEF GameInv, WorldInv, WorldTypeOK
<1>2. PICK l : l = ppo(p, at, o) /\ wire' = wire \o <<l>>
  BY <1>1 DEF Moves, broadcastGUI
<1>3. IsTrue(l)'
  BY <1>2, AsidesTrue DEF Aside
<1>4. Known' = Known
  BY ActKeepsAlive, KnownStays DEF Moves, Quiet, GameInv
<1>5. UNCHANGED <<stones, eggs, lvl>>
  BY DEF Moves, Step, forward, Turn, left, right, turn, ritualVars, stoneVars, eggVars
<1> QED  BY <1>2, <1>3, <1>4, <1>5, TrueOne, TellsNothing DEF Reports

LEMMA StonesReported ==
  ASSUME GameInv, GameInv', connected, NEW p \in Players, Takes(p) \/ Drops(p)
  PROVE  Reports
<1>1. PICK r, line :
        /\ r \in Resource /\ (take(p, r) \/ set(p, r))
        /\ line.cmd \in {"pgt", "pdr"} /\ emitStones(p, line)
  BY DEF Takes, Drops, pgt, pdr
<1>2. PICK at \in Tile, q \in [Resource -> Nat] : at = pos[p] /\ q = inv'[p]
  BY DEF GameInv, WorldInv, WorldTypeOK
<1>3. /\ UNCHANGED <<pos, eggs, lvl, quit>>
      /\ \A t \in Tile : t # at => stones'[t] = stones[t]
  <2>1. UNCHANGED <<pos, eggs, lvl, quit>>
    BY <1>1 DEF take, set, placeVars, ritualVars, eggVars, emitStones, Quiet
  <2>2. stones \in [Tile -> [Resource -> Nat]]
    BY DEF GameInv, WorldInv, WorldTypeOK
  <2>3. ASSUME NEW t \in Tile, t # at PROVE stones'[t] = stones[t]
    <3>1. CASE take(p, r)
      BY <1>2, <2>2, <2>3, <3>1 DEF take
    <3>2. CASE set(p, r)
      BY <1>2, <2>2, <2>3, <3>2 DEF set
    <3> QED  BY <1>1, <3>1, <3>2
  <2> QED  BY <2>1, <2>3
<1>4. Known' = Known
  <2>1. Take(p) \/ Drop(p)
    BY DEF Takes, Drops, Take, Drop
  <2> QED  BY <1>3, <2>1, ActKeepsAlive, KnownStays DEF GameInv
<1>5. PICK b, c : /\ b = bct(at, stones'[at]) /\ c = pin(p, at, q)
                  /\ wire' = wire \o <<line, b, c>>
  BY <1>1, <1>2, <1>3 DEF emitStones, broadcastGUI, tileQuantities, playerQuantities
<1>6. IsTrue(line)' /\ IsTrue(b)' /\ IsTrue(c)'
  <2>1. IsTrue(line)'
    BY <1>1, AsidesTrue DEF Aside
  <2>2. IsTrue(b)'
    BY <1>2, <1>5 DEF IsTrue
  <2>3. IsTrue(c)'
    BY <1>2, <1>5, AsidesTrue DEF Aside
  <2> QED  BY <2>1, <2>2, <2>3
<1>7. PICK s, t : s = <<line, b>> /\ t = <<c>> /\ wire' = wire \o (s \o t)
  <2>1. <<line, b, c>> = <<line, b>> \o <<c>>
    OBVIOUS
  <2>2. wire' = wire \o (<<line, b>> \o <<c>>)
    BY <1>5, <2>1
  <2> QED  BY <2>2
<1>8. Truths(s \o t)'
  BY <1>6, <1>7, TrueTwo, TrueOne, TruthsOn
<1>9. NamesTile(s \o t, at)
  <2>1. 2 \in DOMAIN s /\ s[2] = b
    BY <1>7, PairNamed
  <2>2. NamesTile(s, at)
    BY <1>5, <2>1 DEF NamesTile, bct
  <2>3. PICK S : s \in Seq(S) /\ t \in Seq(S)
    <3>1. <<line, b>> \in Seq({line, b, c}) /\ <<c>> \in Seq({line, b, c})
      OBVIOUS
    <3> QED  BY <1>7, <3>1
  <2> QED  BY <2>2, <2>3, NamesOn
<1>10. Tells(s \o t)
  BY <1>3, <1>4, <1>9 DEF Tells
<1> QED  BY <1>7, <1>8, <1>10 DEF Reports

LEMMA LaysReported ==
  ASSUME GameInv, GameInv', connected, NEW p \in Players, Lays(p)
  PROVE  Reports
<1>1. PICK e \in Nat, at \in Tile : e = nextEgg /\ at = pos[p]
  BY DEF GameInv, WorldInv, WorldTypeOK
<1>2. PICK a, b : a = pfk(p) /\ b = enw(e, p, at) /\ wire' = wire \o <<a, b>>
  BY <1>1 DEF Lays, broadcastGUI
<1>3. PICK x : x.id = e /\ x.tile = at /\ eggs' = eggs \cup {x}
  <2>1. PICK x : x = [id |-> e, team |-> team[p], tile |-> at]
    OBVIOUS
  <2>2. eggs' = eggs \cup {x}
    BY <1>1, <2>1 DEF Lays, Fork, fork, layEgg
  <2> QED  BY <2>1, <2>2
<1>4. IsTrue(a)' /\ IsTrue(b)'
  <2>1. Aside(a)
    BY <1>2 DEF pfk, Aside
  <2>2. IsTrue(b)'
    BY <1>2, <1>3 DEF IsTrue
  <2> QED  BY <2>1, <2>2, AsidesTrue
<1>5. Known' = Known /\ UNCHANGED <<stones, lvl>>
  <2>1. UNCHANGED <<stones, lvl, quit>>
    BY DEF Lays, Fork, fork, layEgg, ritualVars, stoneVars, Quiet
  <2> QED  BY <2>1, ActKeepsAlive, KnownStays DEF Lays, GameInv
<1>6. Tells(<<a, b>>)
  <2>1. PICK s : s = <<a, b>>
    OBVIOUS
  <2>2. 2 \in DOMAIN s /\ s[2] = b
    BY <2>1, PairNamed
  <2>3. NamesEgg(s, e)
    BY <1>2, <2>2 DEF NamesEgg, enw
  <2> QED  BY <1>3, <1>5, <2>1, <2>3 DEF Tells
<1> QED  BY <1>2, <1>4, <1>6, TrueTwo DEF Reports

LEMMA SpeaksReported ==
  ASSUME connected, NEW p \in Players, Speaks(p)
  PROVE  Reports
<1>1. PICK l : l = pbc(p) /\ wire' = wire \o <<l>>
  BY DEF Speaks, broadcastGUI
<1>2. IsTrue(l)'
  BY <1>1, AsidesTrue DEF Aside
<1>3. UNCHANGED <<stones, eggs, lvl>> /\ Known' = Known
  BY DEF Speaks, Known, Alive, InPlay, worldVars, placeVars, ritualVars, stoneVars, eggVars
<1> QED  BY <1>1, <1>2, <1>3, TrueOne, TellsNothing DEF Reports

LEMMA StartsReported ==
  ASSUME GameInv, GameInv', connected, NEW p \in Players, StartsRitual(p)
  PROVE  Reports
<1>1. PICK at \in Tile, v \in 1 .. MaxLevel, S \in SUBSET Players :
        at = pos[p] /\ v = lvl[p] /\ S = Peers(p)
  <2>1. pos[p] \in Tile /\ lvl[p] \in 1 .. MaxLevel /\ on \in [Tile -> SUBSET Players]
    BY DEF GameInv, WorldInv, WorldTypeOK
  <2>2. Peers(p) \in SUBSET Players
    BY <2>1 DEF Peers
  <2> QED  BY <2>1, <2>2
<1>2. PICK l : l = pic(at, v, S) /\ wire' = wire \o <<l>>
  BY <1>1 DEF StartsRitual, broadcastGUI
<1>3. IsTrue(l)'
  BY <1>2, AsidesTrue DEF Aside
<1>4. Known' = Known
  BY ActKeepsAlive, KnownStays DEF StartsRitual, historyVars, GameInv
<1>5. UNCHANGED <<stones, eggs, lvl>>
  BY DEF StartsRitual, Start, startElevation, stoneVars, eggVars
<1> QED  BY <1>2, <1>3, <1>4, <1>5, TrueOne, TellsNothing DEF Reports

LEMMA FailsReported ==
  ASSUME GameInv, GameInv', connected, NEW p \in Players, EndsRitual(p), ~canElevate(p)
  PROVE  Reports
<1>1. PICK l : l = pie(pos[p], FALSE) /\ wire' = wire \o <<l>>
  BY DEF EndsRitual, finishLines, broadcastGUI
<1>2. IsTrue(l)'
  BY <1>1, AsidesTrue DEF Aside, pie
<1>3. Known' = Known
  BY ActKeepsAlive, KnownStays DEF EndsRitual, GameInv
<1>4. UNCHANGED <<stones, eggs, lvl>>
  <2>1. UNCHANGED <<stones, eggs>>
    BY DEF EndsRitual, Finish, finishElevation, endElevation, eggVars
  <2>2. lvl' = [q \in Players |-> lvl[q]]
    BY DEF EndsRitual, Finish, finishElevation, endElevation
  <2> QED  BY <2>1, <2>2 DEF GameInv, WorldInv, WorldTypeOK
<1> QED  BY <1>1, <1>2, <1>3, <1>4, TrueOne, TellsNothing DEF Reports

LEMMA SucceedsReported ==
  ASSUME GameInv, GameInv', connected, NEW p \in Players, EndsRitual(p), canElevate(p)
  PROVE  Reports
<1>1. PICK S, at, v, q, s, n, risen : Rising(p, S, at, v, q, s, n, risen)
  BY SucceedsSay
<1>2. /\ S \subseteq Alive /\ at \in Tile /\ v \in 1 .. MaxLevel
      /\ at = pos[p] /\ q \in [Resource -> Nat] /\ q = stones'[at]
      /\ n \in Nat /\ DOMAIN s = 1 .. n /\ Enumerates(s, S)
      /\ risen = [k \in 1 .. n |-> plv(s[k], v)]
      /\ wire' = wire \o (risen \o <<pie(at, TRUE), bct(at, q)>>)
      /\ \A x \in Players : lvl'[x] = IF x \in S THEN v ELSE lvl[x]
  BY <1>1 DEF Rising
<1>3. Alive' = Alive /\ Known' = Known
  <2>1. Alive' = Alive /\ quit' = quit
    BY ActKeepsAlive DEF EndsRitual, GameInv
  <2> QED  BY <2>1, KnownStays
<1>4. eggs' = eggs /\ \A t \in Tile : t # at => stones'[t] = stones[t]
  <2>1. eggs' = eggs
    BY DEF EndsRitual, Finish, finishElevation, endElevation, eggVars
  <2>2. stones \in [Tile -> [Resource -> Nat]]
    BY DEF GameInv, WorldInv, WorldTypeOK
  <2>3. ASSUME NEW t \in Tile, t # at PROVE stones'[t] = stones[t]
    BY <1>2, <2>2, <2>3 DEF EndsRitual, Finish, finishElevation, endElevation
  <2> QED  BY <2>1, <2>3
<1>5. ASSUME NEW k \in 1 .. n
      PROVE  s[k] \in S /\ risen[k] = plv(s[k], v) /\ IsTrue(risen[k])'
  <2>1. PICK x : x = s[k] /\ x \in S /\ x \in Players
    BY <1>2 DEF Enumerates, Alive
  <2>2. risen[k] = plv(x, v) /\ lvl'[x] = v /\ x \in Alive'
    BY <1>2, <1>3, <2>1
  <2> QED  BY <2>1, <2>2 DEF IsTrue
<1>6. risen = [k \in 1 .. n |-> risen[k]]
  BY <1>2
<1>7. Truths(risen)'
  BY <1>2, <1>5, <1>6, TrueEach
<1>8. PICK a, b, t, all : /\ a = pie(at, TRUE) /\ b = bct(at, q) /\ t = <<a, b>>
                          /\ all = risen \o t /\ wire' = wire \o all
  BY <1>2
<1>9. Truths(all)'
  <2>1. IsTrue(a)'
    BY <1>8, AsidesTrue DEF Aside, pie
  <2>2. IsTrue(b)'
    BY <1>2, <1>8 DEF IsTrue
  <2> QED  BY <1>7, <1>8, <2>1, <2>2, TrueTwo, TruthsOn
<1>10. PICK A : risen \in Seq(A) /\ t \in Seq(A)
  <2>1. PICK B : risen \in Seq(B)
    BY <1>7 DEF Truths
  <2>2. t \in Seq({a, b})
    BY <1>8
  <2>3. risen \in Seq(B \cup {a, b}) /\ t \in Seq(B \cup {a, b})
    BY <2>1, <2>2
  <2> QED  BY <2>3
<1>11. NamesTile(all, at)
  <2>1. 2 \in DOMAIN t /\ t[2] = b
    BY <1>8, PairNamed
  <2>2. NamesTile(t, at)
    BY <1>8, <2>1 DEF NamesTile, bct
  <2> QED  BY <1>8, <1>10, <2>2, NamesOn
<1>12. ASSUME NEW x \in S PROVE NamesLevel(all, x)
  <2>1. PICK k \in 1 .. n : s[k] = x
    BY <1>2 DEF Enumerates
  <2>2. PICK l : l = risen[k] /\ l = plv(x, v)
    BY <1>2, <2>1
  <2>3. l.cmd = "plv" /\ l.player = x /\ k \in DOMAIN risen
    BY <1>2, <2>2 DEF plv
  <2>4. NamesLevel(risen, x)
    BY <2>2, <2>3 DEF NamesLevel
  <2> QED  BY <1>8, <1>10, <2>4, NamesOn
<1>13. Tells(all)
  BY <1>2, <1>3, <1>4, <1>11, <1>12 DEF Tells
<1> QED  BY <1>8, <1>9, <1>13 DEF Reports

LEMMA PushesReported ==
  ASSUME GameInv, GameInv', connected, NEW p \in Players, Pushes(p)
  PROVE  Reports
<1>1. PICK M, E, s, lost, pushed, l :
        /\ M = TileMates(p) /\ M \subseteq Alive /\ IsFiniteSet(M)
        /\ s \in SetToSeqs(M) /\ pushed = [k \in DOMAIN s |-> pex(s[k])]
        /\ E = {e.id : e \in eggs \ eggs'} /\ IsFiniteSet(E)
        /\ E \subseteq EggIds /\ EggIds' = EggIds \ E
        /\ lost = SetToSeq(E) /\ l = [k \in DOMAIN lost |-> edi(lost[k])]
        /\ wire' = wire \o (pushed \o l)
  BY PushesSay
<1>2. UNCHANGED <<stones, lvl>> /\ eggs' \subseteq eggs /\ Known' = Known
  <2>1. UNCHANGED <<stones, lvl, quit>> /\ eggs' = {e \in eggs : e.tile # pos[p]}
    BY DEF Pushes, Eject, eject, ritualVars, stoneVars, Quiet
  <2>2. Alive' = Alive
    BY ActKeepsAlive DEF Pushes, GameInv
  <2> QED  BY <2>1, <2>2, KnownStays
<1>3. PICK n \in Nat : DOMAIN s = 1 .. n
  BY <1>1, SeqsEnumerate DEF Enumerates
<1>4. Truths(pushed)'
  <2>1. pushed = [k \in 1 .. n |-> pushed[k]] /\ \A k \in 1 .. n : pushed[k] = pex(s[k])
    BY <1>1, <1>3
  <2>2. ASSUME NEW k \in 1 .. n PROVE IsTrue(pushed[k])'
    BY <2>1, AsidesTrue DEF Aside, pex
  <2> QED  BY <2>1, <2>2, TrueEach
<1>5. Enumerates(lost, E)
  BY <1>1, SeqEnumerates
<1>6. PICK o \in Nat : o = Len(lost) /\ DOMAIN lost = 1 .. o
  BY <1>5 DEF Enumerates
<1>7. /\ l = [k \in 1 .. o |-> l[k]]
      /\ \A k \in 1 .. o : l[k] = edi(lost[k]) /\ lost[k] \in E
  BY <1>1, <1>5, <1>6 DEF Enumerates
<1>8. Truths(l)'
  <2>1. EggIds \subseteq Nat
    BY DEF EggIds, GameInv, WorldInv, WorldTypeOK, Egg
  <2>2. ASSUME NEW k \in 1 .. o PROVE IsTrue(l[k])'
    <3>1. PICK e : e = lost[k] /\ e \in Nat \ EggIds' /\ l[k] = edi(e)
      BY <1>1, <1>7, <2>1
    <3> QED  BY <3>1 DEF IsTrue
  <2> QED  BY <1>7, <2>2, TrueEach
<1>9. PICK all : all = pushed \o l /\ wire' = wire \o all
  BY <1>1
<1>10. Truths(all)'
  BY <1>4, <1>8, <1>9, TruthsOn
<1>11. PICK A : pushed \in Seq(A) /\ l \in Seq(A)
  <2>1. PICK B, C : pushed \in Seq(B) /\ l \in Seq(C)
    BY <1>4, <1>8 DEF Truths
  <2>2. pushed \in Seq(B \cup C) /\ l \in Seq(B \cup C)
    BY <2>1
  <2> QED  BY <2>2
<1>12. ASSUME NEW e \in eggs, e \notin eggs' PROVE NamesEgg(all, e.id)
  <2>1. PICK k \in 1 .. o : lost[k] = e.id
    <3>1. PICK i : i = e.id /\ i \in E
      BY <1>1, <1>12
    <3>2. \E k \in 1 .. Len(lost) : lost[k] = i
      BY <1>5, <3>1 DEF Enumerates
    <3> QED  BY <1>6, <3>1, <3>2
  <2>2. l[k].cmd = "edi" /\ l[k].egg = e.id /\ k \in DOMAIN l
    BY <1>7, <2>1 DEF edi
  <2>3. NamesEgg(l, e.id)
    BY <2>2 DEF NamesEgg
  <2> QED  BY <1>9, <1>11, <2>3, NamesOn
<1>13. Tells(all)
  BY <1>2, <1>12 DEF Tells
<1> QED  BY <1>9, <1>10, <1>13 DEF Reports

LEMMA LivesReported ==
  ASSUME GameInv, connected, quit \cap Alive = {}, Lives
  PROVE  Reports
<1>1. PICK dead, s, lines :
        /\ dead \subseteq Alive /\ Alive' = Alive \ dead /\ Abandon(dead)
        /\ Enumerates(s, dead) /\ lines = [k \in DOMAIN s |-> pdi(s[k])]
        /\ wire' = wire \o lines
        /\ UNCHANGED <<team, stones, lvl, inv, pos, dir, eggs, freq, quit, said, unseen>>
  BY LivesSay
<1>2. PICK n \in Nat : DOMAIN s = 1 .. n
  BY <1>1 DEF Enumerates
<1>3. /\ lines = [k \in 1 .. n |-> lines[k]]
      /\ \A k \in 1 .. n : lines[k] = pdi(s[k]) /\ s[k] \in dead
  BY <1>1, <1>2 DEF Enumerates
<1>4. Known' = Known \ dead /\ dead \subseteq Players
  BY <1>1 DEF Known, Alive
<1>5. Truths(lines)'
  <2>1. ASSUME NEW k \in 1 .. n PROVE IsTrue(lines[k])'
    <3>1. PICK x : x = s[k] /\ x \in Players \ Known' /\ lines[k] = pdi(x)
      BY <1>3, <1>4
    <3> QED  BY <3>1 DEF IsTrue
  <2> QED  BY <1>3, <2>1, TrueEach
<1>6. ASSUME NEW x \in dead PROVE NamesLevel(lines, x)
  <2>1. PICK k \in 1 .. n : s[k] = x
    BY <1>1, <1>2 DEF Enumerates
  <2>2. lines[k].cmd = "pdi" /\ lines[k].player = x /\ k \in DOMAIN lines
    BY <1>3, <2>1 DEF pdi
  <2> QED  BY <2>2 DEF NamesLevel
<1>7. Tells(lines)
  BY <1>1, <1>4, <1>6 DEF Tells
<1> QED  BY <1>1, <1>5, <1>7 DEF Reports

(* When resources have come, the whole map is told. *)
LEMMA RegrowsReported ==
  ASSUME GameInv, connected, Regrows
  PROVE  Reports
<1>1. MapIsTold'
  BY MapTold, PTL
<1>2. PICK s : s = mapTiles' /\ wire' = wire \o s
  BY DEF Regrows, broadcastGUI
<1>3. Truths(s)' /\ \A t \in Tile : NamesTile(s, t)
  BY <1>1, <1>2 DEF MapIsTold
<1>4. UNCHANGED <<lvl, eggs, quit>> /\ Known' = Known
  <2>1. UNCHANGED <<lvl, eggs, quit, pos, on>>
    BY DEF Regrows, Respawn, generateResources, Quiet, placeVars, ritualVars, eggVars
  <2> QED  BY <2>1 DEF Known, Alive, InPlay
<1>5. Tells(s)
  BY <1>3, <1>4 DEF Tells
<1> QED  BY <1>2, <1>3, <1>5 DEF Reports

(* Nothing is said of a player that hangs up: it stays known. *)
LEMMA HangsUpReported ==
  ASSUME GameInv, LinesOnly(wire), connected, NEW p \in Players, HangsUp(p)
  PROVE  Reports
<1>1. /\ UNCHANGED <<wire, stones, lvl, eggs>> /\ p \in Alive
      /\ quit' = quit \cup {p} /\ Alive' = Alive \ {p}
  BY LeavesAlive DEF HangsUp, Leave, leaveMap, Alive, ritualVars, stoneVars, eggVars, streamVars
<1>2. Known' = Known
  BY <1>1 DEF Known
<1>3. PICK s : s = <<>>
  OBVIOUS
<1>4. wire' = wire \o s
  <2>1. PICK S : wire \in Seq(S)
    BY DEF LinesOnly
  <2> QED  BY <1>1, <1>3, <2>1
<1>5. Truths(s)'
  <2>1. s \in Seq({}) /\ DOMAIN s = {}
    BY <1>3
  <2> QED  BY <2>1 DEF Truths
<1> QED  BY <1>1, <1>2, <1>4, <1>5, TellsNothing DEF Reports

(* What is said while the game stands still. *)
LEMMA RetoldReported ==
  ASSUME UNCHANGED <<worldVars, quit>>, NEW s, wire' = wire \o s, Truths(s)'
  PROVE  Reports
<1>1. UNCHANGED <<stones, eggs, lvl, pos, on>>
  BY DEF worldVars, placeVars, ritualVars, stoneVars, eggVars
<1>2. Known' = Known
  BY <1>1 DEF Known, Alive, InPlay
<1> QED  BY <1>1, <1>2, TellsNothing DEF Reports

LEMMA RetoldLine ==
  ASSUME UNCHANGED <<worldVars, quit>>, NEW l, wire' = wire \o <<l>>, IsTrue(l)'
  PROVE  Reports
<1>1. PICK s : s = <<l>>
  OBVIOUS
<1> QED  BY <1>1, TrueOne, RetoldReported

LEMMA TeamsTrue ==
  ASSUME NEW s \in sendTeams
  PROVE  Truths(s)'
<1>1. PICK names \in SetToSeqs(Teams) : s = [k \in DOMAIN names |-> tna(names[k])]
  BY DEF sendTeams, Lines
<1>2. Enumerates(names, Teams)
  BY <1>1, WorldAssumption, SeqsEnumerate
<1>3. PICK n \in Nat : DOMAIN names = 1 .. n
  BY <1>2 DEF Enumerates
<1>4. s = [k \in 1 .. n |-> s[k]] /\ \A k \in 1 .. n : s[k] = tna(names[k])
  BY <1>1, <1>3
<1>5. ASSUME NEW k \in 1 .. n PROVE IsTrue(s[k])'
  <2>1. names[k] \in Teams
    BY <1>2, <1>3 DEF Enumerates
  <2> QED  BY <1>4, <2>1, AsidesTrue DEF Aside
<1> QED  BY <1>4, <1>5, TrueEach

LEMMA AskWorldReported ==
  ASSUME GameInv, AskWorld
  PROVE  Reports
<1>1. UNCHANGED <<worldVars, quit>> /\ UNCHANGED <<stones, freq>>
  BY DEF AskWorld, Reply, worldVars, stoneVars
<1>2. ASSUME NEW s \in sendTeams, wire' = wire \o s PROVE Reports
  BY <1>1, <1>2, TeamsTrue, RetoldReported
<1>3. ASSUME wire' = wire \o mapTiles PROVE Reports
  <2>1. MapIsTold'
    BY MapTold, PTL
  <2>2. PICK s : s = mapTiles
    OBVIOUS
  <2>3. mapTiles' = s
    BY <1>1, <2>2 DEF mapTiles, tileQuantities
  <2>4. Truths(s)'
    BY <2>1, <2>3 DEF MapIsTold
  <2> QED  BY <1>1, <1>3, <2>2, <2>4, RetoldReported
<1>4. ASSUME wire' = wire \o <<sbp>> PROVE Reports
  <2>1. PICK l : l = sbp
    OBVIOUS
  <2>2. IsTrue(l)'
    BY <2>1, AsidesTrue DEF Aside, sbp
  <2> QED  BY <1>1, <1>4, <2>1, <2>2, RetoldLine
<1>5. ASSUME NEW t \in Tile, wire' = wire \o <<tileQuantities(t)>> PROVE Reports
  <2>1. PICK l : l = tileQuantities(t)
    OBVIOUS
  <2>2. IsTrue(l)'
    BY <1>1, <2>1 DEF IsTrue, tileQuantities
  <2> QED  BY <1>1, <1>5, <2>1, <2>2, RetoldLine
<1>6. ASSUME wire' = wire \o <<sgt(freq)>> PROVE Reports
  <2>1. PICK f, l : f \in Nat /\ f = freq /\ l = sgt(f)
    BY GuiAssumption DEF GameInv, GuiTypeOK
  <2>2. IsTrue(l)'
    BY <2>1, AsidesTrue DEF Aside
  <2> QED  BY <1>1, <1>6, <2>1, <2>2, RetoldLine
<1> QED  BY <1>2, <1>3, <1>4, <1>5, <1>6 DEF AskWorld, Reply

LEMMA PlayerQueryReported ==
  ASSUME GameInv, NEW p \in Players, handleGUIPlayerQuery(p)
  PROVE  Reports
<1>1. UNCHANGED <<worldVars, quit>> /\ UNCHANGED <<lvl, pos, on>> /\ p \in Alive
  BY DEF handleGUIPlayerQuery, clientByPlayerId, Alive, Reply, worldVars, placeVars, ritualVars
<1>2. PICK at \in Tile, o \in 1 .. 4, v \in 1 .. MaxLevel, q \in [Resource -> Nat] :
        at = pos[p] /\ o = Orientation(dir[p]) /\ v = lvl[p] /\ q = inv[p]
  BY OrientationRange DEF GameInv, WorldInv, WorldTypeOK
<1>3. PICK l : /\ l \in {ppo(p, at, o), plv(p, v), pin(p, at, q)}
               /\ wire' = wire \o <<l>>
  BY <1>2 DEF handleGUIPlayerQuery, Reply, playerQuantities
<1>4. CASE l = plv(p, v)
  <2>1. p \in Alive' /\ lvl'[p] = v
    BY <1>1, <1>2 DEF Alive, InPlay
  <2>2. IsTrue(l)'
    BY <1>4, <2>1 DEF IsTrue
  <2> QED  BY <1>1, <1>3, <2>2, RetoldLine
<1>5. CASE l \in {ppo(p, at, o), pin(p, at, q)}
  <2>1. IsTrue(l)'
    BY <1>5, AsidesTrue DEF Aside
  <2> QED  BY <1>1, <1>3, <2>1, RetoldLine
<1> QED  BY <1>3, <1>4, <1>5

LEMMA TimeUnitReported ==
  ASSUME LinesOnly(wire), guiSetTimeUnit
  PROVE  Reports
<1>1. PICK f \in Frequency :
        /\ wire' = wire \o <<sst(f)>> \/ wire' = wire
        /\ UNCHANGED <<worldVars, quit>>
  BY DEF guiSetTimeUnit
<1>2. CASE wire' = wire \o <<sst(f)>>
  <2>1. PICK n, l : n \in Nat /\ n = f /\ l = sst(n)
    BY GuiAssumption
  <2>2. IsTrue(l)'
    BY <2>1, AsidesTrue DEF Aside
  <2> QED  BY <1>1, <1>2, <2>1, <2>2, RetoldLine
<1>3. CASE wire' = wire
  <2>1. PICK s : s = <<>>
    OBVIOUS
  <2>2. wire' = wire \o s
    <3>1. PICK S : wire \in Seq(S)
      BY DEF LinesOnly
    <3> QED  BY <1>3, <2>1, <3>1
  <2>3. Truths(s)'
    <3>1. s \in Seq({}) /\ DOMAIN s = {}
      BY <2>1
    <3> QED  BY <3>1 DEF Truths
  <2> QED  BY <1>1, <2>2, <2>3, RetoldReported
<1> QED  BY <1>1, <1>2, <1>3

-----------------------------------------------------------------------------
(***************************************************************************)
(* What the mirror of a connected client needs besides: only lines of this *)
(* server are on their way, and who hung up under its eyes is off the map. *)
(***************************************************************************)
ReplicaInv ==
  /\ view \in GameState
  /\ LinesOnly(wire)
  /\ quit \subseteq hatched /\ quit \cap Alive = {}
  /\ ~connected => quit = {}

LEMMA ReportedStep ==
  ASSUME GuiInv, GuiInv', ReplicaInv, connected, GameStep \/ GUICommand
  PROVE  Reports /\ UNCHANGED <<connected, view>>
<1>0. GameInv /\ GameInv' /\ LinesOnly(wire) /\ quit \cap Alive = {}
  BY DEF GuiInv, ReplicaInv
<1>1. ASSUME NEW p \in Players,
             \/ Joins(p) \/ Moves(p) \/ Takes(p) \/ Drops(p) \/ Lays(p) \/ Pushes(p)
             \/ Speaks(p) \/ StartsRitual(p) \/ EndsRitual(p)
      PROVE  Reports /\ UNCHANGED <<connected, view>>
  <2>1. UNCHANGED <<connected, view>>
    BY <1>1 DEF Joins, Moves, Takes, Drops, emitStones, Lays, Pushes, Speaks, StartsRitual,
                EndsRitual, Quiet
  <2>2. Reports
    BY <1>0, <1>1, JoinsReported, MovesReported, StonesReported, LaysReported,
       PushesReported, SpeaksReported, StartsReported, FailsReported, SucceedsReported
  <2> QED  BY <2>1, <2>2
<1>2. ASSUME NEW p \in Players, HangsUp(p) PROVE Reports /\ UNCHANGED <<connected, view>>
  <2>1. UNCHANGED <<connected, view>>
    BY <1>2 DEF HangsUp, streamVars
  <2> QED  BY <1>0, <1>2, <2>1, HangsUpReported
<1>3. CASE Lives \/ Regrows
  <2>1. UNCHANGED <<connected, view>>
    BY <1>3 DEF Lives, Regrows, Quiet
  <2> QED  BY <1>0, <1>3, <2>1, LivesReported, RegrowsReported
<1>4. CASE GUICommand
  <2>1. UNCHANGED <<connected, view>>
    BY <1>4 DEF GUICommand, AskWorld, handleGUIPlayerQuery, guiSetTimeUnit, Reply
  <2> QED  BY <1>0, <1>4, <2>1, AskWorldReported, PlayerQueryReported, TimeUnitReported
              DEF GUICommand
<1> QED  BY <1>1, <1>2, <1>3, <1>4 DEF GameStep

-----------------------------------------------------------------------------
LEMMA SeqWider ==
  ASSUME NEW S, NEW T, S \subseteq T, NEW s \in Seq(S)
  PROVE  s \in Seq(T)
OBVIOUS

(* The size of the map, which clears it, is no news to a new mirror. *)
LEMMA SizeIsNoNews ==
  ASSUME DOMAIN view.tiles = {}, NEW s, s = <<msz(Width, Height)>>
  PROVE  LinesOnly(s) /\ R!Leads(Meanings(s), mirror, mirror)
<1>1. PICK l : l = msz(Width, Height) /\ s = <<l>> /\ l.cmd = "msz"
  BY DEF msz
<1>2. s \in Seq({l}) /\ DOMAIN s = {1} /\ s[1] = l
  BY <1>1
<1>3. LinesOnly(s)
  <2>1. Line(l)
    BY <1>1 DEF Line
  <2>2. \A k \in DOMAIN s : s[k] = l
    BY <1>2
  <2> QED  BY <1>2, <2>1, <2>2 DEF LinesOnly
<1>4. PICK M : M = Meanings(s) /\ DOMAIN M = {1} /\ M[1] = Meaning(l)
  <2>1. PICK M : M = Meanings(s)
    OBVIOUS
  <2>2. M = [k \in {1} |-> Meaning(s[k])]
    BY <1>2, <2>1 DEF Meanings
  <2>3. DOMAIN M = {1} /\ M[1] = Meaning(l)
    BY <1>2, <2>2
  <2> QED  BY <2>1, <2>3
<1>5. ASSUME NEW i \in Item PROVE Meaning(l)[i] = {} \/ Meaning(l)[i] = {mirror[i]}
  <2>1. ASSUME NEW t \in Tile, i = <<"stones", t>> PROVE Meaning(l)[i] = {mirror[i]}
    <3>1. Meaning(l)[i] = {<<"stones", NoStones>>}
      BY <1>1, <2>1, MeansOfTile
    <3>2. mirror[i] = <<"stones", NoStones>>
      BY <2>1, ShowsTile DEF mirror
    <3> QED  BY <3>1, <3>2
  <2>2. ASSUME NEW n \in 0 .. MaxEggs - 1, i = <<"egg", n>> PROVE Meaning(l)[i] = {}
    BY <1>1, <2>2, MeansOfEgg
  <2>3. ASSUME NEW p \in Players, i = <<"level", p>> PROVE Meaning(l)[i] = {}
    BY <1>1, <2>3, MeansOfLevel
  <2> QED  BY <2>1, <2>2, <2>3, ItemKinds
<1>6. R!Leads(M, mirror, mirror)
  BY <1>4, <1>5 DEF R!Leads, R!Told, R!Says
<1> QED  BY <1>3, <1>4, <1>6

LEMMA PlayersTrue ==
  ASSUME GameInv, UNCHANGED <<worldVars, quit>>, NEW s \in sendPlayers
  PROVE  Truths(s)' /\ \A p \in Alive : NamesLevel(s, p)
<1>1. UNCHANGED <<lvl, team, pos, on>> /\ Alive' = Alive
  BY DEF worldVars, placeVars, ritualVars, Alive, InPlay
<1>2. PICK S : S = Alive /\ S \in SUBSET Players /\ IsFiniteSet(S)
  <2>1. Alive \subseteq Alive /\ Alive \in SUBSET Players
    BY DEF Alive
  <2> QED  BY <2>1, ParadeFinite
<1>3. PICK who \in SetToSeqs(S) : s = [k \in DOMAIN who |-> playerInfo(who[k])]
  BY <1>2 DEF sendPlayers, Lines, Alive
<1>4. Enumerates(who, S)
  BY <1>2, <1>3, SeqsEnumerate
<1>5. PICK n \in Nat : DOMAIN who = 1 .. n
  BY <1>4 DEF Enumerates
<1>6. s = [k \in 1 .. n |-> s[k]] /\ \A k \in 1 .. n : s[k] = playerInfo(who[k])
  BY <1>3, <1>5
<1>7. ASSUME NEW k \in 1 .. n
      PROVE  IsTrue(s[k])' /\ s[k].cmd = "pnw" /\ s[k].player = who[k]
  <2>1. PICK p \in Alive : p = who[k] /\ p \in Players
    BY <1>2, <1>4, <1>5 DEF Enumerates
  <2>2. PICK at \in Tile, o \in 1 .. 4 : at = pos[p] /\ o = Orientation(dir[p])
    BY <2>1, OrientationRange DEF GameInv, WorldInv, WorldTypeOK
  <2>3. PICK l : l = s[k] /\ l = pnw(p, at, o, lvl[p], team[p])
    BY <1>6, <2>1, <2>2 DEF playerInfo
  <2>4. IsTrue(l)'
    BY <1>1, <2>1, <2>2, <2>3 DEF IsTrue
  <2>5. l.cmd = "pnw" /\ l.player = p
    BY <2>3 DEF pnw
  <2> QED  BY <2>1, <2>3, <2>4, <2>5
<1>8. Truths(s)'
  <2>1. \A k \in 1 .. n : IsTrue(s[k])'
    BY <1>7
  <2> QED  BY <1>6, <2>1, TrueEach
<1>9. ASSUME NEW p \in Alive PROVE NamesLevel(s, p)
  <2>1. PICK k \in 1 .. n : who[k] = p
    BY <1>2, <1>4, <1>5, <1>9 DEF Enumerates
  <2>2. k \in DOMAIN s /\ s[k].cmd = "pnw" /\ s[k].player = p
    BY <1>6, <1>7, <2>1
  <2> QED  BY <2>2 DEF NamesLevel
<1> QED  BY <1>8, <1>9

LEMMA EggsTrue ==
  ASSUME GameInv, UNCHANGED <<worldVars, quit>>, NEW s, s = sendEggs
  PROVE  Truths(s)' /\ \A n \in EggIds : NamesEgg(s, n)
<1>1. eggs' = eggs
  BY DEF worldVars, eggVars
<1>2. PICK all : all = SetToSeq(eggs)
  OBVIOUS
<1>3. Enumerates(all, eggs)
  <2>1. IsFiniteSet(eggs)
    BY DEF GameInv, WorldInv, WorldTypeOK
  <2> QED  BY <1>2, <2>1, SeqEnumerates
<1>4. PICK n \in Nat : DOMAIN all = 1 .. n
  BY <1>3 DEF Enumerates
<1>5. s = [k \in DOMAIN all |-> enw(all[k].id, Nobody, all[k].tile)]
  BY <1>2, Zenon DEF sendEggs
<1>6. /\ s = [k \in 1 .. n |-> s[k]]
      /\ \A k \in 1 .. n : s[k] = enw(all[k].id, Nobody, all[k].tile) /\ all[k] \in eggs
  BY <1>3, <1>4, <1>5 DEF Enumerates
<1>7. ASSUME NEW k \in 1 .. n PROVE IsTrue(s[k])'
  <2>1. PICK e, l, none : /\ e \in eggs /\ e \in eggs' /\ none = Nobody
                          /\ l = s[k] /\ l = enw(e.id, none, e.tile)
    BY <1>1, <1>6
  <2>2. IsTrue(l)'
    BY <2>1 DEF IsTrue
  <2> QED  BY <2>1, <2>2
<1>8. Truths(s)'
  BY <1>6, <1>7, TrueEach
<1>9. ASSUME NEW x \in EggIds PROVE NamesEgg(s, x)
  <2>1. PICK e \in eggs : e.id = x
    BY DEF EggIds
  <2>2. PICK k \in 1 .. n : all[k] = e
    BY <1>3, <1>4 DEF Enumerates
  <2>3. PICK at, none, l : l = s[k] /\ l = enw(x, none, at)
    BY <1>6, <2>1, <2>2
  <2>4. l.cmd = "enw" /\ l.egg = x /\ k \in DOMAIN s
    BY <1>6, <2>3 DEF enw
  <2> QED  BY <2>3, <2>4 DEF NamesEgg
<1> QED  BY <1>8, <1>9

LEMMA GreetingLeads ==
  ASSUME GameInv, GameInv', ReplicaInv, Connect, view = NewGameState, wire = <<>>
  PROVE  R!GoLive /\ LinesOnly(wire')
<1>0. /\ ~connected /\ connected' = TRUE /\ UNCHANGED <<worldVars, view, quit>>
      /\ quit = {} /\ UNCHANGED <<stones, eggs, lvl, pos, on>>
  BY DEF Connect, ReplicaInv, worldVars, placeVars, ritualVars, stoneVars, eggVars
<1>1. PICK teams \in sendTeams, players \in sendPlayers :
        wire' = <<msz(Width, Height), sgt(freq)>> \o teams \o mapTiles
                  \o players \o sendEggs
  BY DEF Connect, sendInitialState
<1>2. PICK map, nest : map = mapTiles /\ nest = sendEggs
  OBVIOUS
<1>3. PICK a, b : a = <<msz(Width, Height)>> /\ b = <<sgt(freq)>>
  OBVIOUS
<1>4. Truths(b)'
  <2>1. PICK f, l : f \in Nat /\ f = freq /\ l = sgt(f)
    BY GuiAssumption DEF GameInv, GuiTypeOK
  <2>2. IsTrue(l)'
    BY <2>1, AsidesTrue DEF Aside
  <2> QED  BY <1>3, <2>1, <2>2, TrueOne
<1>5. Truths(teams)'
  BY TeamsTrue
<1>6. Truths(map)' /\ \A t \in Tile : NamesTile(map, t)
  <2>1. MapIsTold'
    BY MapTold, PTL
  <2>2. mapTiles' = map
    BY <1>0, <1>2 DEF mapTiles, tileQuantities
  <2> QED  BY <2>1, <2>2 DEF MapIsTold
<1>7. Truths(players)' /\ \A p \in Alive : NamesLevel(players, p)
  BY <1>0, PlayersTrue
<1>8. Truths(nest)' /\ \A n \in EggIds : NamesEgg(nest, n)
  BY <1>0, <1>2, EggsTrue
<1>9. PICK S : /\ a \in Seq(S) /\ b \in Seq(S) /\ teams \in Seq(S) /\ map \in Seq(S)
               /\ players \in Seq(S) /\ nest \in Seq(S)
  <2>1. PICK B, C, D, E, F : /\ b \in Seq(B) /\ teams \in Seq(C) /\ map \in Seq(D)
                             /\ players \in Seq(E) /\ nest \in Seq(F)
    BY <1>4, <1>5, <1>6, <1>7, <1>8 DEF Truths
  <2>2. PICK A : a \in Seq(A)
    <3>1. a \in Seq({msz(Width, Height)})
      BY <1>3
    <3> QED  BY <3>1
  <2>3. PICK S : S = A \cup B \cup C \cup D \cup E \cup F
    OBVIOUS
  <2>4. A \subseteq S /\ B \subseteq S /\ C \subseteq S /\ D \subseteq S /\ E \subseteq S
        /\ F \subseteq S
    BY <2>3
  <2> QED  BY <2>1, <2>2, <2>4, SeqWider
<1>10. PICK c, d, e, rest : /\ c = b \o teams /\ d = c \o map /\ e = d \o players
                            /\ rest = e \o nest
  OBVIOUS
<1>11. c \in Seq(S) /\ d \in Seq(S) /\ e \in Seq(S) /\ rest \in Seq(S)
  BY <1>9, <1>10
<1>12. wire' = a \o rest
  <2>1. <<msz(Width, Height), sgt(freq)>> = a \o b
    BY <1>3
  <2>2. (a \o b) \o teams = a \o (b \o teams)
    BY <1>9
  <2>3. (a \o c) \o map = a \o (c \o map)
    <3>1. a \in Seq(S) /\ c \in Seq(S) /\ map \in Seq(S)
      BY <1>9, <1>11
    <3> QED  BY <3>1
  <2>4. (a \o d) \o players = a \o (d \o players)
    <3>1. a \in Seq(S) /\ d \in Seq(S) /\ players \in Seq(S)
      BY <1>9, <1>11
    <3> QED  BY <3>1
  <2>5. (a \o e) \o nest = a \o (e \o nest)
    <3>1. a \in Seq(S) /\ e \in Seq(S) /\ nest \in Seq(S)
      BY <1>9, <1>11
    <3> QED  BY <3>1
  <2> QED  BY <1>1, <1>2, <1>10, <2>1, <2>2, <2>3, <2>4, <2>5
<1>13. Truths(rest)'
  <2>1. Truths(c)'
    BY <1>4, <1>5, <1>10, TruthsOn
  <2>2. Truths(d)'
    BY <1>6, <1>10, <2>1, TruthsOn
  <2>3. Truths(e)'
    BY <1>7, <1>10, <2>2, TruthsOn
  <2> QED  BY <1>8, <1>10, <2>3, TruthsOn
<1>14. /\ \A t \in Tile : NamesTile(rest, t)
       /\ \A p \in Alive : NamesLevel(rest, p)
       /\ \A n \in EggIds : NamesEgg(rest, n)
  <2>1. \A t \in Tile : NamesTile(d, t)
    BY <1>6, <1>9, <1>10, <1>11, NamesOn
  <2>2. /\ \A t \in Tile : NamesTile(e, t)
        /\ \A p \in Alive : NamesLevel(e, p)
    BY <1>7, <1>9, <1>10, <1>11, <2>1, NamesOn
  <2> QED  BY <1>8, <1>9, <1>10, <1>11, <2>2, NamesOn
<1>15. TruthIs /\ TruthIs' /\ TrueLinesSay'
  BY TruthKnown, PTL
<1>16. Known = Alive /\ Alive' = Alive /\ quit' = {}
  BY <1>0 DEF Known, Alive, InPlay
<1>17. gameTruth' = gameTruth
  BY <1>0 DEF gameTruth, EggAt, InPlay
<1>18. /\ DOMAIN view.tiles = {} /\ DOMAIN view.eggs = {} /\ DOMAIN view.players = {}
  BY NothingShown
<1>19. ASSUME NEW i \in Item, mirror[i] # gameTruth'[i] PROVE SpeaksOf(rest, i)
  <2>1. ASSUME NEW t \in Tile, i = <<"stones", t>> PROVE SpeaksOf(rest, i)
    BY <1>14, <2>1, TileNamed
  <2>2. ASSUME NEW n \in 0 .. MaxEggs - 1, i = <<"egg", n>> PROVE SpeaksOf(rest, i)
    <3>1. mirror[i] = Unknown
      BY <1>18, <2>2, ShowsEgg DEF mirror
    <3>2. n \in EggIds
      BY <1>15, <1>17, <1>19, <2>2, <3>1 DEF TruthIs
    <3> QED  BY <1>14, <2>2, <3>2, EggNamed
  <2>3. ASSUME NEW p \in Players, i = <<"level", p>> PROVE SpeaksOf(rest, i)
    <3>1. mirror[i] = Unknown
      BY <1>18, <2>3, ShowsLevel DEF mirror
    <3>2. p \in Alive
      BY <1>15, <1>16, <1>17, <1>19, <2>3, <3>1 DEF TruthIs
    <3> QED  BY <1>14, <2>3, <3>2, LevelNamed
  <2> QED  BY <2>1, <2>2, <2>3, ItemKinds
<1>20. LinesOnly(rest) /\ R!Leads(Meanings(rest), mirror, gameTruth')
  BY <1>13, <1>15, <1>19, TruthsLead
<1>21. LinesOnly(a) /\ R!Leads(Meanings(a), mirror, mirror)
  BY <1>3, <1>18, SizeIsNoNews
<1>22. PICK first, then, all : /\ first = Meanings(a) /\ then = Meanings(rest)
                               /\ all = meanings' /\ all = Meanings(wire')
  BY DEF meanings, Meanings
<1>23. LinesOnly(wire') /\ all = first \o then
  BY <1>12, <1>20, <1>21, <1>22, MeaningsOn
<1>24. first \in Seq(R!Update) /\ then \in Seq(R!Update) /\ all \in Seq(R!Update)
  BY <1>20, <1>21, <1>22, <1>23, MeaningsType
<1>25. R!Leads(all, mirror, gameTruth)
  BY <1>17, <1>20, <1>21, <1>22, <1>23, <1>24, LeadsOn
<1>26. mirror' = mirror
  BY <1>0 DEF mirror
<1> QED  BY <1>0, <1>17, <1>22, <1>23, <1>24, <1>25, <1>26 DEF R!GoLive

-----------------------------------------------------------------------------
(* A step of the game is a publication, or nobody is there to be told. *)
LEMMA GameReplicated ==
  ASSUME GuiInv, GuiInv', ReplicaInv, GameStep \/ GUICommand
  PROVE  (R!Publish \/ R!Change) /\ LinesOnly(wire') /\ view' = view
<1>1. CASE connected
  <2>1. Reports /\ UNCHANGED <<connected, view>>
    BY <1>1, ReportedStep
  <2> QED  BY <1>1, <2>1, Published DEF GuiInv, ReplicaInv
<1>2. CASE ~connected
  <2>1. UNCHANGED <<connected, wire, view>>
    BY <1>2, SilentGame
  <2> QED  BY <1>2, <2>1, Unpublished DEF GuiInv, ReplicaInv
<1> QED  BY <1>1, <1>2

LEMMA GreetingReplicated ==
  ASSUME GuiInv, GuiInv', ReplicaInv, Connect
  PROVE  R!GoLive /\ LinesOnly(wire') /\ view' = view
<1>1. view = NewGameState /\ wire = <<>> /\ view' = view
  BY DEF Connect, GuiInv, StreamInv
<1> QED  BY <1>1, GreetingLeads DEF GuiInv

LEMMA LineReplicated ==
  ASSUME GuiInv, ReplicaInv, Deliver
  PROVE  R!Deliver /\ LinesOnly(wire') /\ view' \in GameState
<1>1. PICK l : l = Head(wire) /\ wire # <<>> /\ wire' = Tail(wire) /\ view' = handleLine(view, l)
  BY DEF Deliver
<1>2. Knows(view, l)
  <2>1. PICK m : Works(view, wire, m)
    BY <1>1 DEF GuiInv, StreamInv
  <2> QED  BY <1>1, <2>1, WorksTail
<1>3. /\ LinesOnly(wire') /\ Line(l) /\ Meanings(wire) # <<>>
      /\ Head(Meanings(wire)) = Meaning(l) /\ Tail(Meanings(wire)) = Meanings(wire')
  BY <1>1, MeaningsTail DEF ReplicaInv
<1>4. PICK m, w : m = view /\ w = view' /\ m \in GameState /\ w = handleLine(m, l)
  BY <1>1 DEF ReplicaInv
<1>5. w \in GameState /\ \A i \in Item : TakenIn(m, l, w, i)
  BY <1>2, <1>3, <1>4, LineHandled
<1>6. \A i \in Item : IF Meaning(l)[i] = {} THEN mirror'[i] = mirror[i]
                                            ELSE mirror'[i] \in Meaning(l)[i]
  <2>1. mirror = [i \in Item |-> shownIn(m, i)] /\ mirror' = [i \in Item |-> shownIn(w, i)]
    BY <1>4 DEF mirror
  <2> QED  BY <1>5, <2>1 DEF TakenIn
<1>7. mirror' \in [Item -> Value]
  <2>1. (view \in GameState => mirror \in [Item -> Value])'
    BY MirrorType, PTL
  <2> QED  BY <1>4, <1>5, <2>1
<1>8. meanings = Meanings(wire) /\ meanings' = Meanings(wire')
  BY DEF meanings, Meanings
<1>9. UNCHANGED <<connected, gameTruth>>
  BY DEF Deliver, gameTruth, EggAt, InPlay, worldVars, placeVars, ritualVars, stoneVars,
         eggVars, historyVars
<1> QED  BY <1>3, <1>4, <1>5, <1>6, <1>7, <1>8, <1>9 DEF R!Deliver

LEMMA QuitGone ==
  ASSUME GuiInv, GuiInv', ReplicaInv, [GuiNext]_guiVars
  PROVE  quit' \subseteq hatched' /\ quit' \cap Alive' = {} /\ (~connected' => quit' = {})
<1>1. /\ WorldInv /\ WorldInv' /\ [WorldNext]_worldVars
      /\ quit \subseteq hatched /\ quit \cap Alive = {} /\ (~connected => quit = {})
  BY GuiStepsWorld DEF GuiInv, GameInv, ReplicaInv
<1>2. hatched \subseteq hatched'
  BY <1>1, HatchedGrows
<1>3. \A q \in quit : q \notin Alive'
  BY <1>1, NobodyReturns
<1>4. ASSUME NEW p \in Players, HangsUp(p)
      PROVE  /\ quit' \subseteq hatched' /\ quit' \cap Alive' = {}
             /\ ~connected' => quit' = {}
  <2>1. p \in Alive /\ Alive' = Alive \ {p} /\ p \in hatched
    BY <1>1, <1>4, LeavesAlive, AliveHatched DEF GuiInv
  <2>2. quit' = (IF connected THEN quit \cup {p} ELSE quit) /\ connected' = connected
    BY <1>4 DEF HangsUp, streamVars
  <2> QED  BY <1>1, <1>2, <2>1, <2>2
<1>5. ASSUME quit' = quit, connected => connected'
      PROVE  /\ quit' \subseteq hatched' /\ quit' \cap Alive' = {}
             /\ ~connected' => quit' = {}
  BY <1>1, <1>2, <1>3, <1>5
<1>6. ASSUME NEW p \in Players,
             \/ Joins(p) \/ Moves(p) \/ Takes(p) \/ Drops(p) \/ Lays(p) \/ Pushes(p)
             \/ Speaks(p) \/ StartsRitual(p) \/ EndsRitual(p)
      PROVE  quit' = quit /\ connected' = connected
  BY <1>6 DEF Joins, Moves, Takes, Drops, emitStones, Lays, Pushes, Speaks, StartsRitual,
              EndsRitual, Quiet, historyVars
<1>7. ASSUME Lives \/ Regrows PROVE quit' = quit /\ connected' = connected
  BY <1>7 DEF Lives, Regrows, Quiet
<1>8. ASSUME GUICommand PROVE quit' = quit /\ connected' = connected
  BY <1>8 DEF GUICommand, AskWorld, handleGUIPlayerQuery, guiSetTimeUnit, Reply
<1>9. ASSUME Connect \/ Deliver \/ UNCHANGED guiVars
      PROVE  quit' = quit /\ (connected => connected')
  BY <1>9 DEF Connect, Deliver, guiVars, streamVars, historyVars
<1> QED  BY <1>4, <1>5, <1>6, <1>7, <1>8, <1>9 DEF GuiNext, GameStep

LEMMA ReplicaStep ==
  ASSUME GuiInv, GuiInv', ReplicaInv, [GuiNext]_guiVars
  PROVE  ReplicaInv' /\ [R!Next]_(R!vars)
<1>0. quit' \subseteq hatched' /\ quit' \cap Alive' = {} /\ (~connected' => quit' = {})
  BY QuitGone
<1>1. CASE GameStep \/ GUICommand
  <2>1. (R!Publish \/ R!Change) /\ LinesOnly(wire') /\ view' = view
    BY <1>1, GameReplicated
  <2>2. ReplicaInv'
    BY <1>0, <2>1 DEF ReplicaInv
  <2> QED  BY <2>1, <2>2 DEF R!Next
<1>2. CASE Connect
  <2>1. R!GoLive /\ LinesOnly(wire') /\ view' = view
    BY <1>2, GreetingReplicated
  <2>2. ReplicaInv'
    BY <1>0, <2>1 DEF ReplicaInv
  <2> QED  BY <2>1, <2>2 DEF R!Next
<1>3. CASE Deliver
  <2>1. R!Deliver /\ LinesOnly(wire') /\ view' \in GameState
    BY <1>3, LineReplicated
  <2>2. ReplicaInv'
    BY <1>0, <2>1 DEF ReplicaInv
  <2> QED  BY <2>1, <2>2 DEF R!Next
<1>4. CASE UNCHANGED guiVars
  <2>1. UNCHANGED <<worldVars, connected, wire, view, quit>>
    BY <1>4 DEF guiVars, streamVars, historyVars
  <2>2. ReplicaInv'
    BY <1>0, <2>1 DEF ReplicaInv
  <2>3. UNCHANGED R!vars
    BY <2>1 DEF R!vars, gameTruth, EggAt, InPlay, meanings, mirror, worldVars, placeVars,
                ritualVars, stoneVars, eggVars
  <2> QED  BY <2>2, <2>3
<1> QED  BY <1>1, <1>2, <1>3, <1>4 DEF GuiNext

LEMMA ReplicaStarts ==
  ASSUME GuiInit
  PROVE  ReplicaInv /\ R!Init
<1>1. GameInv /\ ~connected /\ wire = <<>> /\ view = NewGameState /\ quit = {}
  BY GuiInvInit DEF GuiInit, GuiInv
<1>2. view \in GameState
  BY <1>1, NothingShown
<1>3. LinesOnly(wire)
  <2>1. wire \in Seq({}) /\ DOMAIN wire = {}
    BY <1>1
  <2> QED  BY <2>1 DEF LinesOnly
<1>4. ReplicaInv
  BY <1>1, <1>2, <1>3 DEF ReplicaInv
<1>5. gameTruth \in [Item -> Value] /\ mirror \in [Item -> Value]
  BY <1>1, <1>2, TruthType, MirrorType
<1>6. meanings = <<>>
  BY <1>1 DEF meanings
<1>7. connected = FALSE
  BY DEF GuiInit
<1> QED  BY <1>4, <1>5, <1>6, <1>7 DEF R!Init

(***************************************************************************)
(* The event stream keeps a replica: every change of a tile, an egg or a   *)
(* level is announced in the step in which it happens, the greeting leaves *)
(* none out, and the handlers take in exactly what the lines say.          *)
(***************************************************************************)
THEOREM GameReplica == GuiSpec => KeepsReplica
<1>1. GuiInv /\ GuiInv' /\ ReplicaInv /\ [GuiNext]_guiVars
        => ReplicaInv' /\ [R!Next]_(R!vars)
  BY ReplicaStep
<1>2. GuiInit => ReplicaInv /\ R!Init
  BY ReplicaStarts
<1> QED  BY <1>1, <1>2, GuiInvariant, PTL DEF GuiSpec, KeepsReplica, R!Spec

(* So a client with nothing on its way to it shows the tiles, eggs and levels *)
(* as they are.                                                               *)
THEOREM MirrorCatchesUp == GuiSpec => []R!CaughtUp
BY GameReplica, ReplicaCatchesUp, PTL DEF KeepsReplica
=============================================================================
