----------------------------- MODULE BotProofs -----------------------------
(***************************************************************************)
(* Theorems about the bot, for every queue length, every polling interval, *)
(* every set of commands its trees may send, and any number of rituals.    *)
(***************************************************************************)
EXTENDS Bot, SequenceTheorems, TLAPS

LineType == [kind : Kind, lvl : 0 .. MaxLevel, answers : Nat]
PendingType == [verb : Verb, id : Nat, got : {0, 1}]

(***************************************************************************)
(* The inductive invariant.  LevelKnown speaks of the last line that shows *)
(* a level; the ones before it must show levels too, for the bot to keep   *)
(* its type while it reads them.                                           *)
(***************************************************************************)
RaisesShown == \A i \in DOMAIN toBot : toBot[i].kind = "level" => toBot[i].lvl >= 1

BotInv == TypeOK /\ RaisesShown /\ LevelKnown

(* A turn of the bot sends at most one command. *)
LEMMA TickType ==
  ASSUME TypeOK, NEW s \in Seq(PendingType), _tick(s)
  PROVE  /\ pending' \in Seq(PendingType)
         /\ tick_count' \in 1 .. MaxTicks
         /\ toServer' \in Seq(Command)
<1>1. CASE s # <<>>
  BY <1>1 DEF _tick, TypeOK
<1>2. CASE s = <<>>
  <2>1. tick_count' \in 1 .. MaxTicks /\ tick_count' \in Nat
    BY <1>2, BotAssumption DEF _tick, TypeOK
  <2>2. PICK v \in Due(tick_count') : send(s, v, tick_count')
    BY <1>2 DEF _tick
  <2>3. v \in Verb
    BY DEF Due, Verb
  <2>4. CASE Len(s) < MaxInFlight
    <3> DEFINE p == [verb |-> v, id |-> tick_count', got |-> 0]
               c == [verb |-> v, id |-> tick_count']
    <3>1. p \in PendingType /\ c \in Command
      BY <2>1, <2>3 DEF PendingType, Command
    <3>2. pending' = Append(s, p) /\ toServer' = Append(toServer, c)
      BY <2>2, <2>4 DEF send
    <3>3. toServer \in Seq(Command)
      BY DEF TypeOK
    <3> HIDE DEF p, c
    <3>4. Append(s, p) \in Seq(PendingType) /\ Append(toServer, c) \in Seq(Command)
      BY <3>1, <3>3, AppendProperties
    <3> QED  BY <2>1, <3>2, <3>4
  <2>5. CASE ~(Len(s) < MaxInFlight)
    BY <2>1, <2>2, <2>5 DEF send, TypeOK
  <2> QED  BY <2>4, <2>5
<1> QED  BY <1>1, <1>2

(* The line at the head of the wire, and what is behind it. *)
LEMMA HeadLine ==
  ASSUME TypeOK, toBot # <<>>
  PROVE  /\ Head(toBot) \in LineType
         /\ Tail(toBot) \in Seq(LineType)
<1>1. toBot \in Seq(LineType)
  BY DEF TypeOK, LineType
<1> QED  BY <1>1, HeadTailProperties

(* The level the bot has after it has read a line, whoever it is meant for. *)
LEMMA ReadLevel ==
  ASSUME BotReads
  PROVE  level' = IF Head(toBot).kind = "level" THEN Head(toBot).lvl ELSE level
<1> DEFINE l == Head(toBot)
<1>1. CASE Notified(l)
  BY <1>1 DEF Notified, Notification
<1>2. CASE TakeNews(l)
  BY <1>2 DEF TakeNews
<1>3. CASE feed_line(l) /\ l.kind = "level"
  <2>1. Awaits("Incantation")
    BY <1>3 DEF feed_line, News
  <2>2. is_response_terminal(Head(pending), l)
    BY <1>3 DEF is_response_terminal
  <2>3. Readable(Head(pending).verb, l)
    BY <2>1 DEF Readable, Awaits
  <2> QED  BY <1>3, <2>1, <2>2, <2>3 DEF feed_line, Awaits
<1>4. CASE feed_line(l) /\ l.kind # "level"
  BY <1>4 DEF feed_line
<1> QED  BY <1>1, <1>2, <1>3, <1>4 DEF BotReads

LEMMA FeedType ==
  ASSUME TypeOK, NEW l \in LineType, feed_line(l)
  PROVE  /\ state' \in {"running", "dead", "crashed"}
         /\ pending' \in Seq(PendingType)
         /\ tick_count' \in 1 .. MaxTicks
         /\ toServer' \in Seq(Command)
         /\ passive' = passive
<1> DEFINE head == Head(pending)
<1>1. pending \in Seq(PendingType)
  BY DEF TypeOK, PendingType
<1>2. CASE pending = <<>>
  BY <1>1, <1>2 DEF feed_line, TypeOK
<1>3. CASE pending # <<>>
  <2>1. head \in PendingType /\ Tail(pending) \in Seq(PendingType)
    BY <1>1, <1>3, HeadTailProperties
  <2>2. CASE ~is_response_terminal(head, l)
    <3> DEFINE p == [head EXCEPT !.got = @ + 1]
    <3>1. p \in PendingType
      BY <2>1, <2>2 DEF is_response_terminal, PendingType
    <3>2. /\ pending' = <<p>> \o Tail(pending)
          /\ UNCHANGED <<state, tick_count, toServer, passive>>
      BY <1>3, <2>2 DEF feed_line
    <3> HIDE DEF p
    <3>3. <<p>> \in Seq(PendingType)
      BY <3>1
    <3>4. <<p>> \o Tail(pending) \in Seq(PendingType)
      BY <2>1, <3>3, ConcatProperties
    <3> QED  BY <3>2, <3>4 DEF TypeOK
  <2>3. CASE is_response_terminal(head, l) /\ Readable(head.verb, l)
    <3>1. _tick(Tail(pending)) /\ UNCHANGED <<state, passive>>
      BY <1>3, <2>3 DEF feed_line
    <3> QED  BY <2>1, <3>1, TickType DEF TypeOK
  <2>4. CASE is_response_terminal(head, l) /\ ~Readable(head.verb, l)
    BY <1>1, <1>3, <2>4 DEF feed_line, TypeOK
  <2> QED  BY <2>2, <2>3, <2>4
<1> QED  BY <1>2, <1>3

(***************************************************************************)
(* Reading takes one line off the wire: what is known of the rest stays,   *)
(* and the bot's level catches up with the line.                           *)
(***************************************************************************)
LEMMA ReadKeeps ==
  ASSUME BotInv, BotReads
  PROVE  BotInv'
<1> DEFINE l == Head(toBot)
<1>1. /\ toBot \in Seq(LineType) /\ toBot # <<>>
      /\ l \in LineType /\ toBot' \in Seq(LineType) /\ toBot' = Tail(toBot)
  BY HeadLine DEF BotInv, TypeOK, BotReads, LineType
<1>2. /\ Len(toBot) \in Nat /\ Len(toBot) >= 1 /\ Len(toBot') = Len(toBot) - 1
      /\ DOMAIN toBot = 1 .. Len(toBot) /\ DOMAIN toBot' = 1 .. Len(toBot')
      /\ \A i \in 1 .. Len(toBot') : toBot'[i] = toBot[i + 1]
      /\ l = toBot[1]
  BY <1>1, HeadTailProperties, LenProperties, EmptySeq
<1>3. level' = IF toBot[1].kind = "level" THEN toBot[1].lvl ELSE level
  BY <1>2, ReadLevel
<1>4. level' \in 1 .. MaxLevel
  <2>1. toBot[1].lvl \in 0 .. MaxLevel
    BY <1>1, <1>2 DEF LineType
  <2>2. toBot[1].kind = "level" => toBot[1].lvl >= 1
    BY <1>2 DEF BotInv, RaisesShown
  <2>3. level \in 1 .. MaxLevel
    BY DEF BotInv, TypeOK
  <2> QED  BY <1>3, <2>1, <2>2, <2>3, BotAssumption
<1>5. RaisesShown'
  BY <1>2 DEF BotInv, RaisesShown
<1>6. UNCHANGED serverVars
  BY DEF BotReads
<1>7. LevelKnown'
  <2>1. UNCHANGED lvl
    BY <1>6 DEF serverVars
  <2>2. \A i \in DOMAIN toBot' : i \in Raised' <=> i + 1 \in Raised
    BY <1>2 DEF Raised
  <2>3. CASE Raised' = {}
    <3>1. ASSUME NEW i \in Raised, i # 1 PROVE FALSE
      <4>1. i \in 1 .. Len(toBot)
        BY <1>2 DEF Raised
      <4>2. i - 1 \in DOMAIN toBot' /\ (i - 1) + 1 = i
        BY <1>2, <3>1, <4>1
      <4> QED  BY <2>2, <2>3, <4>2
    <3>2. CASE 1 \in Raised
      BY <1>3, <2>1, <2>3, <3>1, <3>2 DEF BotInv, LevelKnown, Raised
    <3>3. CASE 1 \notin Raised
      <4>1. Raised = {} /\ level' = level
        BY <1>2, <1>3, <3>1, <3>3 DEF Raised
      <4> QED  BY <2>1, <2>3, <4>1 DEF BotInv, LevelKnown
    <3> QED  BY <3>2, <3>3
  <2>4. CASE Raised' # {}
    <3>1. PICK j \in Raised' : TRUE
      BY <2>4
    <3>2. j \in DOMAIN toBot' /\ j + 1 \in Raised
      BY <2>2, <3>1 DEF Raised
    <3>3. PICK i \in Raised : toBot[i].lvl = lvl /\ \A k \in Raised : k <= i
      BY <3>2 DEF BotInv, LevelKnown
    <3>4. i \in 1 .. Len(toBot) /\ i > 1
      BY <1>2, <3>2, <3>3 DEF Raised
    <3>5. /\ i - 1 \in Raised'
          /\ toBot'[i - 1].lvl = lvl
      BY <1>2, <2>2, <3>3, <3>4
    <3>6. \A k \in Raised' : k <= i - 1
      BY <1>2, <2>2, <3>3, <3>4 DEF Raised
    <3> QED  BY <2>1, <2>4, <3>5, <3>6 DEF LevelKnown
  <2> QED  BY <2>3, <2>4
<1>8. TypeOK'
  <2>1. CASE Notified(l) \/ TakeNews(l)
    <3>1. /\ state' \in {"running", "dead", "crashed"}
          /\ UNCHANGED <<pending, tick_count, toServer>>
          /\ passive' \in BOOLEAN
      BY <2>1 DEF Notified, TakeNews, BotInv, TypeOK
    <3> QED  BY <1>1, <1>4, <1>6, <3>1 DEF BotInv, TypeOK, serverVars, LineType
  <2>2. CASE feed_line(l)
    <3>1. /\ state' \in {"running", "dead", "crashed"}
          /\ pending' \in Seq(PendingType)
          /\ tick_count' \in 1 .. MaxTicks
          /\ toServer' \in Seq(Command)
          /\ passive' = passive
      BY <1>1, <2>2, FeedType DEF BotInv
    <3> QED  BY <1>1, <1>4, <1>6, <3>1 DEF BotInv, TypeOK, serverVars, LineType, PendingType
  <2> QED  BY <2>1, <2>2 DEF BotReads
<1> QED  BY <1>5, <1>7, <1>8 DEF BotInv

(***************************************************************************)
(* Saying a line: if it shows a level, it is the player's new one.         *)
(***************************************************************************)
LEMMA SayKeeps ==
  ASSUME BotInv, NEW l \in LineType, Say(l), UNCHANGED level,
         lvl' \in 1 .. MaxLevel,
         l.kind = "level" => l.lvl = lvl',
         l.kind # "level" => lvl' = lvl
  PROVE  toBot' \in Seq(LineType) /\ RaisesShown' /\ LevelKnown'
<1>1. toBot \in Seq(LineType) /\ toBot' = Append(toBot, l)
  BY DEF BotInv, TypeOK, LineType, Say
<1>2. /\ toBot' \in Seq(LineType)
      /\ Len(toBot) \in Nat /\ Len(toBot') = Len(toBot) + 1
      /\ DOMAIN toBot = 1 .. Len(toBot) /\ DOMAIN toBot' = 1 .. Len(toBot')
      /\ \A i \in 1 .. Len(toBot) : toBot'[i] = toBot[i]
      /\ toBot'[Len(toBot')] = l
  BY <1>1, AppendProperties, LenProperties
<1>3. RaisesShown'
  BY <1>2, BotAssumption DEF BotInv, RaisesShown
<1>4. CASE l.kind = "level"
  <2>1. Len(toBot') \in Raised' /\ \A k \in Raised' : k <= Len(toBot')
    BY <1>2, <1>4 DEF Raised
  <2> QED  BY <1>2, <1>3, <1>4, <2>1 DEF LevelKnown
<1>5. CASE l.kind # "level"
  <2>1. Raised' = Raised
    BY <1>2, <1>5 DEF Raised
  <2>2. \A i \in Raised : toBot'[i] = toBot[i]
    BY <1>2 DEF Raised
  <2> QED  BY <1>2, <1>3, <1>5, <2>1, <2>2 DEF BotInv, LevelKnown
<1> QED  BY <1>4, <1>5

(* Saying a line that shows no level. *)
LEMMA SayPlainKeeps ==
  ASSUME BotInv, NEW kind \in Kind \ {"level"}, NEW n \in 0 .. MaxLevel, NEW id \in Nat,
         Say(Line(kind, n, id)), UNCHANGED <<level, lvl>>
  PROVE  toBot' \in Seq(LineType) /\ RaisesShown' /\ LevelKnown'
<1> DEFINE l == Line(kind, n, id)
<1>1. l \in LineType /\ l.kind # "level"
  BY DEF Line, LineType
<1>2. lvl' \in 1 .. MaxLevel
  BY DEF BotInv, TypeOK
<1> HIDE DEF l
<1>3. Say(l)
  BY DEF l
<1> QED  BY <1>1, <1>2, <1>3, SayKeeps

LEMMA RitualKeeps ==
  ASSUME BotInv, NEW id \in Nat, RitualEnds(id), UNCHANGED level
  PROVE  /\ lvl' \in 1 .. MaxLevel /\ frozen' \in BOOLEAN
         /\ toBot' \in Seq(LineType) /\ RaisesShown' /\ LevelKnown'
<1>1. CASE lvl < MaxLevel /\ lvl' = lvl + 1 /\ Say(Line("level", lvl', id))
  <2> DEFINE l == Line("level", lvl', id)
  <2>1. lvl' \in 1 .. MaxLevel
    BY <1>1, BotAssumption DEF BotInv, TypeOK
  <2>2. l \in LineType /\ l.kind = "level" /\ l.lvl = lvl'
    BY <2>1 DEF Line, LineType, Kind
  <2>3. Say(l) /\ frozen' \in BOOLEAN
    BY <1>1 DEF RitualEnds
  <2> HIDE DEF l
  <2> QED  BY <2>1, <2>2, <2>3, SayKeeps
<1>2. CASE UNCHANGED lvl /\ Say(Line("ko", 0, id))
  <2>1. "ko" \in Kind \ {"level"} /\ 0 \in 0 .. MaxLevel
    BY BotAssumption DEF Kind
  <2>2. lvl' \in 1 .. MaxLevel /\ frozen' \in BOOLEAN
    BY <1>2 DEF RitualEnds, BotInv, TypeOK
  <2> QED  BY <1>2, <2>1, <2>2, SayPlainKeeps
<1> QED  BY <1>1, <1>2 DEF RitualEnds

LEMMA FrontType ==
  ASSUME BotInv, queue # <<>>
  PROVE  Front.id \in Nat /\ Tail(queue) \in Seq(Command)
<1>1. queue \in Seq(Command)
  BY DEF BotInv, TypeOK
<1>2. Front \in Command /\ Tail(queue) \in Seq(Command)
  BY <1>1, HeadTailProperties DEF Front
<1> QED  BY <1>2 DEF Command

LEMMA ServerBeginsKeeps ==
  ASSUME BotInv, ServerBegins
  PROVE  BotInv'
<1>1. Front.id \in Nat /\ Tail(queue) \in Seq(Command)
  BY FrontType DEF ServerBegins
<1>2. UNCHANGED <<state, pending, passive, level, tick_count, toServer, lvl, rituals>>
  BY DEF ServerBegins, botVars
<1>3. {"underway", "ko"} \subseteq Kind \ {"level"} /\ 0 \in 0 .. MaxLevel
  BY BotAssumption DEF Kind
<1>4. toBot' \in Seq(LineType) /\ RaisesShown' /\ LevelKnown'
  <2>1. CASE UNCHANGED toBot
    BY <1>2, <2>1 DEF BotInv, TypeOK, LineType, RaisesShown, LevelKnown, Raised
  <2>2. CASE Say(Line("underway", 0, Front.id))
    BY <1>1, <1>2, <1>3, <2>2, SayPlainKeeps
  <2>3. CASE Say(Line("ko", 0, Front.id))
    BY <1>1, <1>2, <1>3, <2>3, SayPlainKeeps
  <2> QED  BY <2>1, <2>2, <2>3 DEF ServerBegins
<1>5. queue' \in Seq(Command) /\ begun' \in BOOLEAN /\ frozen' \in BOOLEAN
  BY <1>1 DEF ServerBegins, BotInv, TypeOK
<1> QED  BY <1>2, <1>4, <1>5 DEF BotInv, TypeOK, LineType

LEMMA ServerCompletesKeeps ==
  ASSUME BotInv, ServerCompletes
  PROVE  BotInv'
<1>1. Front.id \in Nat /\ Tail(queue) \in Seq(Command)
  BY FrontType DEF ServerCompletes
<1>2. /\ UNCHANGED <<state, pending, passive, level, tick_count, toServer, rituals>>
      /\ queue' \in Seq(Command) /\ begun' \in BOOLEAN
  BY <1>1 DEF ServerCompletes, botVars
<1>3. /\ toBot' \in Seq(LineType) /\ RaisesShown' /\ LevelKnown'
      /\ lvl' \in 1 .. MaxLevel /\ frozen' \in BOOLEAN
  <2>1. CASE Front.verb # "Incantation"
    <3>1. PICK kind \in Reply(Front.verb) :
            Say(Line(kind, IF kind = "look" THEN lvl ELSE 0, Front.id))
      BY <2>1 DEF ServerCompletes
    <3>2. kind \in Kind \ {"level"}
      BY DEF Reply, Kind
    <3>3. lvl \in 0 .. MaxLevel /\ 0 \in 0 .. MaxLevel
      BY BotAssumption DEF BotInv, TypeOK
    <3>4. UNCHANGED <<lvl, frozen>>
      BY <2>1 DEF ServerCompletes
    <3>5. CASE kind = "look"
      BY <1>1, <1>2, <3>1, <3>2, <3>3, <3>4, <3>5, SayPlainKeeps DEF BotInv, TypeOK
    <3>6. CASE kind # "look"
      BY <1>1, <1>2, <3>1, <3>2, <3>3, <3>4, <3>6, SayPlainKeeps DEF BotInv, TypeOK
    <3> QED  BY <3>5, <3>6
  <2>2. CASE Front.verb = "Incantation"
    <3>1. RitualEnds(Front.id)
      BY <2>2 DEF ServerCompletes
    <3> QED  BY <1>1, <1>2, <3>1, RitualKeeps
  <2> QED  BY <2>1, <2>2
<1> QED  BY <1>2, <1>3 DEF BotInv, TypeOK, LineType

LEMMA OtherStepsKeep ==
  ASSUME BotInv, ServerReads \/ OtherStarts \/ OtherEnds \/ Notify \/ UNCHANGED vars
  PROVE  BotInv'
<1> USE DEF BotInv, TypeOK
<1>1. CASE ServerReads
  <2>1. UNCHANGED <<state, pending, passive, level, tick_count, toBot, begun, lvl, frozen, rituals>>
    BY <1>1 DEF ServerReads, botVars
  <2>2. Head(toServer) \in Command /\ Tail(toServer) \in Seq(Command)
    BY <1>1, HeadTailProperties DEF ServerReads
  <2>3. Append(queue, Head(toServer)) \in Seq(Command)
    BY <2>2, AppendProperties
  <2>4. queue' \in Seq(Command) /\ toServer' \in Seq(Command)
    BY <1>1, <2>2, <2>3 DEF ServerReads
  <2> QED  BY <2>1, <2>4 DEF RaisesShown, LevelKnown, Raised
<1>2. CASE OtherStarts
  BY <1>2 DEF OtherStarts, botVars, RaisesShown, LevelKnown, Raised
<1>3. CASE OtherEnds
  <2>1. /\ UNCHANGED <<state, pending, passive, level, tick_count, toServer, queue, begun>>
        /\ RitualEnds(0) /\ rituals' \in 0 .. MaxRituals
    BY <1>3, BotAssumption DEF OtherEnds, botVars
  <2>2. /\ lvl' \in 1 .. MaxLevel /\ frozen' \in BOOLEAN
        /\ toBot' \in Seq(LineType) /\ RaisesShown' /\ LevelKnown'
    BY <2>1, RitualKeeps
  <2> QED  BY <2>1, <2>2 DEF LineType
<1>4. CASE Notify
  <2>1. /\ UNCHANGED <<state, pending, passive, level, tick_count, toServer>>
        /\ UNCHANGED <<queue, begun, lvl, frozen, rituals>>
    BY <1>4 DEF Notify, botVars, serverVars
  <2>2. PICK kind \in Notification : Say(Line(kind, 0, 0))
    BY <1>4 DEF Notify
  <2>3. kind \in Kind \ {"level"} /\ 0 \in 0 .. MaxLevel
    BY BotAssumption DEF Notification, Kind
  <2>4. toBot' \in Seq(LineType) /\ RaisesShown' /\ LevelKnown'
    BY <2>1, <2>2, <2>3, SayPlainKeeps
  <2> QED  BY <2>1, <2>4 DEF LineType
<1>5. CASE UNCHANGED vars
  BY <1>5 DEF vars, botVars, serverVars, RaisesShown, LevelKnown, Raised
<1> QED  BY <1>1, <1>2, <1>3, <1>4, <1>5

LEMMA BotInvInit == Init => BotInv
<1> SUFFICES ASSUME Init PROVE BotInv
  OBVIOUS
<1>1. PICK v \in Due(1) :
        /\ pending = <<[verb |-> v, id |-> 1, got |-> 0]>>
        /\ toServer = <<[verb |-> v, id |-> 1]>>
  BY DEF Init
<1>2. v \in Verb
  BY DEF Due, Verb
<1>3. pending \in Seq(PendingType) /\ toServer \in Seq(Command)
  BY <1>1, <1>2 DEF PendingType, Command
<1>4. TypeOK
  <2>1. toBot \in Seq([kind : Kind, lvl : 0 .. MaxLevel, answers : Nat]) /\ queue \in Seq(Command)
    BY EmptySeq DEF Init
  <2>2. tick_count \in 1 .. MaxTicks /\ level \in 1 .. MaxLevel /\ lvl \in 1 .. MaxLevel
        /\ rituals \in 0 .. MaxRituals
    BY BotAssumption DEF Init
  <2> QED  BY <1>3, <2>1, <2>2 DEF Init, TypeOK, PendingType
<1>5. DOMAIN toBot = {}
  BY EmptySeq DEF Init
<1>6. Raised = {}
  BY <1>5 DEF Raised
<1>7. RaisesShown /\ LevelKnown
  BY <1>5, <1>6 DEF RaisesShown, LevelKnown, Init
<1> QED  BY <1>4, <1>7 DEF BotInv

(* The invariant of the bot holds at the start and every step keeps it. *)
THEOREM BotInvariant == Spec => []BotInv
<1>1. BotInv /\ [Next]_vars => BotInv'
  BY ReadKeeps, ServerBeginsKeeps, ServerCompletesKeeps, OtherStepsKeep DEF Next, Stay
<1> QED  BY <1>1, BotInvInit, PTL DEF Spec

(***************************************************************************)
(* The bot's level, once it has read what is on the wire, is its player's: *)
(* whoever performed the ritual, and whichever command the line was taken  *)
(* to answer.                                                              *)
(***************************************************************************)
THEOREM LevelAlwaysKnown == Spec => []LevelKnown
<1>1. BotInv => LevelKnown
  BY DEF BotInv
<1> QED  BY <1>1, BotInvariant, PTL

(* The bot's variables keep their types; no level beyond the highest. *)
THEOREM BotTypeCorrect == Spec => []TypeOK
<1>1. BotInv => TypeOK
  BY DEF BotInv
<1> QED  BY <1>1, BotInvariant, PTL

-----------------------------------------------------------------------------
(***************************************************************************)
(* How far the server may be behind.  A command is known by the turn it    *)
(* was sent in.  The commands that the server has not answered, oldest     *)
(* first, and the answers to polls that are on the wire are all of turns   *)
(* later than the last poll the bot has passed: a poll can only be passed  *)
(* with the answer to a poll, the ones before it have had theirs, so it is *)
(* its own, and then everything sent before it has been answered.  Nothing *)
(* is said of the other lines, which the bot may take for what it likes.   *)
(***************************************************************************)
Poll(n) == n % InventoryPoll = 0 \/ n % ConnectPoll = 0

Unanswered == Len(queue) + Len(toServer)

Out(i) == IF i <= Len(queue) THEN queue[i] ELSE toServer[i - Len(queue)]

PollAnswers == {i \in DOMAIN toBot : toBot[i].kind \in {"inventory", "number"}}

Fresh(id) == id <= tick_count /\ \A p \in 0 .. tick_count - 1 : Poll(p) => id > p

OnePending ==
  /\ Len(pending) = 1
  /\ pending[1].id = tick_count /\ pending[1].verb \in Due(tick_count)

CommandsFresh ==
  \A i \in 1 .. Unanswered : Fresh(Out(i).id) /\ Out(i).verb \in Due(Out(i).id)

CommandsInOrder ==
  \A i, j \in 1 .. Unanswered : i < j => Out(i).id + (j - i) <= Out(j).id

AnswersFresh ==
  \A i \in PollAnswers : Fresh(toBot[i].answers) /\ Poll(toBot[i].answers)

AnswersInOrder ==
  /\ \A i, j \in PollAnswers : i < j => toBot[i].answers < toBot[j].answers
  /\ \A i \in PollAnswers, j \in 1 .. Unanswered : toBot[i].answers < Out(j).id

PollInv ==
  TypeOK /\ OnePending /\ CommandsFresh /\ CommandsInOrder /\ AnswersFresh /\ AnswersInOrder

(* What a turn sends is a poll's command if and only if it is a poll's turn. *)
LEMMA PollsAreDue ==
  ASSUME NEW n \in Nat, NEW v \in Due(n)
  PROVE  /\ v \in Verb
         /\ Poll(n) <=> v \in {"Inventory", "Connect_nbr"}
BY PollAssumption DEF Due, Verb, Poll

(* The ids of what the invariant speaks of are numbers. *)
Numbered ==
  /\ Unanswered \in Nat /\ tick_count \in Nat \ {0}
  /\ \A i \in 1 .. Unanswered : Out(i).id \in Nat
  /\ \A i \in PollAnswers : i \in Nat \ {0} /\ toBot[i].answers \in Nat

LEMMA OutTyped == TypeOK => Numbered
<1> SUFFICES ASSUME TypeOK PROVE Numbered
  OBVIOUS
<1>1. /\ queue \in Seq(Command) /\ toServer \in Seq(Command)
      /\ Len(queue) \in Nat /\ Len(toServer) \in Nat
  BY LenProperties DEF TypeOK
<1>2. /\ \A i \in 1 .. Len(queue) : queue[i] \in Command
      /\ \A i \in 1 .. Len(toServer) : toServer[i] \in Command
  BY <1>1, ElementOfSeq
<1>3. ASSUME NEW i \in 1 .. Unanswered PROVE Out(i).id \in Nat
  <2>1. CASE i <= Len(queue)
    <3>1. i \in 1 .. Len(queue)
      BY <1>1, <2>1 DEF Unanswered
    <3> QED  BY <1>2, <2>1, <3>1 DEF Out, Command
  <2>2. CASE ~(i <= Len(queue))
    <3>1. i - Len(queue) \in 1 .. Len(toServer)
      BY <1>1, <2>2 DEF Unanswered
    <3> QED  BY <1>2, <2>2, <3>1 DEF Out, Command
  <2> QED  BY <2>1, <2>2
<1>4. toBot \in Seq(LineType) /\ DOMAIN toBot = 1 .. Len(toBot) /\ Len(toBot) \in Nat
  BY LenProperties DEF TypeOK, LineType
<1>5. ASSUME NEW i \in PollAnswers PROVE i \in Nat \ {0} /\ toBot[i].answers \in Nat
  <2>1. i \in 1 .. Len(toBot)
    BY <1>4 DEF PollAnswers
  <2>2. toBot[i] \in LineType
    BY <1>4, <2>1, ElementOfSeq
  <2> QED  BY <1>4, <2>1, <2>2 DEF LineType
<1> QED  BY <1>1, <1>3, <1>5, BotAssumption DEF Numbered, Unanswered, TypeOK

(***************************************************************************)
(* A step that sends nothing: of the unanswered commands one at most is    *)
(* gone, the one at h, and the answers to polls on the wire are some of    *)
(* those that were there, k places further back.                           *)
(***************************************************************************)
LEMMA Carried ==
  ASSUME PollInv, TypeOK', UNCHANGED tick_count, OnePending',
         NEW h \in Nat, NEW k \in Nat,
         \A i \in 1 .. Unanswered' :
           \/ i < h /\ i \in 1 .. Unanswered /\ Out(i)' = Out(i)
           \/ i >= h /\ i + 1 \in 1 .. Unanswered /\ Out(i)' = Out(i + 1),
         \A i \in PollAnswers' : i + k \in PollAnswers /\ toBot'[i] = toBot[i + k]
  PROVE  PollInv'
<1>1. Numbered /\ Numbered'
  BY OutTyped, PTL DEF PollInv
<1>2. ASSUME NEW i \in 1 .. Unanswered'
      PROVE  \E s \in 1 .. Unanswered :
               /\ Out(i)' = Out(s)
               /\ s = IF i < h THEN i ELSE i + 1
  BY <1>2
<1>3. CommandsFresh'
  <2> SUFFICES ASSUME NEW i \in 1 .. Unanswered'
               PROVE  Fresh(Out(i).id)' /\ (Out(i).verb \in Due(Out(i).id))'
    BY DEF CommandsFresh
  <2>1. PICK s \in 1 .. Unanswered : Out(i)' = Out(s)
    BY <1>2
  <2>2. Fresh(Out(s).id) /\ Out(s).verb \in Due(Out(s).id)
    BY DEF PollInv, CommandsFresh
  <2> QED  BY <2>1, <2>2 DEF Fresh, Due, Poll
<1>4. CommandsInOrder'
  <2> SUFFICES ASSUME NEW i \in 1 .. Unanswered', NEW j \in 1 .. Unanswered', i < j
               PROVE  Out(i)'.id + (j - i) <= Out(j)'.id
    BY DEF CommandsInOrder
  <2>1. PICK s \in 1 .. Unanswered : Out(i)' = Out(s) /\ s = IF i < h THEN i ELSE i + 1
    BY <1>2
  <2>2. PICK t \in 1 .. Unanswered : Out(j)' = Out(t) /\ t = IF j < h THEN j ELSE j + 1
    BY <1>2
  <2>3. i \in Int /\ j \in Int /\ s < t /\ j - i <= t - s
    BY <1>1, <2>1, <2>2 DEF Numbered
  <2>4. Out(s).id + (t - s) <= Out(t).id /\ Out(s).id \in Nat /\ Out(t).id \in Nat
    BY <1>1, <2>3 DEF PollInv, CommandsInOrder, Numbered
  <2> QED  BY <2>1, <2>2, <2>3, <2>4
<1>5. AnswersFresh'
  BY DEF AnswersFresh, Fresh, Poll, PollInv
<1>6. AnswersInOrder'
  <2>1. ASSUME NEW i \in PollAnswers', NEW j \in PollAnswers', i < j
        PROVE  toBot'[i].answers < toBot'[j].answers
    <3>1. i + k \in PollAnswers /\ j + k \in PollAnswers /\ i + k < j + k
      BY <1>1, <2>1 DEF Numbered
    <3> QED  BY <3>1 DEF PollInv, AnswersInOrder
  <2>2. ASSUME NEW i \in PollAnswers', NEW j \in 1 .. Unanswered'
        PROVE  toBot'[i].answers < Out(j)'.id
    <3>1. PICK s \in 1 .. Unanswered : Out(j)' = Out(s)
      BY <1>2
    <3> QED  BY <3>1 DEF PollInv, AnswersInOrder
  <2> QED  BY <2>1, <2>2 DEF AnswersInOrder
<1> QED  BY <1>3, <1>4, <1>5, <1>6 DEF PollInv

(***************************************************************************)
(* The server answers the first command in its queue.  If the line is the  *)
(* answer to a poll, then so is every other that is on the wire already    *)
(* that of an earlier one.                                                 *)
(***************************************************************************)
LEMMA Answered ==
  ASSUME PollInv, TypeOK', UNCHANGED <<pending, tick_count, toServer>>,
         queue # <<>>, queue' = Tail(queue),
         NEW l \in LineType, Say(l), l.answers = Front.id,
         l.kind \in {"inventory", "number"} => Front.verb \in {"Inventory", "Connect_nbr"}
  PROVE  PollInv'
<1>1. Numbered /\ Numbered'
  BY OutTyped, PTL DEF PollInv
<1>2. /\ Unanswered' = Unanswered - 1
      /\ \A i \in 1 .. Unanswered' : i + 1 \in 1 .. Unanswered /\ Out(i)' = Out(i + 1)
      /\ 1 \in 1 .. Unanswered /\ Out(1) = Front
  <2>1. /\ queue \in Seq(Command) /\ Len(queue) \in Nat \ {0}
        /\ Len(queue') = Len(queue) - 1
        /\ \A i \in 1 .. Len(queue') : queue'[i] = queue[i + 1]
        /\ Front = queue[1]
    BY HeadTailProperties, LenProperties, EmptySeq DEF PollInv, TypeOK, Front
  <2>2. Len(toServer) \in Nat
    BY LenProperties DEF PollInv, TypeOK
  <2>3. ASSUME NEW i \in 1 .. Unanswered'
        PROVE  i + 1 \in 1 .. Unanswered /\ Out(i)' = Out(i + 1)
    <3>1. i + 1 \in 1 .. Unanswered
      BY <2>1, <2>2 DEF Unanswered
    <3>2. CASE i <= Len(queue')
      BY <2>1, <3>1, <3>2 DEF Out
    <3>3. CASE ~(i <= Len(queue'))
      <4>1. i - Len(queue') = (i + 1) - Len(queue) /\ ~(i + 1 <= Len(queue))
        BY <2>1, <3>3
      <4>2. PICK x : x = i - Len(queue') /\ x = (i + 1) - Len(queue)
        BY <4>1
      <4>3. Out(i)' = toServer[x]
        BY <3>3, <4>2 DEF Out
      <4>4. Out(i + 1) = toServer[x]
        BY <4>1, <4>2 DEF Out
      <4> QED  BY <3>1, <4>3, <4>4
    <3> QED  BY <3>1, <3>2, <3>3
  <2> QED  BY <2>1, <2>2, <2>3 DEF Unanswered, Out
<1>3. /\ Len(toBot) \in Nat /\ DOMAIN toBot = 1 .. Len(toBot)
      /\ DOMAIN toBot' = 1 .. Len(toBot) + 1
      /\ \A i \in 1 .. Len(toBot) : toBot'[i] = toBot[i]
      /\ toBot'[Len(toBot) + 1] = l
  <2>1. toBot \in Seq(LineType) /\ toBot' = Append(toBot, l)
    BY DEF PollInv, TypeOK, LineType, Say
  <2> QED  BY <2>1, AppendProperties, LenProperties
<1>4. OnePending'
  BY DEF PollInv, OnePending, Due
<1> DEFINE last == Len(toBot) + 1
<1>5. ASSUME NEW i \in PollAnswers'
      PROVE  \/ i \in PollAnswers /\ toBot'[i] = toBot[i]
             \/ i = last /\ toBot'[i] = l /\ l.kind \in {"inventory", "number"}
  BY <1>3 DEF PollAnswers
<1>6. CASE l.kind \notin {"inventory", "number"}
  <2>1. \A i \in PollAnswers' : i + 0 \in PollAnswers /\ toBot'[i] = toBot[i + 0]
    BY <1>1, <1>5, <1>6 DEF Numbered
  <2>2. \A i \in 1 .. Unanswered' : i >= 1 /\ i + 1 \in 1 .. Unanswered /\ Out(i)' = Out(i + 1)
    BY <1>2
  <2> QED  BY <1>4, <2>1, <2>2, Carried
<1>7. CASE l.kind \in {"inventory", "number"}
  <2>1. Fresh(l.answers) /\ Poll(l.answers)
    <3>1. Fresh(Front.id) /\ Front.verb \in Due(Front.id) /\ Front.id \in Nat
      BY <1>1, <1>2 DEF PollInv, CommandsFresh, Numbered
    <3> QED  BY <1>7, <3>1, PollsAreDue
  <2>2. \A i \in PollAnswers : toBot[i].answers < l.answers /\ i < last
    BY <1>1, <1>2, <1>3 DEF PollInv, AnswersInOrder, PollAnswers
  <2>3. \A j \in 1 .. Unanswered' : l.answers < Out(j)'.id
    <3> SUFFICES ASSUME NEW j \in 1 .. Unanswered' PROVE l.answers < Out(j)'.id
      OBVIOUS
    <3>1. Out(1).id + (j + 1 - 1) <= Out(j + 1).id
      BY <1>1, <1>2 DEF PollInv, CommandsInOrder, Numbered
    <3> QED  BY <1>1, <1>2, <3>1 DEF Numbered
  <2>4. CommandsFresh'
    <3> SUFFICES ASSUME NEW i \in 1 .. Unanswered'
                 PROVE  Fresh(Out(i).id)' /\ (Out(i).verb \in Due(Out(i).id))'
      BY DEF CommandsFresh
    <3>1. Fresh(Out(i + 1).id) /\ Out(i + 1).verb \in Due(Out(i + 1).id)
      BY <1>2 DEF PollInv, CommandsFresh
    <3> QED  BY <1>2, <3>1 DEF Fresh, Due, Poll
  <2>5. CommandsInOrder'
    <3> SUFFICES ASSUME NEW i \in 1 .. Unanswered', NEW j \in 1 .. Unanswered', i < j
                 PROVE  Out(i)'.id + (j - i) <= Out(j)'.id
      BY DEF CommandsInOrder
    <3>1. Out(i + 1).id + ((j + 1) - (i + 1)) <= Out(j + 1).id
      BY <1>2 DEF PollInv, CommandsInOrder
    <3> QED  BY <1>2, <3>1
  <2>6. AnswersFresh'
    BY <1>5, <2>1 DEF AnswersFresh, Fresh, Poll, PollInv
  <2>7. AnswersInOrder'
    <3>1. ASSUME NEW i \in PollAnswers', NEW j \in PollAnswers', i < j
          PROVE  toBot'[i].answers < toBot'[j].answers
      <4>1. i \in PollAnswers /\ toBot'[i] = toBot[i]
        <5>1. j <= last
          BY <1>3, <1>5, <2>2, <3>1 DEF PollAnswers
        <5>2. i \in Nat /\ j \in Nat /\ last \in Nat
          BY <1>1, <1>3 DEF Numbered
        <5>3. i # last
          BY <3>1, <5>1, <5>2
        <5> QED  BY <1>5, <5>3
      <4>2. CASE j \in PollAnswers /\ toBot'[j] = toBot[j]
        BY <3>1, <4>1, <4>2 DEF PollInv, AnswersInOrder
      <4>3. CASE toBot'[j] = l
        BY <2>2, <4>1, <4>3
      <4> QED  BY <1>5, <4>2, <4>3
    <3>2. ASSUME NEW i \in PollAnswers', NEW j \in 1 .. Unanswered'
          PROVE  toBot'[i].answers < Out(j)'.id
      <4>1. CASE i \in PollAnswers /\ toBot'[i] = toBot[i]
        BY <1>2, <4>1 DEF PollInv, AnswersInOrder
      <4>2. CASE toBot'[i] = l
        BY <2>3, <4>2
      <4> QED  BY <1>5, <4>1, <4>2
    <3> QED  BY <3>1, <3>2 DEF AnswersInOrder
  <2> QED  BY <1>4, <2>4, <2>5, <2>6, <2>7 DEF PollInv
<1> QED  BY <1>6, <1>7

(***************************************************************************)
(* The bot takes a line for an answer and sends the command of its next    *)
(* turn.  If the turn it ends was a poll's, then all it sent before has    *)
(* been answered, and the next command is the only one.                    *)
(***************************************************************************)
LEMMA NextTurn ==
  ASSUME PollInv, TypeOK', OnePending', toBot # <<>>, toBot' = Tail(toBot), UNCHANGED queue,
         tick_count' = tick_count + 1,
         NEW v \in Due(tick_count'),
         toServer' = Append(toServer, [verb |-> v, id |-> tick_count']),
         Poll(tick_count) => 1 \in PollAnswers
  PROVE  PollInv'
<1>0. PICK n : n = tick_count
  OBVIOUS
<1>1. Numbered /\ Numbered'
  BY OutTyped, PTL DEF PollInv
<1>2. /\ Unanswered' = Unanswered + 1
      /\ \A i \in 1 .. Unanswered : Out(i)' = Out(i)
      /\ \A i \in Nat : i = Unanswered + 1 => Out(i)' = [verb |-> v, id |-> n + 1]
  <2> DEFINE c == [verb |-> v, id |-> tick_count']
  <2>1. toServer \in Seq(Command) /\ Len(queue) \in Nat /\ Len(toServer) \in Nat
    BY LenProperties DEF PollInv, TypeOK
  <2>2. c \in Command
    BY <1>1, PollsAreDue DEF Command, Numbered
  <2>3. toServer' = Append(toServer, c)
    OBVIOUS
  <2> HIDE DEF c
  <2>4. /\ Len(toServer') = Len(toServer) + 1
        /\ \A i \in 1 .. Len(toServer) : toServer'[i] = toServer[i]
        /\ toServer'[Len(toServer) + 1] = c
    BY <2>1, <2>2, <2>3, AppendProperties
  <2>5. ASSUME NEW i \in 1 .. Unanswered PROVE Out(i)' = Out(i)
    <3>1. CASE i <= Len(queue)
      BY <3>1 DEF Out
    <3>2. CASE ~(i <= Len(queue))
      <4>1. i - Len(queue) \in 1 .. Len(toServer)
        BY <2>1, <3>2 DEF Unanswered
      <4> QED  BY <2>4, <3>2, <4>1 DEF Out
    <3> QED  BY <3>1, <3>2
  <2>6. ASSUME NEW i \in Nat, i = Unanswered + 1 PROVE Out(i)' = c
    <3>1. ~(i <= Len(queue)) /\ i - Len(queue) = Len(toServer) + 1
      BY <2>1, <2>6 DEF Unanswered
    <3> QED  BY <2>4, <3>1 DEF Out
  <2>7. Unanswered' = Unanswered + 1
    BY <2>1, <2>4 DEF Unanswered
  <2> QED  BY <1>0, <2>5, <2>6, <2>7 DEF c
<1>3. \A i \in PollAnswers' : i + 1 \in PollAnswers /\ toBot'[i] = toBot[i + 1]
  <2>1. toBot \in Seq(LineType) /\ Len(toBot) \in Nat /\ toBot # <<>>
        /\ DOMAIN toBot = 1 .. Len(toBot)
    BY LenProperties DEF PollInv, TypeOK, LineType
  <2>2. /\ toBot' \in Seq(LineType) /\ Len(toBot') = Len(toBot) - 1
        /\ \A i \in 1 .. Len(toBot') : toBot'[i] = toBot[i + 1]
    BY <2>1, HeadTailProperties
  <2>3. DOMAIN toBot' = 1 .. Len(toBot')
    BY <2>2, LenProperties
  <2> QED  BY <2>1, <2>2, <2>3 DEF PollAnswers
<1>4. ASSUME Poll(n)
      PROVE  Unanswered = 0 /\ PollAnswers' = {}
  <2> DEFINE m == toBot[1].answers
  <2>1. 1 \in PollAnswers /\ Fresh(m) /\ Poll(m) /\ m \in Nat
    BY <1>0, <1>1, <1>4 DEF PollInv, AnswersFresh, Numbered
  <2>2. m <= n /\ ~(m \in 0 .. n - 1)
    BY <1>0, <1>1, <2>1 DEF Fresh, Numbered
  <2>3. m = n
    BY <1>0, <1>1, <2>1, <2>2 DEF Numbered
  <2>4. Unanswered = 0
    <3> SUFFICES ASSUME 1 \in 1 .. Unanswered PROVE FALSE
      BY <1>0, <1>1 DEF Numbered
    <3>1. PICK one \in 1 .. Unanswered : TRUE
      OBVIOUS
    <3>2. m < Out(one).id /\ Out(one).id <= n
      BY <1>0, <2>1 DEF PollInv, AnswersInOrder, CommandsFresh, Fresh
    <3> QED  BY <1>0, <1>1, <2>3, <3>2 DEF Numbered
  <2>5. ASSUME NEW i \in PollAnswers' PROVE FALSE
    <3>1. i + 1 \in PollAnswers /\ 1 < i + 1
      BY <1>0, <1>1, <1>3 DEF Numbered
    <3>2. m < toBot[i + 1].answers /\ toBot[i + 1].answers <= n
      BY <1>0, <2>1, <3>1 DEF PollInv, AnswersInOrder, AnswersFresh, Fresh
    <3> QED  BY <1>0, <1>1, <2>3, <3>1, <3>2 DEF Numbered
  <2> QED  BY <2>4, <2>5
<1>5. ASSUME NEW id \in Nat, Fresh(id), ~Poll(n) PROVE Fresh(id)'
  <2>1. id <= tick_count'
    BY <1>0, <1>1, <1>5 DEF Fresh, Numbered
  <2>2. ASSUME NEW p \in 0 .. tick_count' - 1, Poll(p) PROVE id > p
    <3>1. p # n
      BY <1>5, <2>2
    <3>2. p \in 0 .. n - 1
      BY <1>0, <1>1, <3>1 DEF Numbered
    <3> QED  BY <1>0, <1>5, <2>2, <3>2 DEF Fresh
  <2> QED  BY <2>1, <2>2 DEF Fresh, Poll
<1>6. Fresh(n + 1)'
  BY <1>0, <1>1 DEF Fresh, Numbered
<1>7. CommandsFresh'
  <2> SUFFICES ASSUME NEW i \in 1 .. Unanswered'
               PROVE  Fresh(Out(i).id)' /\ (Out(i).verb \in Due(Out(i).id))'
    BY DEF CommandsFresh
  <2>1. CASE i \in 1 .. Unanswered
    <3>1. ~Poll(n)
      BY <1>0, <1>1, <1>4, <2>1 DEF Numbered
    <3>2. Fresh(Out(i).id) /\ Out(i).verb \in Due(Out(i).id) /\ Out(i).id \in Nat
      BY <1>0, <1>1, <2>1 DEF PollInv, CommandsFresh, Numbered
    <3>3. Fresh(Out(i).id)'
      <4>1. PICK id \in Nat : id = Out(i).id /\ Fresh(id)
        BY <3>2
      <4>2. Fresh(id)'
        BY <1>5, <3>1, <4>1
      <4> QED  BY <1>2, <2>1, <4>1, <4>2
    <3> QED  BY <1>2, <2>1, <3>2, <3>3 DEF Due
  <2>2. CASE i \notin 1 .. Unanswered
    <3>1. i = Unanswered'
      BY <1>0, <1>1, <1>2, <2>2 DEF Numbered
    <3>2. Out(i)' = [verb |-> v, id |-> n + 1] /\ tick_count' = n + 1
      BY <1>0, <1>1, <1>2, <3>1 DEF Numbered
    <3> QED  BY <1>6, <3>2 DEF Fresh, Due
  <2> QED  BY <2>1, <2>2
<1>8. CommandsInOrder'
  <2> SUFFICES ASSUME NEW i \in 1 .. Unanswered', NEW j \in 1 .. Unanswered', i < j
               PROVE  Out(i)'.id + (j - i) <= Out(j)'.id
    BY DEF CommandsInOrder
  <2>1. i \in 1 .. Unanswered
    BY <1>0, <1>1, <1>2 DEF Numbered
  <2>2. CASE j \in 1 .. Unanswered
    BY <1>2, <2>1, <2>2 DEF PollInv, CommandsInOrder
  <2>3. CASE j \notin 1 .. Unanswered
    <3>1. j = Unanswered + 1 /\ Out(j)'.id = n + 1
      BY <1>0, <1>1, <1>2, <2>3 DEF Numbered
    <3>2. Out(Unanswered).id <= n /\ Unanswered \in 1 .. Unanswered
      BY <1>0, <1>1, <2>1 DEF PollInv, CommandsFresh, Fresh, Numbered
    <3>3. Out(i).id + (Unanswered - i) <= Out(Unanswered).id
      <4>1. CASE i = Unanswered
        BY <1>0, <1>1, <2>1, <4>1 DEF Numbered
      <4>2. CASE i # Unanswered
        BY <1>0, <1>1, <2>1, <3>2, <4>2 DEF PollInv, CommandsInOrder, Numbered
      <4> QED  BY <4>1, <4>2
    <3> QED  BY <1>0, <1>1, <1>2, <2>1, <3>1, <3>2, <3>3, SMTT(40) DEF Numbered
  <2> QED  BY <2>2, <2>3
<1>9. AnswersFresh'
  <2> SUFFICES ASSUME NEW i \in PollAnswers'
               PROVE  Fresh(toBot[i].answers)' /\ Poll(toBot'[i].answers)
    BY DEF AnswersFresh, Poll
  <2>1. ~Poll(n) /\ toBot'[i] = toBot[i + 1] /\ i + 1 \in PollAnswers
    BY <1>0, <1>3, <1>4
  <2>2. PICK id \in Nat : id = toBot[i + 1].answers /\ Fresh(id) /\ Poll(id)
    BY <1>0, <1>1, <2>1 DEF PollInv, AnswersFresh, Numbered
  <2>3. Fresh(id)'
    BY <1>5, <2>1, <2>2
  <2> QED  BY <2>1, <2>2, <2>3 DEF Fresh
<1>10. AnswersInOrder'
  <2>1. ASSUME NEW i \in PollAnswers', NEW j \in PollAnswers', i < j
        PROVE  toBot'[i].answers < toBot'[j].answers
    <3>1. i + 1 \in PollAnswers /\ j + 1 \in PollAnswers /\ i + 1 < j + 1
      BY <1>0, <1>1, <1>3, <2>1 DEF Numbered
    <3> QED  BY <1>3, <3>1 DEF PollInv, AnswersInOrder
  <2>2. ASSUME NEW i \in PollAnswers', NEW j \in 1 .. Unanswered'
        PROVE  toBot'[i].answers < Out(j)'.id
    <3>1. i + 1 \in PollAnswers /\ toBot'[i] = toBot[i + 1]
      BY <1>3
    <3>2. CASE j \in 1 .. Unanswered
      BY <1>2, <3>1, <3>2 DEF PollInv, AnswersInOrder
    <3>3. CASE j \notin 1 .. Unanswered
      <4>1. Out(j)'.id = n + 1
        BY <1>0, <1>1, <1>2, <3>3 DEF Numbered
      <4>2. toBot[i + 1].answers <= n /\ toBot[i + 1].answers \in Nat
        BY <1>0, <1>1, <3>1 DEF PollInv, AnswersFresh, Fresh, Numbered
      <4>3. n \in Nat
        BY <1>0, <1>1 DEF Numbered
      <4>4. PICK a \in Nat : a = toBot[i + 1].answers /\ a < n + 1
        BY <4>2, <4>3
      <4>5. toBot'[i].answers = a
        BY <3>1, <4>4
      <4> QED  BY <4>1, <4>4, <4>5
    <3> QED  BY <3>2, <3>3
  <2> QED  BY <2>1, <2>2 DEF AnswersInOrder
<1> QED  BY <1>7, <1>8, <1>9, <1>10 DEF PollInv

(* A step that changes no end of the commands, and says nothing of a poll. *)
LEMMA Untouched ==
  ASSUME PollInv, TypeOK', UNCHANGED <<tick_count, queue, toServer>>, OnePending',
         NEW k \in Nat,
         \A i \in PollAnswers' : i + k \in PollAnswers /\ toBot'[i] = toBot[i + k]
  PROVE  PollInv'
<1>1. PICK h \in Nat : h = Unanswered + 1
  BY OutTyped DEF PollInv, Numbered
<1>2. \A i \in 1 .. Unanswered' : i < h /\ i \in 1 .. Unanswered /\ Out(i)' = Out(i)
  BY <1>1, OutTyped DEF PollInv, Numbered, Unanswered, Out
<1> QED  BY <1>2, Carried

(* Saying a line that no poll takes for its answer. *)
LEMMA Chatted ==
  ASSUME PollInv, TypeOK', UNCHANGED <<pending, tick_count, queue, toServer>>,
         NEW l \in LineType, Say(l), l.kind \notin {"inventory", "number"}
  PROVE  PollInv'
<1>1. OnePending'
  BY DEF PollInv, OnePending, Due
<1>2. \A i \in PollAnswers' : i + 0 \in PollAnswers /\ toBot'[i] = toBot[i + 0]
  <2>1. toBot \in Seq(LineType) /\ toBot' = Append(toBot, l)
    BY DEF PollInv, TypeOK, LineType, Say
  <2> QED  BY <2>1, AppendProperties, LenProperties DEF PollAnswers
<1> QED  BY <1>1, <1>2, Untouched

LEMMA ReadingPolls ==
  ASSUME PollInv, TypeOK', BotReads
  PROVE  PollInv'
<1> DEFINE l == Head(toBot)
           head == Head(pending)
<1>1. UNCHANGED queue /\ toBot # <<>> /\ toBot' = Tail(toBot)
  BY DEF BotReads, serverVars
<1>2. \A i \in PollAnswers' : i + 1 \in PollAnswers /\ toBot'[i] = toBot[i + 1]
  <2>1. toBot \in Seq(LineType) /\ Len(toBot) \in Nat /\ DOMAIN toBot = 1 .. Len(toBot)
    BY LenProperties DEF PollInv, TypeOK, LineType
  <2>2. /\ toBot' \in Seq(LineType) /\ Len(toBot') = Len(toBot) - 1
        /\ \A i \in 1 .. Len(toBot') : toBot'[i] = toBot[i + 1]
    BY <1>1, <2>1, HeadTailProperties
  <2>3. DOMAIN toBot' = 1 .. Len(toBot')
    BY <2>2, LenProperties
  <2> QED  BY <2>1, <2>2, <2>3 DEF PollAnswers
<1>3. /\ pending \in Seq(PendingType) /\ pending # <<>>
      /\ head = pending[1] /\ Tail(pending) = <<>> /\ head \in PendingType
      /\ head.id = tick_count /\ head.verb \in Due(tick_count)
  <2>1. pending \in Seq(PendingType) /\ Len(pending) = 1
    BY DEF PollInv, OnePending, TypeOK, PendingType
  <2>2. pending # <<>> /\ head \in PendingType /\ Tail(pending) \in Seq(PendingType)
        /\ Len(Tail(pending)) = 0 /\ head = pending[1]
    BY <2>1, HeadTailProperties, EmptySeq
  <2>3. Tail(pending) = <<>>
    BY <2>2, EmptySeq
  <2> QED  BY <2>1, <2>2, <2>3 DEF PollInv, OnePending
<1>4. ASSUME UNCHANGED <<pending, tick_count, toServer>> PROVE PollInv'
  <2>1. OnePending'
    BY <1>4 DEF PollInv, OnePending, Due
  <2> QED  BY <1>1, <1>2, <1>4, <2>1, Untouched
<1>5. CASE Notified(l) \/ TakeNews(l)
  BY <1>4, <1>5 DEF Notified, TakeNews
<1>6. CASE feed_line(l) /\ ~is_response_terminal(head, l)
  <2> DEFINE p == [head EXCEPT !.got = @ + 1]
  <2>1. pending' = <<p>> \o Tail(pending) /\ UNCHANGED <<tick_count, toServer>>
    BY <1>3, <1>6 DEF feed_line
  <2>2. p.id = tick_count /\ p.verb = head.verb
    BY <1>3 DEF PendingType
  <2> HIDE DEF p
  <2>3. pending' = <<p>>
    BY <1>3, <2>1, <<p>> \in Seq({p}), ConcatEmptySeq
  <2>4. Len(pending') = 1 /\ pending'[1] = p
    BY <2>3
  <2>5. OnePending'
    BY <1>3, <2>1, <2>2, <2>4 DEF OnePending, Due
  <2> QED  BY <1>1, <1>2, <2>1, <2>5, Untouched
<1>7. CASE feed_line(l) /\ is_response_terminal(head, l) /\ ~Readable(head.verb, l)
  BY <1>3, <1>4, <1>7 DEF feed_line
<1>8. CASE feed_line(l) /\ is_response_terminal(head, l) /\ Readable(head.verb, l)
  <2>1. _tick(<<>>)
    BY <1>3, <1>8 DEF feed_line
  <2>2. PICK v \in Due(tick_count') : send(<<>>, v, tick_count')
    BY <2>1 DEF _tick
  <2>3. tick_count' = tick_count + 1
    BY <2>1 DEF _tick
  <2>4. /\ pending' = <<[verb |-> v, id |-> tick_count', got |-> 0]>>
        /\ toServer' = Append(toServer, [verb |-> v, id |-> tick_count'])
    BY <2>2, BotAssumption DEF send
  <2>5. OnePending'
    BY <2>4 DEF OnePending, Due
  <2>6. Poll(tick_count) => 1 \in PollAnswers
    <3>1. tick_count \in Nat
      BY DEF PollInv, TypeOK
    <3>2. Poll(tick_count) => head.verb \in {"Inventory", "Connect_nbr"}
      BY <1>3, <3>1, PollsAreDue
    <3>3. Poll(tick_count) => l.kind \in {"inventory", "number"}
      BY <1>8, <3>2 DEF Readable
    <3>4. toBot \in Seq(LineType)
      BY DEF PollInv, TypeOK, LineType
    <3>5. l = toBot[1] /\ 1 \in DOMAIN toBot
      BY <1>1, <3>4, LenProperties, EmptySeq, HeadTailProperties
    <3> QED  BY <3>3, <3>5 DEF PollAnswers
  <2> QED  BY <1>1, <2>3, <2>4, <2>5, <2>6, NextTurn
<1> QED  BY <1>5, <1>6, <1>7, <1>8 DEF BotReads

LEMMA ServingPolls ==
  ASSUME PollInv, TypeOK',
         ServerReads \/ ServerBegins \/ ServerCompletes
  PROVE  PollInv'
<1>1. UNCHANGED <<pending, tick_count>> /\ OnePending'
  BY DEF ServerReads, ServerBegins, ServerCompletes, botVars, PollInv, OnePending, Due
<1>2. /\ queue \in Seq(Command) /\ Len(queue) \in Nat
      /\ toServer \in Seq(Command) /\ Len(toServer) \in Nat
  BY LenProperties DEF PollInv, TypeOK
<1>3. CASE ServerReads
  <2>1. toServer # <<>> /\ toServer' = Tail(toServer) /\ UNCHANGED toBot
    BY <1>3 DEF ServerReads
  <2>2. /\ Len(toServer') = Len(toServer) - 1 /\ Len(toServer) > 0
        /\ \A i \in 1 .. Len(toServer') : toServer'[i] = toServer[i + 1]
        /\ Head(toServer) = toServer[1] /\ Head(toServer) \in Command
    BY <1>2, <2>1, HeadTailProperties, EmptySeq
  <2>3. \A i \in PollAnswers' : i + 0 \in PollAnswers /\ toBot'[i] = toBot[i + 0]
    BY <2>1, OutTyped DEF PollInv, Numbered, PollAnswers
  <2>4. CASE queue' = Append(queue, Head(toServer))
    <3>1. /\ Len(queue') = Len(queue) + 1
          /\ \A i \in 1 .. Len(queue) : queue'[i] = queue[i]
          /\ queue'[Len(queue) + 1] = toServer[1]
      BY <1>2, <2>2, <2>4, AppendProperties
    <3>2. PICK h \in Nat : h = Unanswered + 1
      BY <1>2 DEF Unanswered
    <3>3. ASSUME NEW i \in 1 .. Unanswered'
          PROVE  i < h /\ i \in 1 .. Unanswered /\ Out(i)' = Out(i)
      <4>1. i < h /\ i \in 1 .. Unanswered
        BY <1>2, <2>2, <3>1, <3>2 DEF Unanswered
      <4>2. CASE i <= Len(queue)
        BY <1>2, <3>1, <4>1, <4>2 DEF Out
      <4>3. CASE i = Len(queue) + 1
        BY <1>2, <3>1, <4>1, <4>3 DEF Out
      <4>4. CASE i > Len(queue) + 1
        <5>0. PICK x : x = i - Len(queue')
          OBVIOUS
        <5>1. x \in 1 .. Len(toServer') /\ x = i - Len(queue') /\ x + 1 = i - Len(queue)
          BY <1>2, <2>2, <3>1, <4>1, <4>4, <5>0 DEF Unanswered
        <5>2. Out(i)' = toServer'[x]
          BY <1>2, <3>1, <4>1, <4>4, <5>1 DEF Out
        <5>3. Out(i) = toServer[x + 1]
          BY <1>2, <4>1, <4>4, <5>1 DEF Out
        <5> QED  BY <2>2, <4>1, <5>1, <5>2, <5>3
      <4> QED  BY <1>2, <4>1, <4>2, <4>3, <4>4
    <3> QED  BY <1>1, <2>3, <3>3, Carried
  <2>5. CASE UNCHANGED queue
    <3>1. PICK h \in Nat : h = Len(queue) + 1
      BY <1>2
    <3>2. ASSUME NEW i \in 1 .. Unanswered'
          PROVE  \/ i < h /\ i \in 1 .. Unanswered /\ Out(i)' = Out(i)
                 \/ i >= h /\ i + 1 \in 1 .. Unanswered /\ Out(i)' = Out(i + 1)
      <4>1. i \in 1 .. Unanswered /\ i + 1 \in 1 .. Unanswered
        BY <1>2, <2>2, <2>5 DEF Unanswered
      <4>2. CASE i <= Len(queue)
        BY <1>2, <2>5, <3>1, <4>1, <4>2 DEF Out
      <4>3. CASE i > Len(queue)
        <5>0. PICK x : x = i - Len(queue)
          OBVIOUS
        <5>1. x \in 1 .. Len(toServer') /\ x = i - Len(queue) /\ x + 1 = (i + 1) - Len(queue)
          BY <1>2, <2>2, <2>5, <4>1, <4>3, <5>0 DEF Unanswered
        <5>2. Out(i)' = toServer'[x]
          BY <1>2, <2>5, <4>1, <4>3, <5>1 DEF Out
        <5>3. Out(i + 1) = toServer[x + 1]
          BY <1>2, <4>1, <4>3, <5>1 DEF Out
        <5> QED  BY <1>2, <2>2, <3>1, <4>1, <4>3, <5>1, <5>2, <5>3
      <4> QED  BY <1>2, <4>1, <4>2, <4>3
    <3> QED  BY <1>1, <2>3, <3>2, Carried
  <2> QED  BY <1>3, <2>4, <2>5 DEF ServerReads
<1>4. CASE ServerBegins
  <2>1. queue # <<>> /\ UNCHANGED <<pending, tick_count, toServer>>
    BY <1>4 DEF ServerBegins, botVars
  <2>2. Front.id \in Nat
    <3>1. Front \in Command
      BY <1>2, <2>1, HeadTailProperties DEF Front
    <3> QED  BY <3>1 DEF Command
  <2>3. CASE UNCHANGED <<queue, toBot>>
    <3>1. \A i \in PollAnswers' : i + 0 \in PollAnswers /\ toBot'[i] = toBot[i + 0]
      BY <2>3, OutTyped DEF PollInv, Numbered, PollAnswers
    <3> QED  BY <1>1, <2>1, <2>3, <3>1, Untouched
  <2>4. CASE Say(Line("underway", 0, Front.id)) /\ UNCHANGED queue
    <3>1. PICK l : l = Line("underway", 0, Front.id)
      OBVIOUS
    <3>2. l \in LineType /\ l.kind \notin {"inventory", "number"}
      BY <2>2, <3>1, BotAssumption DEF Line, LineType, Kind
    <3> QED  BY <2>1, <2>4, <3>1, <3>2, Chatted
  <2>5. CASE Say(Line("ko", 0, Front.id)) /\ queue' = Tail(queue)
    <3>1. PICK l : l = Line("ko", 0, Front.id)
      OBVIOUS
    <3>2. l \in LineType /\ l.kind \notin {"inventory", "number"} /\ l.answers = Front.id
      BY <2>2, <3>1, BotAssumption DEF Line, LineType, Kind
    <3> QED  BY <2>1, <2>5, <3>1, <3>2, Answered
  <2> QED  BY <1>4, <2>3, <2>4, <2>5 DEF ServerBegins
<1>5. CASE ServerCompletes
  <2>1. queue # <<>> /\ queue' = Tail(queue) /\ UNCHANGED <<pending, tick_count, toServer>>
    BY <1>5 DEF ServerCompletes, botVars
  <2>2. Front.id \in Nat
    <3>1. Front \in Command
      BY <1>2, <2>1, HeadTailProperties DEF Front
    <3> QED  BY <3>1 DEF Command
  <2>3. CASE Front.verb # "Incantation"
    <3>1. PICK kind \in Reply(Front.verb) :
            Say(Line(kind, IF kind = "look" THEN lvl ELSE 0, Front.id))
      BY <1>5, <2>3 DEF ServerCompletes
    <3>2. PICK l : l = Line(kind, IF kind = "look" THEN lvl ELSE 0, Front.id)
      OBVIOUS
    <3>3. l \in LineType /\ l.answers = Front.id /\ l.kind = kind
      <4>1. kind \in Kind
        BY DEF Reply, Kind
      <4>2. (IF kind = "look" THEN lvl ELSE 0) \in 0 .. MaxLevel
        BY BotAssumption DEF PollInv, TypeOK
      <4> QED  BY <2>2, <3>2, <4>1, <4>2 DEF Line, LineType
    <3>4. kind \in {"inventory", "number"} => Front.verb \in {"Inventory", "Connect_nbr"}
      BY DEF Reply
    <3> QED  BY <2>1, <3>1, <3>2, <3>3, <3>4, Answered
  <2>4. CASE Front.verb = "Incantation"
    <3>1. PICK l \in {Line("level", lvl', Front.id), Line("ko", 0, Front.id)} : Say(l)
      BY <1>5, <2>4 DEF ServerCompletes, RitualEnds
    <3>2. l \in LineType /\ l.kind \notin {"inventory", "number"} /\ l.answers = Front.id
      BY <2>2, BotAssumption DEF Line, LineType, Kind, TypeOK
    <3> QED  BY <2>1, <3>1, <3>2, Answered
  <2> QED  BY <2>3, <2>4
<1> QED  BY <1>3, <1>4, <1>5

LEMMA OthersKeepPolls ==
  ASSUME PollInv, TypeOK', OtherStarts \/ OtherEnds \/ Notify \/ UNCHANGED vars
  PROVE  PollInv'
<1>1. UNCHANGED <<pending, tick_count, queue, toServer>>
  BY DEF OtherStarts, OtherEnds, Notify, vars, botVars, serverVars
<1>2. CASE UNCHANGED toBot
  <2>1. \A i \in PollAnswers' : i + 0 \in PollAnswers /\ toBot'[i] = toBot[i + 0]
    BY <1>2, OutTyped DEF PollInv, Numbered, PollAnswers
  <2>2. OnePending'
    BY <1>1 DEF PollInv, OnePending, Due
  <2> QED  BY <1>1, <2>1, <2>2, Untouched
<1>3. CASE OtherEnds
  <2>1. PICK l \in {Line("level", lvl', 0), Line("ko", 0, 0)} : Say(l)
    BY <1>3 DEF OtherEnds, RitualEnds
  <2>2. l \in LineType /\ l.kind \notin {"inventory", "number"}
    BY BotAssumption DEF Line, LineType, Kind, TypeOK
  <2> QED  BY <1>1, <2>1, <2>2, Chatted
<1>4. CASE Notify
  <2>1. PICK l \in {Line(kind, 0, 0) : kind \in Notification} : Say(l)
    BY <1>4 DEF Notify
  <2>2. l \in LineType /\ l.kind \notin {"inventory", "number"}
    BY BotAssumption DEF Line, LineType, Kind, Notification
  <2> QED  BY <1>1, <2>1, <2>2, Chatted
<1> QED  BY <1>2, <1>3, <1>4 DEF OtherStarts, vars

LEMMA PollInvInit == Init => PollInv
<1> SUFFICES ASSUME Init PROVE PollInv
  OBVIOUS
<1>1. TypeOK
  BY BotInvInit DEF BotInv
<1>2. PICK v \in Due(1) :
        /\ pending = <<[verb |-> v, id |-> 1, got |-> 0]>>
        /\ toServer = <<[verb |-> v, id |-> 1]>>
  BY DEF Init
<1>3. tick_count = 1 /\ queue = <<>> /\ toBot = <<>>
  BY DEF Init
<1>4. Unanswered = 1 /\ \A i \in 1 .. 1 : Out(i) = [verb |-> v, id |-> 1]
  BY <1>2, <1>3, EmptySeq DEF Unanswered, Out
<1>5. PollAnswers = {}
  BY <1>3 DEF PollAnswers
<1>6. OnePending
  BY <1>2, <1>3 DEF OnePending
<1>7. Fresh(1)
  BY <1>3 DEF Fresh
<1> QED  BY <1>1, <1>4, <1>5, <1>6, <1>7
         DEF PollInv, CommandsFresh, CommandsInOrder, AnswersFresh, AnswersInOrder

LEMMA Division ==
  ASSUME NEW a \in Int, NEW m \in Nat \ {0}
  PROVE  a = m * (a \div m) + (a % m)
OBVIOUS

(* Among any m numbers in a row there is a multiple of m. *)
LEMMA LastMultiple ==
  ASSUME NEW n \in Nat \ {0}, NEW m \in Nat \ {0}
  PROVE  \E p \in 0 .. n - 1 : p % m = 0 /\ n - p <= m
<1>1. PICK a \in Nat : a = n - 1
  OBVIOUS
<1>2. PICK q \in Nat, r \in 0 .. m - 1 : a = m * q + r
  <2>1. a = m * (a \div m) + (a % m)
    BY Division
  <2>2. a \div m \in Nat /\ a % m \in 0 .. m - 1
    OBVIOUS
  <2> QED  BY <2>1, <2>2
<1>3. PICK p \in Nat : p = m * q
  OBVIOUS
<1>4. p % m = 0
  BY <1>3
<1>5. p \in 0 .. n - 1 /\ n - p <= m
  BY <1>1, <1>2, <1>3
<1> QED  BY <1>4, <1>5

(***************************************************************************)
(* The turn of the last inventory before this one is less than a poll's    *)
(* interval ago, and no command of that turn or of one before it is left   *)
(* without an answer: so there are as many as the interval at most.        *)
(***************************************************************************)
LEMMA PollsKeepLimit == PollInv => WithinLimit
<1> SUFFICES ASSUME PollInv PROVE WithinLimit
  OBVIOUS
<1>1. Numbered
  BY OutTyped DEF PollInv
<1>2. PICK n \in Nat \ {0} : n = tick_count
  BY <1>1 DEF Numbered
<1>3. PICK m \in Nat \ {0} : m = InventoryPoll
  BY BotAssumption
<1>4. PICK p \in 0 .. n - 1 : p % m = 0 /\ n - p <= m
  <2> QED  BY <1>2, <1>3, LastMultiple
<1>5. \A i \in 1 .. Unanswered : Out(i).id > p /\ Out(i).id <= n
  BY <1>2, <1>3, <1>4 DEF PollInv, CommandsFresh, Fresh, Poll
<1>6. Unanswered <= m
  <2> SUFFICES ASSUME Unanswered >= 1 PROVE Unanswered <= m
    BY <1>1 DEF Numbered
  <2>1. PICK a \in 1 .. Unanswered, z \in 1 .. Unanswered : a = 1 /\ z = Unanswered
    BY <1>1 DEF Numbered
  <2>2. Out(a).id + (z - a) <= Out(z).id
    BY <1>1, <2>1 DEF PollInv, CommandsInOrder, Numbered
  <2>3. Out(a).id > p /\ Out(z).id <= n /\ Out(a).id \in Nat /\ Out(z).id \in Nat
    BY <1>1, <1>5 DEF Numbered
  <2> QED  BY <1>4, <2>1, <2>2, <2>3
<1> QED  BY <1>3, <1>6, <1>1, PollAssumption, BotAssumption DEF WithinLimit, Unanswered, Numbered

(***************************************************************************)
(* However many lines the bot mistakes for answers, it never has more      *)
(* commands unanswered than its queue takes, as long as it asks for its    *)
(* inventory often enough (MAX_IN_FLIGHT of command_queue.py).             *)
(***************************************************************************)
THEOREM LimitAlwaysKept == Spec => []WithinLimit
<1>1. PollInv /\ TypeOK' /\ [Next]_vars => PollInv'
  BY ReadingPolls, ServingPolls, OthersKeepPolls DEF Next, Stay
<1>2. Spec => []PollInv
  BY <1>1, PollInvInit, BotTypeCorrect, PTL DEF Spec
<1> QED  BY <1>2, PollsKeepLimit, PTL
=============================================================================
