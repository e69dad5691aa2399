---------------------------- MODULE ServerProofs ----------------------------
(***************************************************************************)
(* Theorems about the server: it implements the world, and its clients,    *)
(* queues and players agree, for every number of clients, every command    *)
(* table and every queue length.                                           *)
(***************************************************************************)
EXTENDS Server, WorldProofs, SequenceTheorems

(***************************************************************************)
(* The inductive invariant.  A client that has not joined owns no player;  *)
(* only an AI client has commands; lines are read in one stage only; and   *)
(* whoever has no life left is gone before the clients are served again,   *)
(* so that a command always finds its player on the map.                   *)
(***************************************************************************)
JoinedOnce ==
  \A c \in Players : conn[c] \in {"absent", "PENDING", "GUI"} => c \notin hatched

OnlyAIQueue == \A c \in Players : queue[c] # <<>> => conn[c] = "AI"

NoneDead == phase # "deaths" => \A c \in Players : conn[c] = "AI" => life[c] > 0

ReadingInIO == reading # {} => phase = "io"

ServerInv ==
  /\ WorldInv
  /\ ServerTypeOK
  /\ PlayersAreClients
  /\ AnswersMatchQueue
  /\ JoinedOnce
  /\ OnlyAIQueue
  /\ NoneDead
  /\ ReadingInIO

-----------------------------------------------------------------------------
(***************************************************************************)
(* Who is on the map after each operation of the world.                    *)
(***************************************************************************)
LEMMA MoveKeepsInPlay ==
  ASSUME WorldInv, NEW S \in SUBSET Players, NEW facing \in [Players -> Direction],
         \A p \in S : InPlay(p), moveTrantorian(S, facing), NEW c \in Players
  PROVE  InPlay(c)' <=> InPlay(c)
<1>1. pos[c] \in Tile /\ pos'[c] \in Tile
  BY MoveType DEF WorldInv, WorldTypeOK
<1>2. pos'[c] = IF c \in S THEN Move(pos[c], facing[c]) ELSE pos[c]
  BY DEF moveTrantorian
<1>3. on'[pos'[c]] = {p \in on[pos'[c]] : ~(p \in S /\ pos[p] = pos'[c])}
                       \cup {p \in S : Move(pos[p], facing[p]) = pos'[c]}
  BY <1>1 DEF moveTrantorian
<1>4. CASE c \in S
  BY <1>2, <1>3, <1>4 DEF InPlay
<1>5. CASE c \notin S
  BY <1>2, <1>3, <1>5 DEF InPlay
<1> QED  BY <1>4, <1>5

LEMMA HatchPutsInPlay ==
  ASSUME WorldInv, NEW p \in Players, p \notin hatched,
         NEW t \in Teams, hatchEgg(p, t), NEW c \in Players
  PROVE  InPlay(c)' <=> (c = p \/ InPlay(c))
<1>1. PICK e \in TeamEggs(t) :
        /\ pos' = [pos EXCEPT ![p] = e.tile]
        /\ on' = [on EXCEPT ![e.tile] = @ \cup {p}]
  BY DEF hatchEgg
<1>2. e.tile \in Tile
  BY DEF TeamEggs, WorldInv, WorldTypeOK, Egg
<1> QED  BY <1>1, <1>2 DEF InPlay, WorldInv, WorldTypeOK

LEMMA LeaveTakesOff ==
  ASSUME WorldInv, NEW p \in Players, leaveMap(p), NEW c \in Players
  PROVE  InPlay(c)' <=> (c # p /\ InPlay(c))
BY DEF leaveMap, InPlay, WorldInv, WorldTypeOK

LEMMA AgeTakesOff ==
  ASSUME WorldInv, NEW due \in SUBSET {p \in Players : InPlay(p)}, checkLives(due),
         NEW c \in Players
  PROVE  InPlay(c)' <=> (InPlay(c) /\ life'[c] # 0)
BY DEF checkLives, checkLife, InPlay, WorldInv, WorldTypeOK

-----------------------------------------------------------------------------
(***************************************************************************)
(* The server implements the world: each of its steps is an operation that *)
(* the world allows, or leaves the world alone.                            *)
(***************************************************************************)

(* Whose command is at work stands on the map, alive. *)
LEMMA ActorInPlay ==
  ASSUME ServerInv, NEW c \in Players, NEW v, Turns(c, v)
  PROVE  InPlay(c) /\ conn[c] = "AI" /\ life[c] > 0
BY DEF ServerInv, Turns, OnlyAIQueue, NoneDead, PlayersAreClients

LEMMA DisconnectIsLeave ==
  ASSUME ServerInv, NEW c \in Players, phase = "io", Disconnect(c)
  PROVE  Leave(c) \/ UNCHANGED worldVars
<1>1. CASE conn[c] = "AI"
  <2>1. InPlay(c)
    BY <1>1 DEF ServerInv, NoneDead, PlayersAreClients
  <2> QED  BY <1>1, <2>1 DEF Disconnect, Leave
<1>2. CASE conn[c] # "AI"
  BY <1>2 DEF Disconnect
<1> QED  BY <1>1, <1>2

(* The dead have left the map already when their clients are told. *)
LEMMA DeathsLeaveMapAlone ==
  ASSUME ServerInv, HandleDeaths
  PROVE  UNCHANGED worldVars
<1>1. \A t \in Tile : on'[t] = on[t]
  <2> SUFFICES ASSUME NEW t \in Tile
               PROVE  {p \in on[t] : ~(p \in Dead /\ pos[p] = t)} = on[t]
    BY DEF HandleDeaths
  <2>1. \A p \in on[t] : life[p] > 0
    BY DEF ServerInv, WorldInv, MapConsistent
  <2> QED  BY <2>1 DEF Dead
<1>2. on' = on
  <2>1. on = [t \in Tile |-> on[t]]
    BY DEF ServerInv, WorldInv, WorldTypeOK
  <2>2. on' = [t \in Tile |-> on'[t]]
    BY DEF HandleDeaths
  <2> QED  BY <1>1, <2>1, <2>2
<1> QED  BY <1>2 DEF HandleDeaths, worldVars, placeVars

LEMMA CompleteIsWorld ==
  ASSUME ServerInv, NEW c \in Players, Complete(c)
  PROVE  \/ Step(c) \/ Turn(c) \/ Fork(c) \/ Eject(c) \/ Take(c) \/ Drop(c) \/ Finish(c)
         \/ UNCHANGED worldVars
<1>1. InPlay(c)
  BY ActorInPlay
  DEF Complete, CompleteForward, CompleteTurn, CompleteFork, CompleteEject,
      CompleteTake, CompleteSet, CompleteQuery, CompleteIncantation, Due
<1> QED
  BY <1>1
  DEF Complete, CompleteForward, CompleteTurn, CompleteFork, CompleteEject,
      CompleteTake, CompleteSet, CompleteQuery, CompleteIncantation,
      Step, Turn, Fork, Eject, Take, Drop, Finish

LEMMA ImplementsWorld ==
  ASSUME ServerInv, [ServerNext]_serverVars
  PROVE  [WorldNext]_worldVars
<1>1. ASSUME NEW c \in Players, ClientIO(c) PROVE [WorldNext]_worldVars
  <2>1. CASE HangUp(c) \/ WriteFails(c) \/ Refuse(c)
    <3>1. phase = "io" /\ Disconnect(c)
      BY <2>1 DEF HangUp, WriteFails, Refuse, ServerInv, ReadingInIO
    <3> QED  BY <3>1, DisconnectIsLeave DEF WorldNext
  <2>2. CASE JoinTeam(c)
    <3>1. Hatch(c)
      BY <2>2 DEF JoinTeam, Hatch, ServerInv, JoinedOnce
    <3> QED  BY <3>1 DEF WorldNext
  <2>3. CASE StartRead(c) \/ JoinGUI(c) \/ JoinThrows(c) \/ \E v \in Verb : PushCommand(c, v)
    BY <2>3 DEF StartRead, JoinGUI, JoinThrows, PushCommand, QueueUpTo
  <2> QED  BY <1>1, <2>1, <2>2, <2>3 DEF ClientIO
<1>2. ASSUME NEW c \in Players, ClientExec(c) PROVE [WorldNext]_worldVars
  <2>1. CASE StartIncantation(c)
    <3>1. InPlay(c)
      BY <2>1, ActorInPlay DEF StartIncantation
    <3>2. Start(c)
      BY <2>1, <3>1 DEF StartIncantation, Start
    <3> QED  BY <3>2 DEF WorldNext
  <2>2. CASE Complete(c)
    BY <2>2, CompleteIsWorld DEF WorldNext
  <2>3. CASE PassOver(c) \/ RefuseIncantation(c) \/ \E v \in Verb : Begin(c, v)
    BY <2>3 DEF PassOver, RefuseIncantation, Begin
  <2> QED  BY <1>2, <2>1, <2>2, <2>3 DEF ClientExec
<1>3. CASE TickResources
  BY <1>3 DEF TickResources, WorldNext, Respawn
<1>4. CASE TickLives
  BY <1>4 DEF TickLives, WorldNext, Age
<1>5. CASE HandleDeaths
  BY <1>5, DeathsLeaveMapAlone
<1>6. ASSUME NEW c \in Players, Accept(c) PROVE [WorldNext]_worldVars
  BY <1>6 DEF Accept, PollReturns
<1>7. CASE Elapse \/ Wake \/ EndRead \/ EndIO \/ EndExec \/ CheckVictory \/ Stay
            \/ UNCHANGED serverVars
  BY <1>7
  DEF Elapse, Wake, PollReturns, EndRead, EndIO, EndExec, CheckVictory, Stay, serverVars
<1> QED  BY <1>1, <1>2, <1>3, <1>4, <1>5, <1>6, <1>7 DEF ServerNext, LoopStep

-----------------------------------------------------------------------------
(***************************************************************************)
(* What happens to the clients, apart from the players they own.           *)
(***************************************************************************)
ClientTypes ==
  /\ conn \in [Players -> Open \cup {"absent", "gone"}]
  /\ queue \in [Players -> Seq(Verb)]
  /\ \A c \in Players : Len(queue[c]) <= MaxPending
  /\ begun \in [Players -> BOOLEAN]
  /\ wait \in [Players -> Nat]
  /\ owed \in [Players -> Nat]
  /\ lines \in [Players -> 0 .. MaxLines]

LoopTypes ==
  /\ phase \in {"poll", "io", "exec", "tick", "lives", "deaths", "victory",
                "crashed", "stopped"}
  /\ todo \subseteq Players
  /\ reading \subseteq Players

ClientInv == ClientTypes /\ AnswersMatchQueue /\ OnlyAIQueue

(* A command moves at the front of a queue, or time passes for it. *)
QueueStep(c) ==
  \/ queue[c] # <<>> /\ Pop(c, 1)
  \/ queue[c] # <<>> /\ \E v \in Verb : StartClock(c, v)
  \/ \E v \in Verb : PushCommand(c, v)

(* A client that has no player yet connects, or becomes what it is to be. *)
Enter(c) ==
  /\ conn[c] \in {"absent", "PENDING"}
  /\ \E s \in Open : conn' = [conn EXCEPT ![c] = s]
  /\ UNCHANGED <<queue, begun, wait, owed, lines>>

LEMMA FrontVerb ==
  ASSUME ServerInv, NEW c \in Players, queue[c] # <<>>
  PROVE  Head(queue[c]) \in Verb
<1>1. queue[c] \in Seq(Verb)
  BY DEF ServerInv, ServerTypeOK
<1> QED  BY <1>1, HeadTailProperties

LEMMA ClientMoves ==
  ASSUME ServerInv, ServerNext
  PROVE  \/ UNCHANGED clientVars
         \/ Elapse
         \/ \E S \in SUBSET Players : Forget(S)
         \/ \E c \in Players : QueueStep(c) \/ Enter(c)
<1>1. ASSUME NEW c \in Players, ClientIO(c)
      PROVE  UNCHANGED clientVars \/ Forget({c}) \/ QueueStep(c) \/ Enter(c)
  <2>1. CASE HangUp(c) \/ WriteFails(c) \/ Refuse(c)
    BY <2>1 DEF HangUp, WriteFails, Refuse, Disconnect
  <2>2. CASE JoinTeam(c) \/ JoinGUI(c)
    BY <2>2 DEF JoinTeam, JoinGUI, Enter, Open
  <2>3. CASE StartRead(c) \/ JoinThrows(c)
    BY <2>3 DEF StartRead, JoinThrows
  <2>4. CASE \E v \in Verb : PushCommand(c, v)
    BY <2>4 DEF QueueStep
  <2> QED  BY <1>1, <2>1, <2>2, <2>3, <2>4 DEF ClientIO
<1>2. ASSUME NEW c \in Players, Complete(c)
      PROVE  queue[c] # <<>> /\ Pop(c, 1)
  <2>1. CASE CompleteIncantation(c)
    <3>1. InPlay(c)
      BY <2>1, ActorInPlay DEF CompleteIncantation, Due
    <3>2. c \in Peers(c)
      BY <3>1 DEF InPlay, Peers
    <3> QED  BY <2>1, <3>2 DEF CompleteIncantation, Due, Turns
  <2>2. CASE CompleteForward(c) \/ CompleteTurn(c) \/ CompleteFork(c) \/ CompleteEject(c)
    BY <2>2 DEF CompleteForward, CompleteTurn, CompleteFork, CompleteEject, Due, Turns
  <2>3. CASE CompleteTake(c) \/ CompleteSet(c) \/ CompleteQuery(c)
    BY <2>3 DEF CompleteTake, CompleteSet, CompleteQuery, Due, Turns
  <2> QED  BY <1>2, <2>1, <2>2, <2>3 DEF Complete
<1>3. ASSUME NEW c \in Players, ClientExec(c)
      PROVE  UNCHANGED clientVars \/ QueueStep(c)
  <2>1. CASE PassOver(c)
    BY <2>1 DEF PassOver
  <2>2. CASE \E v \in Verb : Begin(c, v)
    BY <2>2 DEF Begin, Turns, QueueStep
  <2>3. CASE StartIncantation(c)
    <3>1. queue[c] # <<>> /\ "incantation" \in Verb
      BY <2>3, FrontVerb DEF StartIncantation, Turns
    <3> QED  BY <2>3, <3>1 DEF StartIncantation, QueueStep
  <2>4. CASE RefuseIncantation(c)
    BY <2>4 DEF RefuseIncantation, Turns, QueueStep
  <2>5. CASE Complete(c)
    BY <2>5, <1>2 DEF QueueStep
  <2> QED  BY <1>3, <2>1, <2>2, <2>3, <2>4, <2>5 DEF ClientExec
<1>4. ASSUME NEW c \in Players, Accept(c) PROVE Enter(c)
  BY <1>4 DEF Accept, PollReturns, Enter, Open
<1>5. CASE HandleDeaths
  BY <1>5 DEF HandleDeaths, Dead
<1>6. CASE Wake \/ EndRead \/ EndIO \/ EndExec \/ TickResources \/ TickLives
            \/ CheckVictory \/ Stay
  BY <1>6
  DEF Wake, PollReturns, EndRead, EndIO, EndExec, TickResources, TickLives,
      CheckVictory, Stay, serverVars, clientVars
<1> QED  BY <1>1, <1>3, <1>4, <1>5, <1>6 DEF ServerNext, LoopStep

LEMMA ForgetClients ==
  ASSUME ClientInv, NEW S \in SUBSET Players, Forget(S)
  PROVE  ClientInv'
<1> USE DEF ClientInv, ClientTypes, AnswersMatchQueue, OnlyAIQueue
<1>1. begun' \in [Players -> BOOLEAN]
  BY Zenon DEF Forget
<1>2. <<>> \in Seq(Verb) /\ Len(<<>>) = 0
  BY EmptySeq
<1>3. /\ queue' \in [Players -> Seq(Verb)]
      /\ \A c \in Players : Len(queue'[c]) <= MaxPending /\ owed'[c] = Len(queue'[c])
  BY <1>2, ServerAssumption DEF Forget
<1>4. \A c \in Players : begun'[c] => c \notin S /\ begun[c]
  BY DEF Forget
<1>5. \A c \in Players : c \notin S => queue'[c] = queue[c] /\ conn'[c] = conn[c]
  BY DEF Forget
<1>6. \A c \in Players : c \in S => queue'[c] = <<>>
  BY DEF Forget
<1>7. /\ conn' \in [Players -> Open \cup {"absent", "gone"}]
      /\ wait' \in [Players -> Nat] /\ owed' \in [Players -> Nat]
      /\ lines' \in [Players -> 0 .. MaxLines]
  BY DEF Forget
<1> QED  BY <1>1, <1>3, <1>4, <1>5, <1>6, <1>7

LEMMA EnterClients ==
  ASSUME ClientInv, NEW c \in Players, Enter(c)
  PROVE  ClientInv'
BY DEF ClientInv, ClientTypes, AnswersMatchQueue, OnlyAIQueue, Enter, Open

LEMMA ElapseClients ==
  ASSUME ClientInv, Elapse
  PROVE  ClientInv'
BY DEF ClientInv, ClientTypes, AnswersMatchQueue, OnlyAIQueue, Elapse

LEMMA QueueClients ==
  ASSUME ClientInv, NEW c \in Players, QueueStep(c)
  PROVE  ClientInv'
<1> USE ServerAssumption
<1> USE DEF ClientInv, ClientTypes, AnswersMatchQueue, OnlyAIQueue
<1>1. CASE queue[c] # <<>> /\ Pop(c, 1)
  <2>1. /\ Tail(queue[c]) \in Seq(Verb)
        /\ Len(Tail(queue[c])) = Len(queue[c]) - 1
    BY <1>1, HeadTailProperties
  <2>2. Len(queue[c]) \in Nat
    BY LenProperties
  <2>3. owed'[c] = Len(queue'[c]) /\ owed'[c] \in Nat /\ Len(queue'[c]) <= MaxPending
    BY <1>1, <2>1, <2>2, LenProperties DEF Pop
  <2> QED  BY <1>1, <2>1, <2>3 DEF Pop
<1>2. CASE queue[c] # <<>> /\ \E v \in Verb : StartClock(c, v)
  BY <1>2 DEF StartClock
<1>3. ASSUME NEW v \in Verb, PushCommand(c, v) PROVE ClientInv'
  <2>1. /\ Append(queue[c], v) \in Seq(Verb)
        /\ Append(queue[c], v) # <<>>
        /\ Len(Append(queue[c], v)) = Len(queue[c]) + 1
    <3>1. queue[c] \in Seq(Verb)
      OBVIOUS
    <3> HIDE DEF ClientInv
    <3>2. Append(queue[c], v) \in Seq(Verb)
      BY <3>1, AppendProperties, Zenon
    <3>3. Len(Append(queue[c], v)) = Len(queue[c]) + 1
      BY <3>1, AppendProperties, ZenonT(40)
    <3>4. Len(<<>>) = 0 /\ Len(queue[c]) \in Nat
      BY <3>1, EmptySeq, LenProperties
    <3>5. Append(queue[c], v) # <<>>
      BY <3>3, <3>4
    <3> QED  BY <3>2, <3>3, <3>5
  <2>2. Len(queue[c]) \in Nat
    BY LenProperties
  <2>3. lines' \in [Players -> 0 .. MaxLines]
    BY <1>3 DEF PushCommand, QueueUpTo
  <2>4. CASE Len(queue[c]) < MaxPending
    <3>1. /\ queue' = [queue EXCEPT ![c] = Append(queue[c], v)]
          /\ owed' = [owed EXCEPT ![c] = owed[c] + 1]
          /\ UNCHANGED <<conn, begun, wait>> /\ conn[c] = "AI"
      BY <1>3, <2>4 DEF PushCommand, QueueUpTo
    <3>2. /\ queue' \in [Players -> Seq(Verb)]
          /\ owed' \in [Players -> Nat]
      BY <2>1, <3>1
    <3>3. \A d \in Players : Len(queue'[d]) <= MaxPending /\ owed'[d] = Len(queue'[d])
      BY <2>1, <2>2, <2>4, <3>1
    <3>4. \A d \in Players : queue'[d] # <<>> => queue[d] # <<>> \/ conn[d] = "AI"
      BY <3>1
    <3>5. \A d \in Players : queue[d] # <<>> => queue'[d] # <<>>
      BY <2>1, <3>1
    <3> QED  BY <2>3, <3>1, <3>2, <3>3, <3>4, <3>5
  <2>5. CASE ~(Len(queue[c]) < MaxPending)
    BY <1>3, <2>3, <2>5 DEF PushCommand, QueueUpTo
  <2> QED  BY <2>4, <2>5
<1> QED  BY <1>1, <1>2, <1>3 DEF QueueStep

LEMMA ClientStep ==
  ASSUME ServerInv, [ServerNext]_serverVars
  PROVE  ClientInv'
<1>1. ClientInv
  BY DEF ServerInv, ServerTypeOK, ClientInv, ClientTypes
<1>2. CASE UNCHANGED clientVars
  BY <1>1, <1>2 DEF ClientInv, ClientTypes, AnswersMatchQueue, OnlyAIQueue, clientVars
<1>3. CASE ServerNext
  BY <1>1, <1>2, <1>3, ClientMoves, ForgetClients, EnterClients, ElapseClients, QueueClients
<1> QED  BY <1>2, <1>3 DEF serverVars

LEMMA LoopStepTypes ==
  ASSUME ServerInv, [ServerNext]_serverVars
  PROVE  LoopTypes' /\ ReadingInIO'
<1> USE DEF LoopTypes, ReadingInIO, ServerInv, ServerTypeOK
<1>1. ASSUME NEW c \in Players, ClientIO(c) PROVE LoopTypes' /\ ReadingInIO'
  BY <1>1
  DEF ClientIO, HangUp, StartRead, WriteFails, JoinTeam, JoinGUI, Refuse, JoinThrows,
      PushCommand, QueueUpTo, loopVars
<1>2. ASSUME NEW c \in Players, ClientExec(c) PROVE LoopTypes' /\ ReadingInIO'
  BY <1>2
  DEF ClientExec, PassOver, Begin, StartIncantation, RefuseIncantation, Complete,
      CompleteForward, CompleteTurn, CompleteFork, CompleteEject, CompleteTake,
      CompleteSet, CompleteQuery, CompleteIncantation, Due, Turns
<1>3. ASSUME NEW c \in Players, Accept(c) PROVE LoopTypes' /\ ReadingInIO'
  BY <1>3 DEF Accept, PollReturns
<1>4. CASE Elapse \/ Wake \/ EndRead \/ EndIO \/ EndExec \/ Stay \/ UNCHANGED serverVars
  BY <1>4
  DEF Elapse, Wake, PollReturns, EndRead, EndIO, EndExec, Stay, serverVars, loopVars
<1>5. CASE TickResources \/ TickLives \/ HandleDeaths \/ CheckVictory
  BY <1>5 DEF TickResources, TickLives, HandleDeaths, CheckVictory
<1> QED  BY <1>1, <1>2, <1>3, <1>4, <1>5 DEF ServerNext, LoopStep

-----------------------------------------------------------------------------
(***************************************************************************)
(* Who owns a player on the map.                                           *)
(***************************************************************************)
Owners == PlayersAreClients /\ JoinedOnce /\ NoneDead

(* Nobody enters or leaves the map, or the set of AI clients. *)
Quiet ==
  /\ UNCHANGED <<life, hatched>>
  /\ \A c \in Players : InPlay(c)' <=> InPlay(c)
  /\ \A c \in Players :
       \/ conn'[c] = conn[c]
       \/ conn[c] \in {"absent", "PENDING"} /\ conn'[c] \in {"PENDING", "GUI"}
  /\ phase = "deaths" => phase' = "deaths"

LEMMA QuietOwners ==
  ASSUME ServerInv, Quiet
  PROVE  Owners'
BY DEF ServerInv, Quiet, Owners, PlayersAreClients, JoinedOnce, NoneDead

LEMMA DisconnectOwners ==
  ASSUME ServerInv, NEW c \in Players, Disconnect(c), phase = "io", phase' = "io"
  PROVE  Owners'
<1>1. WorldInv
  BY DEF ServerInv
<1>2. \A d \in Players : conn'[d] = IF d = c THEN "gone" ELSE conn[d]
  BY DEF Disconnect, Forget
<1>3. UNCHANGED <<life, hatched>>
  BY DEF Disconnect, leaveMap, worldVars
<1>4. CASE conn[c] = "AI"
  <2>1. \A d \in Players : InPlay(d)' <=> (d # c /\ InPlay(d))
    BY <1>1, <1>4, LeaveTakesOff DEF Disconnect
  <2> QED
    BY <1>2, <1>3, <2>1
    DEF ServerInv, Owners, PlayersAreClients, JoinedOnce, NoneDead
<1>5. CASE conn[c] # "AI"
  <2>1. \A d \in Players : InPlay(d)' <=> InPlay(d)
    BY <1>5 DEF Disconnect, worldVars, placeVars, InPlay
  <2> QED
    BY <1>2, <1>3, <1>5, <2>1
    DEF ServerInv, Owners, PlayersAreClients, JoinedOnce, NoneDead
<1> QED  BY <1>4, <1>5

LEMMA JoinOwners ==
  ASSUME ServerInv, NEW c \in Players, JoinTeam(c)
  PROVE  Owners'
<1>1. PICK t \in Teams : hatchEgg(c, t)
  BY DEF JoinTeam
<1>2. WorldInv /\ c \notin hatched
  BY DEF JoinTeam, ServerInv, JoinedOnce
<1>3. \A d \in Players : InPlay(d)' <=> (d = c \/ InPlay(d))
  BY <1>1, <1>2, HatchPutsInPlay
<1>4. life[c] > 0
  BY <1>2, WorldAssumption DEF WorldInv, UnhatchedAlive
<1>5. \A d \in Players : conn'[d] = IF d = c THEN "AI" ELSE conn[d]
  BY DEF JoinTeam, ServerInv, ServerTypeOK
<1>6. /\ UNCHANGED <<life, phase>>
      /\ hatched' = hatched \cup {c}
      /\ phase = "io"
  BY <1>1 DEF JoinTeam, hatchEgg, loopVars, ServerInv, ReadingInIO
<1> QED
  BY <1>3, <1>4, <1>5, <1>6
  DEF ServerInv, Owners, PlayersAreClients, JoinedOnce, NoneDead

(* Lives go: whoever has none left is off the map before it is told. *)
LEMMA LivesOwners ==
  ASSUME ServerInv, TickLives
  PROVE  Owners'
<1>1. PICK due \in SUBSET {c \in Players : InPlay(c)} : checkLives(due)
  BY DEF TickLives
<1>2. WorldInv
  BY DEF ServerInv
<1>3. \A c \in Players : InPlay(c)' <=> (InPlay(c) /\ life'[c] # 0)
  BY <1>1, <1>2, AgeTakesOff
<1>4. \A c \in Players : life'[c] = IF c \in due THEN life[c] - 1 ELSE life[c]
  BY <1>1 DEF checkLives, checkLife
<1>5. \A c \in Players : life[c] \in Nat
  BY <1>2, WorldAssumption DEF WorldInv, WorldTypeOK
<1>6. \A c \in due : InPlay(c) /\ conn[c] = "AI" /\ life[c] > 0
  BY DEF ServerInv, PlayersAreClients
<1>7. UNCHANGED <<hatched, conn>> /\ phase' = "deaths"
  BY <1>1 DEF TickLives, checkLives, checkLife, clientVars
<1> QED
  BY <1>3, <1>4, <1>5, <1>6, <1>7
  DEF ServerInv, Owners, PlayersAreClients, JoinedOnce, NoneDead

LEMMA DeathsOwners ==
  ASSUME ServerInv, HandleDeaths
  PROVE  Owners'
<1>1. UNCHANGED <<life, hatched, pos, on>>
  BY DeathsLeaveMapAlone DEF worldVars, placeVars
<1>2. \A c \in Players : InPlay(c)' <=> InPlay(c)
  BY <1>1 DEF InPlay
<1>3. \A c \in Players :
        conn'[c] = IF conn[c] = "AI" /\ life[c] = 0 THEN "gone" ELSE conn[c]
  BY DEF HandleDeaths, Forget, Dead
<1>4. \A c \in Players : life[c] \in Nat
  BY WorldAssumption DEF ServerInv, WorldInv, WorldTypeOK
<1> QED
  BY <1>1, <1>2, <1>3, <1>4
  DEF ServerInv, Owners, PlayersAreClients, JoinedOnce, NoneDead

LEMMA ExecQuiet ==
  ASSUME ServerInv, NEW c \in Players, ClientExec(c)
  PROVE  Quiet
<1>1. WorldInv
  BY DEF ServerInv
<1>2. UNCHANGED conn /\ phase = "exec" /\ phase' = "exec"
  BY DEF ClientExec, PassOver, Begin, StartIncantation, RefuseIncantation, Complete,
      CompleteForward, CompleteTurn, CompleteFork, CompleteEject, CompleteTake,
      CompleteSet, CompleteQuery, CompleteIncantation, Due, Turns, StartClock, Pop,
      clientVars
<1>3. CASE CompleteForward(c)
  <2>1. InPlay(c)
    BY <1>3, ActorInPlay DEF CompleteForward, Due
  <2>2. moveTrantorian({c}, dir) /\ UNCHANGED <<life, hatched>>
    BY <1>3 DEF CompleteForward, forward
  <2>3. dir \in [Players -> Direction]
    BY <1>1 DEF WorldInv, WorldTypeOK
  <2>4. \A d \in Players : InPlay(d)' <=> InPlay(d)
    BY <1>1, <2>1, <2>2, <2>3, MoveKeepsInPlay
  <2> QED  BY <1>2, <2>2, <2>4 DEF Quiet
<1>4. CASE CompleteEject(c) /\ eject(c)
  <2> DEFINE facing == [q \in Players |-> dir[c]]
  <2>1. facing \in [Players -> Direction]
    BY <1>1 DEF WorldInv, WorldTypeOK
  <2>2. TileMates(c) \in SUBSET Players /\ \A q \in TileMates(c) : InPlay(q)
    BY <1>1 DEF WorldInv, WorldTypeOK, MapConsistent, TileMates, InPlay
  <2>3. moveTrantorian(TileMates(c), facing) /\ UNCHANGED <<life, hatched>>
    BY <1>4 DEF eject
  <2>4. \A d \in Players : InPlay(d)' <=> InPlay(d)
    <3> HIDE DEF facing
    <3> QED  BY <1>1, <2>1, <2>2, <2>3, MoveKeepsInPlay
  <2> QED  BY <1>2, <2>3, <2>4 DEF Quiet
<1>5. CASE ~CompleteForward(c) /\ ~(CompleteEject(c) /\ eject(c))
  <2>1. UNCHANGED <<life, hatched, pos, on>>
    BY <1>5
    DEF ClientExec, PassOver, Begin, StartIncantation, startElevation,
        RefuseIncantation, Complete, CompleteTurn, left, right, turn, CompleteFork,
        fork, layEgg, CompleteEject, CompleteTake, take, CompleteSet, set,
        CompleteQuery, CompleteIncantation, finishElevation, endElevation,
        worldVars, placeVars
  <2> QED  BY <1>2, <2>1 DEF Quiet, InPlay
<1> QED  BY <1>3, <1>4, <1>5

LEMMA OwnerStep ==
  ASSUME ServerInv, [ServerNext]_serverVars
  PROVE  Owners'
<1>1. ASSUME NEW c \in Players, ClientIO(c) PROVE Owners'
  <2>1. CASE HangUp(c) \/ WriteFails(c) \/ Refuse(c)
    <3>1. phase = "io" /\ phase' = "io" /\ Disconnect(c)
      BY <2>1 DEF HangUp, WriteFails, Refuse, ServerInv, ReadingInIO
    <3> QED  BY <3>1, DisconnectOwners
  <2>2. CASE JoinTeam(c)
    BY <2>2, JoinOwners
  <2>3. CASE StartRead(c) \/ JoinGUI(c) \/ JoinThrows(c) \/ \E v \in Verb : PushCommand(c, v)
    <3>1. Quiet
      BY <2>3
      DEF StartRead, JoinGUI, JoinThrows, PushCommand, QueueUpTo, worldVars, placeVars,
          clientVars, loopVars, Quiet, InPlay, ServerInv, ServerTypeOK, ReadingInIO
    <3> QED  BY <3>1, QuietOwners
  <2> QED  BY <1>1, <2>1, <2>2, <2>3 DEF ClientIO
<1>2. ASSUME NEW c \in Players, ClientExec(c) PROVE Owners'
  BY <1>2, ExecQuiet, QuietOwners
<1>3. ASSUME NEW c \in Players, Accept(c) PROVE Owners'
  <2>1. Quiet
    BY <1>3
    DEF Accept, PollReturns, worldVars, placeVars, Quiet, InPlay, ServerInv, ServerTypeOK
  <2> QED  BY <2>1, QuietOwners
<1>4. CASE Elapse \/ Wake \/ EndRead \/ EndIO \/ EndExec \/ TickResources
            \/ CheckVictory \/ Stay \/ UNCHANGED serverVars
  <2>1. UNCHANGED <<life, hatched, pos, on, conn>>
    BY <1>4
    DEF Elapse, Wake, PollReturns, EndRead, EndIO, EndExec, TickResources,
        generateResources, CheckVictory, Stay, serverVars, worldVars, placeVars, clientVars
  <2>2. phase = "deaths" => phase' = "deaths"
    BY <1>4
    DEF Elapse, Wake, PollReturns, EndRead, EndIO, EndExec, TickResources,
        CheckVictory, Stay, serverVars, loopVars, ServerInv, ReadingInIO
  <2>3. Quiet
    BY <2>1, <2>2 DEF Quiet, InPlay
  <2> QED  BY <2>3, QuietOwners
<1> QED
  BY <1>1, <1>2, <1>3, <1>4, LivesOwners, DeathsOwners DEF ServerNext, LoopStep

-----------------------------------------------------------------------------
LEMMA ServerInvInit == ServerInit => ServerInv
<1> SUFFICES ASSUME ServerInit PROVE ServerInv
  OBVIOUS
<1>1. WorldInv
  BY WorldInvInit DEF ServerInit
<1>2. <<>> \in Seq(Verb) /\ Len(<<>>) = 0
  BY EmptySeq
<1>3. ServerTypeOK
  BY <1>1, <1>2, ServerAssumption DEF ServerInit, ServerTypeOK, WorldInv
<1>4. PlayersAreClients
  <2>1. \A c \in Players : ~InPlay(c)
    BY <1>1 DEF ServerInit, WorldInit, newTrantorian, spawnEggs, WorldInv, WorldTypeOK, MapConsistent, InPlay
  <2> QED  BY <2>1 DEF ServerInit, PlayersAreClients
<1>5. AnswersMatchQueue /\ JoinedOnce /\ OnlyAIQueue /\ NoneDead /\ ReadingInIO
  BY <1>2
  DEF ServerInit, WorldInit, newTrantorian, spawnEggs, AnswersMatchQueue, JoinedOnce, OnlyAIQueue, NoneDead,
      ReadingInIO
<1> QED  BY <1>1, <1>3, <1>4, <1>5 DEF ServerInv

LEMMA ServerInvStep == ServerInv /\ [ServerNext]_serverVars => ServerInv'
<1> SUFFICES ASSUME ServerInv, [ServerNext]_serverVars PROVE ServerInv'
  OBVIOUS
<1>1. WorldInv'
  <2>1. WorldInv
    BY DEF ServerInv
  <2> QED  BY <2>1, ImplementsWorld, WorldInvStep
<1>2. ServerTypeOK'
  BY <1>1, ClientStep, LoopStepTypes
  DEF ServerTypeOK, WorldInv, ClientInv, ClientTypes, LoopTypes
<1> QED  BY <1>1, <1>2, ClientStep, LoopStepTypes, OwnerStep DEF ServerInv, ClientInv, Owners

(* The invariant of the server holds at the start and every step keeps it. *)
THEOREM ServerInvariant == ServerSpec => []ServerInv
BY ServerInvInit, ServerInvStep, PTL DEF ServerSpec

(***************************************************************************)
(* The server implements the world: whatever clients send and whenever     *)
(* they come and go, the map goes through nothing but the operations of    *)
(* players that stand on it, hatchings, agings and respawns.               *)
(***************************************************************************)
THEOREM ServerImplementsWorld == ServerSpec => WorldSpec
<1>1. ServerInit => WorldInit
  BY DEF ServerInit
<1>2. ServerInv /\ [ServerNext]_serverVars => [WorldNext]_worldVars
  BY ImplementsWorld
<1> QED  BY <1>1, <1>2, ServerInvariant, PTL DEF ServerSpec, WorldSpec

(***************************************************************************)
(* Every variable of the server keeps its type; no queue ever holds more   *)
(* than MaxPending commands.                                               *)
(***************************************************************************)
THEOREM ServerTypeCorrect == ServerSpec => []ServerTypeOK
<1>1. ServerInv => ServerTypeOK
  BY DEF ServerInv
<1> QED  BY <1>1, ServerInvariant, PTL

(***************************************************************************)
(* The players on the map are exactly the living players of connected AI   *)
(* clients: nobody is left behind, and no command acts for a player that   *)
(* is not there.                                                           *)
(***************************************************************************)
THEOREM PlayersAreAlwaysClients == ServerSpec => []PlayersAreClients
<1>1. ServerInv => PlayersAreClients
  BY DEF ServerInv
<1> QED  BY <1>1, ServerInvariant, PTL

(***************************************************************************)
(* Each accepted command is answered once: the answers a client still      *)
(* waits for are as many as its queued commands.                           *)
(***************************************************************************)
THEOREM AnswersAlwaysMatch == ServerSpec => []AnswersMatchQueue
<1>1. ServerInv => AnswersMatchQueue
  BY DEF ServerInv
<1> QED  BY <1>1, ServerInvariant, PTL

(***************************************************************************)
(* What the world promises holds of the server, because it implements the  *)
(* world: a tile lists only living players that believe they stand on it,  *)
(* no team has more eggs than slots, players rise together, and resources  *)
(* are conserved.                                                          *)
(***************************************************************************)
THEOREM ServerKeepsWorldLaws ==
  ServerSpec => /\ []MapConsistent /\ []EggsWithinSlots
                /\ RiseTogether /\ ResourcesConserved
BY ServerImplementsWorld, MapAlwaysConsistent, EggsNeverExceedSlots, PlayersRiseTogether,
   ResourcesAlwaysConserved
=============================================================================
