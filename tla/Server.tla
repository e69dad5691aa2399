------------------------------- MODULE Server -------------------------------
(***************************************************************************)
(* The server: libs/network_server, one thread that runs                   *)
(*                                                                         *)
(*   poll; _processClients; _executeReadyCommands; _tickWorld;             *)
(*   _handleDeaths; _checkVictory                                          *)
(*                                                                         *)
(* for ever, with the commands of libs/protocol and the world of           *)
(* World.tla, whose variables and operations it extends.  A client is      *)
(* named by the player it will own: ids are never reused and a client gets *)
(* at most one player.                                                     *)
(*                                                                         *)
(* A step of the model is one client's turn in one stage of the loop.  The *)
(* clients of a stage come in any order (they sit in an unordered_map).    *)
(* The network is free: a client connects, sends lines and hangs up        *)
(* whenever it likes.  What is written to a socket is left to Link.tla;    *)
(* here a reply is only counted.                                           *)
(*                                                                         *)
(* Time is counted in units of 1/freq and passes while the loop sleeps in  *)
(* poll; the loop reads the clock once per pass (Server.cpp:369).          *)
(***************************************************************************)
EXTENDS World, Sequences

CONSTANTS
  MaxPending,       \* Client::maxPendingCommands
  Verb,             \* the command names clients send; any other is "unknown"
  Duration,         \* time units each command takes before it is executed
  MaxLines,         \* a bound of the model: commands a client ever sends
  MaxAllLines,      \* a bound of the model: commands all clients ever send
  MaxEggs,          \* a bound of the model: eggs ever laid
  MaxStones         \* a bound of the model: no respawn beyond this many of a kind

ASSUME ServerAssumption ==
  /\ MaxPending \in Nat \ {0}
  /\ Duration \in [Verb -> Nat]
  /\ MaxLines \in Nat

VARIABLES
  conn,             \* each client's ClientState, "absent" before and "gone" after
  queue,            \* _commandQueue
  begun, wait,      \* front().executing, and the time left until readyAt
  owed,             \* accepted commands their client has had no answer to yet
  lines,            \* commands each client has sent
  phase,            \* the stage of the loop
  todo,             \* the clients still to be visited in this stage
  reading           \* the client whose lines are being read, if any

clientVars == <<conn, queue, begun, wait, owed, lines>>
loopVars   == <<phase, todo, reading>>
serverVars == <<worldVars, clientVars, loopVars>>

Open == {"PENDING", "AI", "GUI"}
Halted == phase \in {"crashed", "stopped"}

Queries == {"look", "inventory", "broadcast", "connect_nbr", "unknown"}

-----------------------------------------------------------------------------
ServerInit ==
  /\ WorldInit
  /\ conn = [c \in Players |-> "absent"]
  /\ queue = [c \in Players |-> <<>>]
  /\ begun = [c \in Players |-> FALSE]
  /\ wait = [c \in Players |-> 0]
  /\ owed = [c \in Players |-> 0]
  /\ lines = [c \in Players |-> 0]
  /\ phase = "poll"
  /\ todo = {}
  /\ reading = {}

(***************************************************************************)
(* poll.  Time passes for the commands that are executing; then poll       *)
(* returns, for a socket or for a timer.  The listening socket is served   *)
(* first, at most one connection per pass; a new client is polled from the *)
(* next pass on.                                                           *)
(***************************************************************************)
Elapse ==
  /\ phase = "poll"
  /\ \E c \in Players : begun[c] /\ wait[c] > 0
  /\ wait' = [c \in Players |-> IF wait[c] > 0 THEN wait[c] - 1 ELSE 0]
  /\ UNCHANGED <<worldVars, conn, queue, begun, owed, lines, loopVars>>

PollReturns ==
  /\ phase = "poll"
  /\ phase' = "io"
  /\ todo' = {c \in Players : conn[c] \in Open}
  /\ UNCHANGED <<worldVars, queue, begun, wait, owed, lines, reading>>

Wake == PollReturns /\ UNCHANGED conn

Accept(c) ==
  /\ PollReturns
  /\ conn[c] = "absent"
  /\ conn' = [conn EXCEPT ![c] = "PENDING"]

(***************************************************************************)
(* _disconnectClient: the client and everything queued for it are gone,    *)
(* its player leaves the map; nobody else is told or changed.              *)
(***************************************************************************)
Forget(S) ==
  /\ conn' = [c \in Players |-> IF c \in S THEN "gone" ELSE conn[c]]
  /\ queue' = [c \in Players |-> IF c \in S THEN <<>> ELSE queue[c]]
  /\ begun' = [c \in Players |-> c \notin S /\ begun[c]]
  /\ wait' = [c \in Players |-> IF c \in S THEN 0 ELSE wait[c]]
  /\ owed' = [c \in Players |-> IF c \in S THEN 0 ELSE owed[c]]
  /\ UNCHANGED lines

(* _disconnectClient, in which the player is left standing on its tile. *)
ForgetOnly(c) == Forget({c}) /\ UNCHANGED worldVars

Disconnect(c) ==
  /\ Forget({c})
  /\ IF conn[c] = "AI" THEN leaveMap(c) ELSE UNCHANGED worldVars

-----------------------------------------------------------------------------
(***************************************************************************)
(* _processClients.  Each polled client is served at most once: it hangs   *)
(* up (POLLHUP, or a read of nothing), or it is read and all complete      *)
(* lines are handled one after the other, in the state the client is then  *)
(* in; at the end a failing write may still disconnect it.                 *)
(***************************************************************************)
HangUp(c) ==
  /\ phase = "io" /\ reading = {} /\ c \in todo
  /\ Disconnect(c)
  /\ todo' = todo \ {c}
  /\ UNCHANGED <<phase, reading>>

StartRead(c) ==
  /\ phase = "io" /\ reading = {} /\ c \in todo
  /\ conn[c] # "GUI"
  /\ reading' = {c}
  /\ todo' = todo \ {c}
  /\ UNCHANGED <<worldVars, clientVars, phase>>

EndRead ==
  /\ reading # {}
  /\ reading' = {}
  /\ UNCHANGED <<worldVars, clientVars, phase, todo>>

WriteFails(c) ==
  /\ c \in reading
  /\ Disconnect(c)
  /\ reading' = {}
  /\ UNCHANGED <<phase, todo>>

(* _assignClientToTeam: the first line names a team with a free slot... *)
JoinTeam(c) ==
  /\ c \in reading /\ conn[c] = "PENDING"
  /\ \E t \in Teams : hatchEgg(c, t)
  /\ conn' = [conn EXCEPT ![c] = "AI"]
  /\ UNCHANGED <<queue, begun, wait, owed, lines, loopVars>>

(* ...or "GRAPHIC"... *)
JoinGUI(c) ==
  /\ c \in reading /\ conn[c] = "PENDING"
  /\ conn' = [conn EXCEPT ![c] = "GUI"]
  /\ UNCHANGED <<worldVars, queue, begun, wait, owed, lines, loopVars>>

(* ...or a team that is full or unknown... *)
Refuse(c) ==
  /\ c \in reading /\ conn[c] = "PENDING"
  /\ \E name \in Teams \cup {NoTeam} :
       name \in Teams => slots[name] = 0
  /\ Disconnect(c)
  /\ reading' = {}
  /\ UNCHANGED <<phase, todo>>

(***************************************************************************)
(* ...or a team with a free slot and no egg: chooseEgg's exception is      *)
(* caught by nobody below main, which ends the server.                     *)
(***************************************************************************)
JoinThrows(c) ==
  /\ c \in reading /\ conn[c] = "PENDING"
  /\ \E t \in Teams : slots[t] > 0 /\ TeamEggs(t) = {}
  /\ phase' = "crashed"
  /\ reading' = {}
  /\ UNCHANGED <<worldVars, clientVars, todo>>

(* How many more eggs the commands already accepted may lay. *)
ForksPending ==
  Cardinality({w \in Players \X (1 .. MaxPending) :
                 w[2] <= Len(queue[w[1]]) /\ queue[w[1]][w[2]] = "fork"})

(* The commands sent so far. *)
AllLines == FoldFunction(+, 0, lines)

(* A command that arrives when its queue has room for `limit` of them. *)
QueueUpTo(limit, c, v) ==
  /\ c \in reading /\ conn[c] = "AI"
  /\ lines[c] < MaxLines /\ AllLines < MaxAllLines
  /\ v = "fork" => nextEgg + ForksPending < MaxEggs
  /\ lines' = [lines EXCEPT ![c] = @ + 1]
  /\ IF Len(queue[c]) < limit
       THEN /\ queue' = [queue EXCEPT ![c] = Append(@, v)]
            /\ owed' = [owed EXCEPT ![c] = @ + 1]
       ELSE UNCHANGED <<queue, owed>>
  /\ UNCHANGED <<worldVars, conn, begun, wait, loopVars>>

(* _pushAICommand that compares with <= instead of <. *)
PushOneTooMany(c, v) == QueueUpTo(MaxPending + 1, c, v)

(* _pushAICommand: a full queue drops the command without a word. *)
PushCommand(c, v) == QueueUpTo(MaxPending, c, v)

EndIO ==
  /\ phase = "io" /\ reading = {}
  /\ phase' = "exec"
  /\ todo' = {c \in Players : conn[c] = "AI"}
  /\ UNCHANGED <<worldVars, clientVars, reading>>

-----------------------------------------------------------------------------
(***************************************************************************)
(* _executeReadyCommands: one step of the command at the front of each     *)
(* queue.  It begins, unless the player is frozen; or it completes, once   *)
(* its time is up, frozen or not; or nothing happens.                      *)
(***************************************************************************)
Turns(c, v) ==
  /\ phase = "exec" /\ c \in todo
  /\ queue[c] # <<>> /\ Head(queue[c]) = v
  /\ todo' = todo \ {c}
  /\ UNCHANGED <<phase, reading>>

Idle(c) ==
  \/ queue[c] = <<>>
  \/ ~begun[c] /\ frozen[c]
  \/ begun[c] /\ wait[c] > 0

PassOver(c) ==
  /\ phase = "exec" /\ c \in todo
  /\ Idle(c)
  /\ todo' = todo \ {c}
  /\ UNCHANGED <<worldVars, clientVars, phase, reading>>

(* startCommand. *)
StartClock(c, v) ==
  /\ begun' = [begun EXCEPT ![c] = TRUE]
  /\ wait' = [wait EXCEPT ![c] = Duration[v]]
  /\ UNCHANGED <<conn, queue, owed, lines>>

(* popCommand, after `answers` final replies to the client that sent it. *)
Pop(c, answers) ==
  /\ queue' = [queue EXCEPT ![c] = Tail(@)]
  /\ begun' = [begun EXCEPT ![c] = FALSE]
  /\ owed' = [owed EXCEPT ![c] = @ - answers]
  /\ UNCHANGED <<conn, wait, lines>>

Begin(c, v) ==
  /\ Turns(c, v) /\ v # "incantation"
  /\ ~begun[c] /\ ~frozen[c]
  /\ StartClock(c, v)
  /\ UNCHANGED worldVars

(* _startIncantation without the first check of the ritual. *)
StartUnchecked(c) ==
  /\ Turns(c, "incantation")
  /\ ~begun[c] /\ ~frozen[c]
  /\ startElevation(c)
  /\ StartClock(c, "incantation")

(* _startIncantation: the ritual is possible, and its time starts... *)
StartIncantation(c) ==
  /\ Turns(c, "incantation")
  /\ ~begun[c] /\ ~frozen[c]
  /\ canElevate(c)
  /\ startElevation(c)
  /\ StartClock(c, "incantation")

(* _startIncantation that gives up without answering or dropping it. *)
RefuseSilently(c) ==
  /\ Turns(c, "incantation")
  /\ ~begun[c] /\ ~frozen[c]
  /\ ~canElevate(c)
  /\ UNCHANGED <<worldVars, clientVars>>

(* ...or it is not, and "ko" is the answer. *)
RefuseIncantation(c) ==
  /\ Turns(c, "incantation")
  /\ ~begun[c] /\ ~frozen[c]
  /\ ~canElevate(c)
  /\ Pop(c, 1)
  /\ UNCHANGED worldVars

(* _completeCommand that looks at isFrozen first, as _beginCommand does. *)
DueUnfrozen(c, v) == Turns(c, v) /\ begun[c] /\ wait[c] = 0 /\ ~frozen[c]

Due(c, v) == Turns(c, v) /\ begun[c] /\ wait[c] = 0

CompleteForward(c) == Due(c, "forward") /\ forward(c) /\ Pop(c, 1)

CompleteTurn(c) ==
  \/ Due(c, "left") /\ left(c) /\ Pop(c, 1)
  \/ Due(c, "right") /\ right(c) /\ Pop(c, 1)

CompleteFork(c) == Due(c, "fork") /\ fork(c) /\ Pop(c, 1)

(* An eject that also clears the eggs when there is nobody to push. *)
EjectAlone(c) ==
  /\ Due(c, "eject")
  /\ moveTrantorian(TileMates(c), [q \in Players |-> dir[c]])
  /\ eggs' = {e \in eggs : e.tile # pos[c]}
  /\ UNCHANGED <<hatched, team, life, ritualVars, stoneVars, nextEgg, slots>>
  /\ Pop(c, 1)

CompleteEject(c) ==
  /\ Due(c, "eject")
  /\ eject(c) \/ (~CanEject(c) /\ UNCHANGED worldVars)
  /\ Pop(c, 1)

(* A take that fails, and is not answered. *)
SilentTake(c) ==
  /\ Due(c, "take")
  /\ \/ (\E r \in Resource : take(c, r)) /\ Pop(c, 1)
     \/ UNCHANGED worldVars /\ Pop(c, 0)

(* The object a take or a set names is any resource, or nothing known. *)
CompleteTake(c) ==
  /\ Due(c, "take")
  /\ (\E r \in Resource : take(c, r)) \/ UNCHANGED worldVars
  /\ Pop(c, 1)

CompleteSet(c) ==
  /\ Due(c, "set")
  /\ (\E r \in Resource : set(c, r)) \/ UNCHANGED worldVars
  /\ Pop(c, 1)

CompleteQuery(c) ==
  /\ \E v \in Queries : Due(c, v)
  /\ Pop(c, 1)
  /\ UNCHANGED worldVars

(* _finishIncantation that tells only the players that were waiting for c. *)
AnswerTheOthers(c) ==
  /\ Due(c, "incantation")
  /\ finishElevation(c)
  /\ Pop(c, 0)

(***************************************************************************)
(* _finishIncantation: the answer goes to whoever takes part in the end of *)
(* the ritual, the client that asked for it among them if its own player   *)
(* is listed by the tile it stands on.                                     *)
(***************************************************************************)
CompleteIncantation(c) ==
  /\ Due(c, "incantation")
  /\ finishElevation(c)
  /\ Pop(c, IF c \in Peers(c) THEN 1 ELSE 0)

EndExec ==
  /\ phase = "exec" /\ todo = {}
  /\ phase' = "tick"
  /\ UNCHANGED <<worldVars, clientVars, todo, reading>>

-----------------------------------------------------------------------------
(* _tickWorld: resources respawn when their timer is due, then lives go. *)
TickResources ==
  /\ phase = "tick"
  /\ (AtMost(MaxStones) /\ generateResources) \/ UNCHANGED worldVars
  /\ phase' = "lives"
  /\ UNCHANGED <<clientVars, todo, reading>>

TickLives ==
  /\ phase = "lives"
  /\ \E due \in SUBSET {c \in Players : InPlay(c)} : checkLives(due)
  /\ phase' = "deaths"
  /\ UNCHANGED <<clientVars, todo, reading>>

(* _handleDeaths: whoever has no life left is told so and disconnected. *)
Dead == {c \in Players : conn[c] = "AI" /\ life[c] = 0}

(* _handleDeaths that tells the dead, and goes on serving them. *)
KeepServingDead ==
  /\ phase = "deaths"
  /\ phase' = "victory"
  /\ UNCHANGED <<worldVars, clientVars, todo, reading>>

HandleDeaths ==
  /\ phase = "deaths"
  /\ Forget(Dead)
  /\ on' = [t \in Tile |-> {p \in on[t] : ~(p \in Dead /\ pos[p] = t)}]
  /\ phase' = "victory"
  /\ UNCHANGED <<hatched, team, life, pos, dir, ritualVars, stoneVars, eggVars,
                 todo, reading>>

(* _checkVictory: the loop ends when a team has won. *)
CheckVictory ==
  /\ phase = "victory"
  /\ phase' = IF \E t \in Teams : victoryCondition(t) THEN "stopped" ELSE "poll"
  /\ UNCHANGED <<worldVars, clientVars, todo, reading>>

-----------------------------------------------------------------------------
Complete(c) ==
  \/ CompleteForward(c) \/ CompleteTurn(c) \/ CompleteFork(c) \/ CompleteEject(c)
  \/ CompleteTake(c) \/ CompleteSet(c) \/ CompleteQuery(c) \/ CompleteIncantation(c)

ClientIO(c) ==
  \/ HangUp(c) \/ StartRead(c) \/ WriteFails(c)
  \/ JoinTeam(c) \/ JoinGUI(c) \/ Refuse(c) \/ JoinThrows(c)
  \/ \E v \in Verb : PushCommand(c, v)

ClientExec(c) ==
  \/ PassOver(c)
  \/ \E v \in Verb : Begin(c, v)
  \/ StartIncantation(c) \/ RefuseIncantation(c)
  \/ Complete(c)

(* The loop's own steps: everything but the passing of time. *)
LoopStep ==
  \/ Wake
  \/ \E c \in Players : Accept(c) \/ ClientIO(c) \/ ClientExec(c)
  \/ EndRead \/ EndIO \/ EndExec
  \/ TickResources \/ TickLives \/ HandleDeaths \/ CheckVictory

(* The process has ended. *)
Stay == Halted /\ UNCHANGED serverVars

ServerNext == Elapse \/ LoopStep \/ Stay

ServerSpec == ServerInit /\ [][ServerNext]_serverVars

(***************************************************************************)
(* The loop runs as long as it can, and time passes between its passes:    *)
(* poll always returns, because the respawn timer bounds its timeout.      *)
(* Nothing is asked of the clients.                                        *)
(***************************************************************************)
FairServerSpec ==
  ServerSpec /\ WF_serverVars(LoopStep) /\ SF_serverVars(Elapse)

-----------------------------------------------------------------------------
(* The type invariant of the server. *)
ServerTypeOK ==
  /\ WorldTypeOK
  /\ conn \in [Players -> Open \cup {"absent", "gone"}]
  /\ queue \in [Players -> Seq(Verb)]
  /\ \A c \in Players : Len(queue[c]) <= MaxPending
  /\ begun \in [Players -> BOOLEAN]
  /\ wait \in [Players -> Nat]
  /\ owed \in [Players -> Nat]
  /\ lines \in [Players -> 0 .. MaxLines]
  /\ phase \in {"poll", "io", "exec", "tick", "lives", "deaths", "victory",
                "crashed", "stopped"}
  /\ todo \subseteq Players
  /\ reading \subseteq Players

(***************************************************************************)
(* The players on the map are exactly the living players of connected      *)
(* clients, at every point of the loop: no player is left behind by a      *)
(* client that has gone (it would count in rituals, block nothing and win  *)
(* games for ever), and no client commands a player that is not there.     *)
(***************************************************************************)
PlayersAreClients ==
  \A c \in Players : InPlay(c) <=> conn[c] = "AI" /\ life[c] > 0

(***************************************************************************)
(* Every command the server has accepted is answered once, when it leaves  *)
(* the queue, and a command executes only at the front of a queue: there   *)
(* are as many answers outstanding as commands queued.                     *)
(***************************************************************************)
AnswersMatchQueue ==
  \A c \in Players :
    /\ owed[c] = Len(queue[c])
    /\ begun[c] => queue[c] # <<>>

(***************************************************************************)
(* A command that has begun ends, by completing or with its client, as     *)
(* long as the server lives: also for a player that a ritual froze in the  *)
(* meantime.                                                               *)
(***************************************************************************)
BegunCommandEnds ==
  \A c \in Players : begun[c] ~> (~begun[c] \/ Halted)

(***************************************************************************)
(* A queued command is begun or answered, unless its player is frozen.     *)
(***************************************************************************)
QueuedCommandBegins ==
  \A c \in Players : queue[c] # <<>> ~> (begun[c] \/ queue[c] = <<>> \/ frozen[c] \/ Halted)

(***************************************************************************)
(* A slot that is offered can be taken: a client whose team has a free     *)
(* slot never brings the server down.  chooseEgg looks for a free slot and *)
(* then for an egg, and throws if there is none (World.cpp:100-116): the   *)
(* exception for a free slot without an egg should never be thrown.        *)
(***************************************************************************)
JoiningIsSafe == phase # "crashed"
=============================================================================
