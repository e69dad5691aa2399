# Zappy in TLA+

Zappy is a networked game: a single-threaded C++ server holds a world on a torus, AI clients
(one player each) send commands to it over TCP, and GUI clients watch. This directory holds
TLA+ models of the program, the TLC configurations that check them, and proofs checked by
TLAPS. Every definition is translated from the code under `src/`; `PROJECT.json` maps each one
to the lines it stands for.

## Inventory

| Part | State | Operations | Talks to |
|---|---|---|---|
| Geometry (`libs/game`, `Trantorian`) | none | step, turns, `look`, direction of a sound | World |
| World (`libs/game`) | tiles (resources, players, eggs), slots per team, timers | hatch, move, eject, take, set, fork, the two halves of the ritual, respawn, lives, victory | called by Server and by the commands |
| Commands (`libs/protocol`) | table name -> time, handler | one handler per command | World |
| Server (`libs/network_server/Server`) | clients, poll set, configuration | one loop: poll, `_processClients`, `_executeReadyCommands`, `_tickWorld`, `_handleDeaths`, `_checkVictory` | all clients, World |
| Client (`libs/network_server/Client`) | state PENDING / AI / GUI, read and write buffer, command queue | read, send, queue, start, pop | Server |
| GUI events (`libs/protocol/Protocol`, `Server::_emit*`) | none | one message per kind of event | GUI clients |
| GUI mirror (`libs/gui_protocol`) | `GameState` | one handler per message | fed by the GUI client's network thread |
| GUI client (`libs/gui_client`) | socket, buffer, shared `GameState` under a mutex | network thread, render thread, rendering | server |
| Bot (`bonus/ai`, Python) | command queue, mental map, inventory, team knowledge, role | handshake, decision loop, reply handling | server |
| Command line, logger, training scripts | options; none; policies | parse; print; train | - |

Nothing is stored on disk and nothing restarts: there is no crash recovery. The server has one
thread, so there are no data races in it; what is hard is the *interleaving of the clients'
commands* in the loop. A command takes two steps, begin and complete, with the steps of all
other clients in between; a ritual freezes players whose own commands may be executing; players
are pushed about, die and hang up while rituals they belong to are under way; and positions, tile
lists, eggs and slots are each kept twice and updated separately. `PROJECT.json` lists
these hazards at the lines where they bite.

What makes each part correct:

- **Geometry.** Moves stay on the map; following a sound leads to its source; what is seen
  is where one would walk.
- **World.** Tiles and players agree on who is where; nobody dead stands on the map; eggs never
  exceed slots; players rise together, from the level the requirements were checked for, and
  the stones are paid once; resources are conserved; unsigned counts never wrap.
- **Server and Client.** The players on the map are the living players of connected clients; each
  accepted command is answered once; begun commands end; queued commands begin; the server
  survives what its clients may legally do; the world is driven only as its own rules allow.
- **GUI events and mirror.** Once a GUI has handled what is on its way, it shows the players, levels,
  tiles, eggs and rituals of the game, but for what the server never says; its handlers are
  never sent a line about something they have not heard of.
- **Connection and GUI threads.** Lines arrive whole, in order and in the end; what is drawn is one
  state of the game; the client ends when its window is closed or the server has ended.
- **Bot.** Its answers match its commands; it never has more than ten in flight; it knows its
  level; it never waits for what will not come; it knows where it is, and what it has seen;
  every turn sends a command; what it goes for it gets.

## Modules

| Module | Content |
|---|---|
| `Torus` | Pure operators: geometry, with C++'s signed remainder |
| `Walkers` | A listener and an emitter that walk over a map of `Torus`: the geometry against what walking shows |
| `World` | The world, one operator per operation, and `WorldSpec`: any player on the map does anything at any time. It is the abstract specification of the game |
| `WorldMC` | Small worlds for TLC, with bounds on eggs and respawns as guards (`BoundedNext`) |
| `Server` | The loop, clients, queues, command clocks; extends `World` and calls its operators from the command handlers |
| `ServerMC` | Small servers for TLC |
| `RitualMC` | The server with a history variable: the level each ritual was checked for |
| `GuiProtocol` | The lines of the GUI protocol, and what their handlers do to a `GameState` |
| `Gui` | The world with all the server says about it to a GUI client, and the client's mirror |
| `Replica` | Abstract specification: a copy kept up to date by a log of updates. `Gui` implements it |
| `Link` | The poll loop's descriptors and buffers, the sockets, the GUI client's two threads |
| `Channel` | Abstract specification: a connection that delivers lines in order until it is cut. `Link` implements it |
| `Bot` | One bot's main loop and command queue, the connection, and the server's side of it |
| `Mind` | What a bot believes and decides, against where its player really is; extends `Torus` |
| `GuiMC`, `LinkMC`, `BotMC`, `MindMC` | The same for TLC |
| `TorusProofs`, `WalkersProofs`, `WorldProofs`, `ServerProofs`, `GuiProofs`, `LinkProofs`, `BotProofs`, `MindProofs` | Theorems and proofs |

Three refinements tie them together. `Server` implements `World` (`WorldSpec`, checked and proved):
clients can do nothing to the world that the world's own rules do not allow. `Gui`, which is built on
the same `World`, implements `Replica` (`KeepsReplica`, checked and proved), whose convergence is proved
too and carries over. `Link` implements `Channel` (`KeepsChannel`, checked and proved), which is why the stream
of `Gui` and the wires of `Bot` may be sequences. `Mind` and `Bot` are the two halves of the same program: `Bot` has the queue and leaves open
which command a turn sends, `Mind` has the decision and always gets the right answer.

### World

`pos` and `on` are a player's own idea of where it stands (`_x`, `_y`) and the tiles' lists
(`Tile::trantorian`); `moveTrantorian` removes from the old list and adds to the new one, as the
code does. `eggs` and `slots` are the eggs on the tiles and `_teams`. A tile's players are a set:
the vector's order shows only in the order of messages. Random choices (egg, facing, tiles of new
resources) are nondeterministic. Lives and the respawn are timed by the wall clock in the
code; the model lets any set of players be due at any call. `WorldNext` names an action for each
operation, guarded by what its caller guarantees: the player stands on the map.

### Server

A step is one client's turn in one stage of the loop. `todo` holds the clients the
stage has still to visit; they come in any order, since they sit in an `unordered_map`.
In `io`, a client hangs up or is read, and *all* the lines that have arrived are
handled one after the other (`reading`); in `exec`, each AI client gets one step of the command at
the front of its queue, which is what `_executeReadyCommands` gives it: it begins, is
refused, completes, or nothing happens. `tick`, `lives`, `deaths` and `victory` follow.
Time passes only while the loop is in poll, because the loop reads the clock once per pass.

A client is named by the player it will own. Its state is `absent`, one of the code's three,
or `gone`. `owed` counts accepted commands that have not had their final answer: a ghost
variable that the code has no counterpart for, changed where the code pushes or answers.
A join that `chooseEgg` refuses with an exception ends in the phase `crashed`, since `main` is the
first to catch it; a victory ends in `stopped`. `Stay` is the stuttering of an ended process;
with it deadlock is checked in the runs of the server. `WorldMC` has `CHECK_DEADLOCK FALSE`: when
all players have left and the resources are complete, the world has nothing to do.

The bounds of the model: `World` has none; `WorldMC` stops forks at `MaxEggs` eggs and respawns
beyond `MaxStones` of a resource. In `Server` a client sends at most `MaxLines` lines
and all clients together `MaxAllLines`, `PushCommand` keeps a client from sending a fork that could take the eggs beyond `MaxEggs`, and
the respawn is skipped beyond `MaxStones`. Everything else stays enabled, and the theorems about
the server hold whatever the three bounds are.

### Gui

A step of `Gui` is one thing the server does to the world together with everything it says about it: a
command of a player with the lines of `_emitAfterCommand` or `_ejectFanout`, a ritual's start or end, a
broadcast (`Speaks`), a death, the respawn, a query and its answer, or the greeting. The lines go into `wire`, the client's
`handleLine` takes them off at the other end into `view`, a record with the fields of `GameState` that the
lines set. Sets that the code walks through in no fixed order are sent in every order (`Lines`).

Four variables of history are only for the properties. `said` counts the broadcasts of each player since the
client came. The others say what the server keeps to itself, so that the properties can be exact about the rest: `unseen` (the position of a player that was ejected, what players held when the client came,
a frequency set by another client), `quit` (who hung up: no `pdi` is sent) and `strays` (tiles of rituals
whose performer was elsewhere, or gone, at the end: no `pie` for them).

The map of a replica has an item for each tile, egg and level; `Meaning` says which of them a line updates.

### Link

`polled` is what `_pollFds` asks for and `pollChanges` the flag that makes `_setupPoll` build it anew. A pass
of the loop is `setupPoll`, `poll` (with the one connection it may accept), an event of a client at
a time (`HangUp`, `ReadClient`, `StartSend` ...), `Serve`, which stands for all commands and the
tick and may push a line to anybody, and the deaths. A line travels in two pieces and a socket holds
`Room` of them, so that reads cut lines anywhere. The sockets the server accepts are blocking: it
stays in `send` (`sending`) until the buffer has gone. The GUI client's `main`, its protocol `thread`, `lock` and the two
halves of `state` interleave freely, so that a snapshot without the mutex would show half a line.

Accepting, joining and the disconnection are also in `Server`, there with what they mean for the world
and without buffers.

### Bot

`Bot` follows one bot and its connection. `pending` is `CommandQueue._pending`, `passive` the flag
`frozen_by_incantation`; `queue`, `begun`, `lvl` and `frozen` are what the server keeps for this
client, a projection of `Server` in which other players' rituals start and end whenever they like.
A line on the wire carries the number of the command it answers, which only the
properties look at: the program has to guess. `TakeNews` and `feed_line` are the two ways main reads
a line, with the branches of main in its order; the second gives the bot its next turn (`_tick`). Which
command the decision trees choose is left to chance, except for the two polls; that each turn sends one
is what `EveryTurnSends` of `Mind` says. An answer that a parser cannot read ends the bot (`crashed`).

### Mind

`at`, `facing`, `ground` and `carried` are the player's, in the world; `bot` is the bot's `BotState` with its
mental map, its last view and the places it has in mind. The server never tells a client where it is: the
map starts at `<<0, 0>>`, facing 0. A node of a decision tree is an operator that gives the set of its
outcomes, a command with the bot as the node leaves it; `selector` and `sequence` put them together as
`behaviour_tree.py` does. What the trees ask of others (calls, head counts, patience, the learnt
policy's choice of a role) is left open, so that any role may take over at any turn from any other. A
view and the map share their lists in Python (`record_vision`), so that a take changes both. The bot asks for its
inventory every 5 turns and for the free slots every 11; the model has one period, at which either may be asked for, which
allows more than the code does.

## Runs

| Run | Shows | Bounds |
|---|---|---|
| `torus` | `SoundLeadsHome`, `SoundTurnsWithListener`, `LookSeesWhereOneWalks` | a 5x4 map, one odd side and one even; all positions, facings and emitters, all levels up to 5 |
| `world` | types, map consistency, eggs, rituals, conservation | 2 players, 2 teams, 2x1 map, 3 levels, 3 eggs |
| `server` | types, players = clients, answers = queue, refinement of `WorldSpec` | 2 clients, 1 slot and the eggs they fork, queues of 2, up to 3 lines each and 3 in all, one stone, rituals of 2 time units among commands of 1 and 0 |
| `server_eject` | players = clients and refinement when players push each other | 3 clients, 3 slots, one eject each |
| `server_live` | begun commands end, queued ones begin; refinement | 2 clients, one line each, ritual for two |
| `server_join` | **violated:** `JoiningIsSafe` | as `server_eject` |
| `ritual` | **violated:** `RitualVerifiedAtStart` | 2 clients, one line each, level 2 reachable alone |
| `gui` | players, rituals and tiles shown as they are, nobody else shown, no line ignored, refinement of `Replica` | 2 players, 2x1 map, 6 steps of the server, 3 eggs, 2 frequencies |
| `link` | poll's interest is right, snapshots are whole, refinement of `Channel`; events reach the screen, the client ends | 1 GUI and 1 AI client, sockets of one piece, 3 lines |
| `bot` | types, level, limit of requests, the bot goes on | 7 turns, 3 rituals of others, polls every 3 and 7 turns for a limit of 3 (5, 11 and 10 in the code), 2 levels |
| `mind` | every turn sends, the map is true, food that was seen is taken | 4x3 map, level 1, one kind of stone, up to 2 pieces of food; a poll every 3 turns; alone for ever, or 8 turns in company with one thing done by others |
| `bot_answers` | **violated:** `AnswersTheCommand` | 3 turns, one ritual |

Why they are enough: the world's laws relate two players (who share a tile, a level, a ritual or a
stone), two teams, and two tiles (one to leave and one to reach); the elevation table keeps its
shape, one player for the first ritual and two for the next. Three lines of one client let one command
be queued behind another and the third be dropped by the full queue (`server`). The crash needs a third
client, because the egg must be destroyed by two others.

In `gui`, six steps let two players join, perform a ritual, and be pushed, die or hang up in it, the
client having come before, in between or after. `MaxWire = 1` has the client handle the lines of one step
before the server takes the next. Nothing is lost by that: what the server sends does not depend on how far the
client has come, lines keep their order, and each handler sees only what the lines before it left, so that a client
that lags goes through the same mirrors (the run also passes, for 5 steps, with `MaxWire = 2` and 3). In `link`
the smallest socket cuts every line, and three lines are the welcome, the answer to the client's name, and an
event. In `mind`, the map has an even and an odd side (where the way round is a tie, and where it is not), is
just larger than the view, and two pieces of food can lie in any two places.

For the bot, what matters is how polls and the limit relate: a line mistaken for an answer is caught when a
poll cannot read the answer it is given, so that no more requests than turns between two polls pile up.
The run has the limit equal to that number, where the code has twice as much, and more rituals than it takes
to pass it; `LimitAlwaysKept` proves that whatever the numbers, an interval no longer than the limit is enough. Players and teams are interchangeable, so the safety runs use symmetry; the liveness runs do not.

Deadlock is checked except where the system may really stop or a bound stops it: `WorldMC` (all players have
left and the resources are complete), `GuiMC` (the game is cut after `MaxSteps`), `LinkMC`
(server and client have ended) and `MindMC` (the bot in company is cut after `MaxTurns`).

**Fairness.** In `Server` (`FairServerSpec`), `WF(LoopStep)`: the process keeps running its loop. `poll` never
blocks for ever, since `run` bounds its timeout by the next respawn. That is all the model has of the timeouts: whether
`_computePollTimeout` brings the loop back on time, and not at the next respawn, is left out, and the two liveness
properties would hold either way. `SF(Elapse)`: time passes
whenever the loop comes back to poll, also if clients keep waking it. Nothing is asked of the
clients, and nothing of hunger: in the code every player dies a fixed time after it hatched, and a
liveness property that holds because everybody dies would say nothing, so no life has to be lost.

In `Link` (`LinkFairness`) the loop and both threads run; a thread that waits for the mutex gets it in
the end (`SF` of `BeginSnapshot` and `handleLine`: each thread does work outside of the mutex between two
locks, and the operating system lets the other in); and an AI client reads what it is sent, which the bot's
selector loop does. The last is needed: a client that stops reading blocks the server in `send`, and then nobody is
served (`EventReachesScreen` fails without it). No one has to win, die, connect or close the window.

In `Bot`, `FairSpec` lets the two programs run (`BotReads`, `ServerReads`, `ServerBegins`,
`ServerCompletes`); the other players owe nothing, so `NeverStuck` makes an exception for a frozen player.
In `MindMC` fairness lets a bot that is alone read and be served, which `SeenFoodIsTaken` is about.

### What the violations show

- `server_join`: `eject` destroys eggs and keeps their slots; the next client of that team makes
  `chooseEgg` throw, and nobody catches it before `main`.
- `ritual`: two overlapping rituals on a tile; the end of the first raises the player of the
  second, which then ends as a ritual of a level it was not checked for.
- `bot_answers`: a participant of a ritual that fails is sent a "ko" it did not ask for, and takes it for
  the answer to its own command.

Further behaviours of the code are in the models and have no run of their own, because no text of the
repository clearly says otherwise, or the model only repeats a missing call:

- A player that a ritual froze stays frozen if the ritual's initiator hangs up, dies or is pushed
  off the tile. `QueuedCommandBegins` leaves frozen players out.
- Nothing calls `eatFood`, so food does not keep anyone alive.
- On a map smaller than the view, `look()` indexes the tiles with a negative number.
  `LookStaysOnLargeMap` proves that this is the only case.
- The event that announces the winner is pushed when the loop ends, and lost with the buffer (`Victory`).
- `dead` is sent at once on a blocking socket (`SendDead`): a client that dies without reading keeps the
  server in `send`.
- A GUI never hears of a client that hung up, of where an ejected player landed, of the end of a ritual whose
  performer is gone, nor of a frequency another GUI has set: `quit`, `unseen` and `strays`.
- `README.md:53` of the repository speaks of "delta updates"; `Regrows` sends all tiles, as the code does.

### What the passing runs do not cover

Some hazards of the code lie outside of what the properties say. `PROJECT.json` lists them with the reason; in short:

- Frozen players that nobody frees, descriptors that are never closed, and clients that never read are in no property:
  the first is exempted, the second is not modelled, the third is assumed away by `LinkFairness`.
- `LookSeesWhereOneWalks` is about maps no smaller than the view.
- The four properties of the mirror exempt what the server keeps to itself. The exemptions are history variables
  that record the very steps in which a line is missing (`quit` for the `pdi` of a hang-up, `unseen` for the `ppo` of a
  pushed player and for another client's `sst`, `strays` for a `pie`), and no guard of the model reads them. So these properties
  find a change that is no longer announced, and not the lines that are missing today.
- `EggsWithinSlots` bounds eggs by slots. That slots may outnumber the eggs is what `JoiningIsSafe` finds.

## Proofs

`WorldProofs` proves for every map size, every finite set of teams, every set of players and every
elevation table, from `SizeAssumption` and `WorldAssumption` alone (conservation also needs that the players
are finitely many, `PlayersAssumption`: they are numbered with machine integers):

- `WorldTypeCorrect`, `MapAlwaysConsistent`, `EggsNeverExceedSlots` : the three invariants of the
  run `world`;
- `PlayersRiseTogether`, `ResourcesAlwaysConserved` : its action properties `RiseTogether` and
  `ResourcesConserved`.

The inductive invariant `WorldInv` is `WorldTypeOK /\ MapConsistent /\ UnhatchedAlive /\
EggsWithinSlots`. Types are not inductive alone: a player that loses a life must have one, and one
that lays an egg must have a team, and both hold because a tile lists it (`MapConsistent`). Nor is
`MapConsistent`: a player enters a tile's list when it hatches, and is alive then because nothing
takes lives from players that have not hatched (`UnhatchedAlive`). The counts of stones need no
help, since `take`, `set` and `finishElevation` check before they subtract. `EggsStep` counts:
`hatchEgg` removes one egg and one slot of the same team, `fork` adds one of each, `eject` only
removes eggs. One lemma per operation preserves each part (`HatchType`, `MoveConsistent`, ...), and
one step per action puts them together.

Conservation is about sums over all tiles and all players, folds that take the members of a set in the order
`CHOOSE` gives them. `OrderedSums` and `OrderFree` show, each by a least counterexample, that such a fold exists
and is the sum in whatever order one adds; `TotalAdds` and `TotalChanges` are what the rest uses. A take or a set
moves one piece between two sums (`StonePasses`), a ritual's cost leaves one tile (`RitualPays`), and a respawn adds
what is missing on the map, wherever the pieces land (`RespawnFills`).

`ServerProofs` proves, from `ServerAssumption` in addition, for every number of clients, every
command table with its times and every queue length:

- `ServerImplementsWorld` : `ServerSpec => WorldSpec`. Each step of the server is one operation of the
  world, performed by a player that stands on the map, or leaves the world alone;
- `ServerTypeCorrect`, `PlayersAreAlwaysClients`, `AnswersAlwaysMatch` : the invariants of the run
  `server`;
- `ServerKeepsWorldLaws` : the world's own theorems, conservation among them, which the server inherits.

Its invariant `ServerInv` adds four facts to these invariants and to `WorldInv`. `NoneDead`: outside
the stage `deaths`, an AI client's player has a life left; `TickLives` is the only step that
breaks it and `HandleDeaths` the next one, which restores it. `OnlyAIQueue`: only an AI client has
queued commands. Together with `PlayersAreClients` they say that whoever's command begins or
completes stands on the map, alive (`ActorInPlay`), which is what the world asks of every operation,
and what puts the client among the peers its ritual's answer goes to. `JoinedOnce`: a client that has not joined has no player yet. `ReadingInIO`: lines are
read, and clients disconnected by what they sent, in the stage `io` only. `ClientMoves` and
`OwnerStep` then sort the steps by what they do to the queues and to who is on the map.

`BotProofs` proves `LevelAlwaysKnown`, `LimitAlwaysKept` and `BotTypeCorrect` for every queue length and
set of commands, from `BotAssumption` and, for the limit, `PollAssumption`: the inventory is asked for at
least once every `MaxInFlight` turns (every 5 of 10 in the code), and no tree asks for what the polls ask for.
`LevelKnown` relates the bot's level to the last line on the wire that shows one. It is inductive once every
such line shows a real level (`RaisesShown`): a line at the head is either the last, and then `ReadLevel` says
that the bot takes its level over whichever way it reads the line, or it is not, and then nothing else changes.
`WithinLimit` counts what the server still has to answer, which the bot does not know: each line taken for an
answer that it is not makes the bot send one command more. `PollInv` names each command by the turn it was sent
in and says that all that is unanswered, and all answers to polls on the wire, are of turns later than the last poll
the bot has passed: it cannot pass a poll but with the answer to a poll (`Readable`), the earlier ones have had theirs,
so that it is its own, and then everything sent before it has been answered. Commands of different turns later
than the last poll are at most as many as the turns between two polls.

`GuiProofs` proves the four invariants of the run `gui` and its refinement, from the world's assumptions and
`GuiAssumption`, for every map, game and client: `PlayersAlwaysShown`, `NobodyElseEverShown`,
`RitualsAlwaysShown`, `NothingEverIgnored`, `GameReplica`.

- The first three are about `Final`, the mirror once all lines on their way have been handled, a recursion over
  the wire. The proofs go around it: `Works(m, s, w)` says that handling the lines `s` takes a mirror `m` to `w`
  and that none of them is ignored. Lines can be handled in one way only (`RunsAgree`), so a `w` that works is
  `Final`; works of two batches compose, and handling a line shortens the work by one (`WorksTail`). So it is
  enough to know, of each batch the server pushes, where it takes the mirror at the end of the stream.
- `Mirrors` says what that mirror is: the game, but for `unseen`, `quit` and `strays`. One lemma per action
  (`JoinsAnnounced`, `MovesAnnounced`, `PushesAnnounced`, ...) shows that its lines take a mirror of the game before to one of the game after.
  Lines that are sent in any order (levels, deaths, pushed players, the greeting's teams and players) are handled
  in a lemma each by a least counterexample.
- The inductive invariant `GuiInv` is `WorldInv`, the types, `EggsApart` (no two eggs have one number, and none one
  that is yet to be given: without it `ebo` could take away two), `NewbornsAlike` (a player that has
  not hatched holds nothing and has said nothing, which is what the client takes for granted at `pnw`),
  and `StreamInv`: some `w` that `Mirrors` the game works for the wire.
- `NothingIgnored` is then what `Works` says of the head of the wire.
- For `GameReplica`, `meanings` of the wire is a log of updates. `TakenIn`: a handler that does not
  ignore its line changes the items the line means, to what it means, and no other. `IsTrue`: what the
  server says is what is so after the step. `Reports`: what a step changes is said in it. Of a step that reports and whose lines
  are true, the batch is one that `Replica` allows (`ReportedStep`); the greeting says all there is
  (`GreetingLeads`); and a player that hung up never plays again, so that its level, which the client keeps,
  stays true (`ReplicaInv`).
- `ReplicaTypes`, `ReplicaConverges` and `ReplicaCatchesUp` are about `Replica` itself: what the copy holds
  and what is on its way amount to the truth. One update delivered from the front does not change
  where the log leads, and a batch published at the end leads on from there. Both go through `Says`, the last
  word about an item. `MirrorCatchesUp` carries the last one over: with nothing on its way, the mirror has the
  tiles, eggs and levels of the game.
- `GuiPlaysWorld` says that the game under the client's eyes is one `World` allows, which brings in `WorldInv`.

`LinkProofs` proves two invariants of `link`, and that it implements `Channel`, for sockets of any size and any
number of lines.
`PollWaitsForWriters` : the list of watched descriptors goes stale between two calls of poll, and `PollInv`
says when it may be: only while `pollChanges` is set, or for the one client the loop is sending
to. `DrawnStateIsWhole` : who holds the mutex is where it says it is (`LockOK`), and the two halves
of the state differ only while the protocol thread holds it (`StateOK`).

`LinkIsChannel` : read buffer, socket and write buffer together are one stream of pieces. `StreamOK` says that it
carries the lines after those that have arrived, in order and without a gap, perhaps with half a line at its end
once something has cut it, and all that has been pushed as long as nothing has. What cannot be read off a step is why
a line that starts the stream ends within it, and why nothing is pushed to a connection in a state where its number
would be out of order; `OpeningOK` has what is needed of the opening, on both sides. `receive` and `SendSome` leave the stream as
it is (`FlowIsRead`, `FlowPassesOn`), the other steps lengthen it at its end, take its first line or cut it
(`StreamGrows`, `StreamArrives`, `StreamCut`), which are the steps of `Channel`.

`MindProofs` proves `TurnsAlwaysSend`, `MapStaysTrue` and `MindTypes` from `MindAssumption`, for every map wider
and higher than the view, every level, set of stones and polling interval. The only node that can fail without
sending is `step_towards` with nowhere to go. `HeadingZero` shows that only the bot's own place is straight ahead by nothing,
`NearestTileIsThere` that the nearest tile in view is one of those asked for; each tree comes to `seek_resource` only
when what it seeks does not lie under the bot, and `seek_resource` never goes for the bot's own place.
`TickDecides` puts this together over all roles, for every state of the bot that has the right types, and
`MindTypes` shows that no other is reached: this needs that answers fit their commands (`MayAnswer`).

`MapIsTrue` says where the bot is and what its map shows once it has read its answer; a command is done some
steps before that. `MindInv` therefore speaks of `Caught`, the bot as it is once it has read the answer on its way: it
is placed where its player is, its own axes turned by the direction it hatched in (`Placed`), and what a bot that is
alone has written down lies there (`Seen`). The last is kept because such a bot never acts on a view that is not
of its own place (`Steady`, `Composed`), also when it only walks on after a turn; and because on a map larger than
the view no tile is seen twice.

`TorusProofs` proves `MoveStaysOnMap`, on which the type invariants rest, `LookStaysOnLargeMap`, and the
arithmetic of the torus. `WalkersProofs` proves the three invariants of the run `torus` on maps of any size:
`SoundAlwaysLeadsHome`, `SoundAlwaysTurns`, `LookAlwaysSees`. The sound's two axes are independent, each a
difference wrapped to the shorter way round, with a case of its own in the middle of an even side. For the view, a
walk of n steps has a closed form; it holds because a shortest walk without it would have a shorter one
(`SmallestOf`), which is how a property of a particular recursive function is proved here without the
library's induction theorems.

Every invariant, action property and refinement of the passing runs is proved. Only model-checked is liveness under
fairness, which is out of this prover's reach: `BegunCommandEnds`, `QueuedCommandBegins`, `NeverStuck`,
`EventReachesScreen`, `GuiEnds`, `SeenFoodIsTaken`. The three properties the code breaks (`JoiningIsSafe`,
`RitualVerifiedAtStart`, `AnswersTheCommand`) are TLC's too.

## Not modelled

- Rendering (`WorldRenderer*`), logging, the wording of answers and events, and what broadcasts say; `smg`, which the
  server never sends.
- The command line and the server's start-up: sequential, before anything runs. The models assume what it does not
  check: distinct team names and a positive frequency.
- `msz` as a query: the handler clears the mirror's tiles, so that a client that asked would lose its picture until
  the next respawn; no client of the repository asks anything (`sendProtocolCommand` has no caller).
- The bot's handshake and buffers (`connection.py` cuts lines as `Link` does); `TeamKnowledge` and the choice of a role,
  which `Mind` leaves open; the rise to another level while the map is kept, which only changes the size of the view;
  ejections and non-square maps hatched on sideways, of which the bot's map knows nothing: dead reckoning is lost there.
- The training scripts, and the compiled reference bot in `ai/`.
- File descriptors are never closed by the server (`Client::~Client`): `Link` has sockets end with the process, and
  does not count them.
