-------------------------------- MODULE Bot --------------------------------
(***************************************************************************)
(* A bot (bonus/ai) and the server's side of its connection.  The bot      *)
(* sends one command, waits for the answer, and decides on the next one    *)
(* when it has it: only a completed answer makes it act.  The answers      *)
(* carry no name: a line belongs to the command at the head of the bot's   *)
(* queue, unless the bot takes it for news of a ritual that another        *)
(* player performs.  Those the server sends unasked, to everyone who takes *)
(* part in the end of a ritual, in the middle of the answers.              *)
(*                                                                         *)
(* The handshake is over when the model starts.  Of the server, only what  *)
(* this client sees is kept: its queue and clock, its player's level and   *)
(* whether it is frozen; the other players perform rituals whenever they   *)
(* like.  Server.tla has the whole of it.  What the bot decides is left to *)
(* chance; that it decides on exactly one command per turn is the code of  *)
(* every tree of decision/roles.                                           *)
(***************************************************************************)
EXTENDS Naturals, Sequences

CONSTANTS
  MaxPending,       \* Client::maxPendingCommands
  MaxInFlight,      \* MAX_IN_FLIGHT of the bot's queue
  InventoryPoll,    \* every so many turns the bot asks for its inventory
  ConnectPoll,      \* every so many turns, for its team's slots
  TreeVerb,         \* the commands the decision trees send
  MaxLevel,         \* the highest level
  MaxTicks,         \* a bound of the model: turns the bot takes
  MaxRituals        \* a bound of the model: rituals of others that end on it

ASSUME BotAssumption ==
  /\ MaxPending \in Nat \ {0} /\ MaxInFlight \in Nat \ {0}
  /\ InventoryPoll \in Nat \ {0} /\ ConnectPoll \in Nat \ {0}
  /\ MaxLevel \in Nat \ {0}
  /\ MaxTicks \in Nat \ {0} /\ MaxRituals \in Nat

(* __main__.py asks for the inventory every 5 turns, the queue takes 10 commands, *)
(* and check_inventory and check_connect_nbr have no caller but _tick.            *)
ASSUME PollAssumption ==
  /\ InventoryPoll <= MaxInFlight
  /\ TreeVerb \cap {"Inventory", "Connect_nbr"} = {}

VARIABLES
  state,            \* "running", "dead" (told so) or "crashed"
  pending,          \* CommandQueue._pending: commands with the lines they have got
  passive,          \* bot.frozen_by_incantation
  level,            \* bot.level
  tick_count,
  toServer, toBot,  \* the two directions of the connection
  queue,            \* the server's _commandQueue of this client
  begun,            \* whether its front is executing
  lvl, frozen,      \* the player's level, and whether a ritual froze it
  rituals           \* rituals of others that have ended on this player

botVars    == <<state, pending, passive, level, tick_count>>
serverVars == <<queue, begun, lvl, frozen, rituals>>
vars       == <<botVars, serverVars, toServer, toBot>>

Verb == TreeVerb \cup {"Inventory", "Connect_nbr"}

(***************************************************************************)
(* A line: its kind, the level it shows ("Current level: 2", or the size   *)
(* of a view), and the number of the command it answers, 0 if it answers   *)
(* none.  The number is not in the line: only properties look at it.       *)
(***************************************************************************)
Line(kind, n, id) == [kind |-> kind, lvl |-> n, answers |-> id]

Reply(v) ==
  CASE v = "Look"        -> {"look"}
    [] v = "Inventory"   -> {"inventory"}
    [] v = "Connect_nbr" -> {"number"}
    [] v \in {"Take", "Set", "Eject"} -> {"ok", "ko"}
    [] OTHER             -> {"ok"}

Notification == {"message", "eject", "dead"}

Kind == {"ok", "ko", "look", "inventory", "number", "underway", "level"} \cup Notification

-----------------------------------------------------------------------------
(***************************************************************************)
(* _tick: nothing while a command is in flight; else a poll that is due,   *)
(* or what the tree of the bot's role decides.  The command is sent if the *)
(* queue has room.                                                         *)
(***************************************************************************)
Due(n) ==
  IF n % InventoryPoll = 0 THEN {"Inventory"}
  ELSE IF n % ConnectPoll = 0 THEN {"Connect_nbr"} ELSE TreeVerb

send(inFlight, v, id) ==
  IF Len(inFlight) < MaxInFlight
    THEN /\ pending' = Append(inFlight, [verb |-> v, id |-> id, got |-> 0])
         /\ toServer' = Append(toServer, [verb |-> v, id |-> id])
    ELSE pending' = inFlight /\ UNCHANGED toServer

_tick(inFlight) ==
  IF inFlight # <<>>
    THEN pending' = inFlight /\ UNCHANGED <<tick_count, toServer>>
    ELSE /\ tick_count < MaxTicks
         /\ tick_count' = tick_count + 1
         /\ \E v \in Due(tick_count') : send(inFlight, v, tick_count')

(***************************************************************************)
(* The three lines the bot takes for news of somebody else's ritual, when  *)
(* the command it waits for is not its own Incantation.                    *)
(***************************************************************************)
Awaits(v) == pending # <<>> /\ Head(pending).verb = v

News(l) ==
  /\ ~Awaits("Incantation")
  /\ l.kind \in {"underway", "level"} \/ (l.kind = "ko" /\ passive)

(* TakeNews that forgets the level it is told. *)
TakeNewsOnly(l) ==
  /\ News(l)
  /\ passive' = (l.kind = "underway")
  /\ UNCHANGED <<state, pending, level, tick_count, toServer>>

TakeNews(l) ==
  /\ News(l)
  /\ passive' = (l.kind = "underway")
  /\ level' = IF l.kind = "level" THEN l.lvl ELSE level
  /\ UNCHANGED <<state, pending, tick_count, toServer>>

(***************************************************************************)
(* Whether the answer to a command can be read.  parse_look,               *)
(* parse_inventory and connect_nbr's int() raise an exception on a line of *)
(* another shape, which main does not catch; a view has a cell for each    *)
(* tile the level shows, and a lone number passes for an empty inventory.  *)
(* (readAnything: parsers that take any line.)                             *)
(***************************************************************************)
readAnything(v, l) == TRUE

Readable(v, l) ==
  CASE v = "Look"        -> l.kind = "look" /\ l.lvl = level
    [] v = "Inventory"   -> l.kind \in {"inventory", "number"}
    [] v = "Connect_nbr" -> l.kind = "number"
    [] OTHER             -> TRUE

(* is_response_terminal that always waits for a second line. *)
terminalOnSecond(c, l) == ~(c.verb = "Incantation" /\ c.got = 0)

is_response_terminal(c, l) ==
  ~(c.verb = "Incantation" /\ c.got = 0 /\ l.kind = "underway")

(* feed_line, and the turn that a completed answer gives the bot. *)
feed_line(l) ==
  /\ l.kind \notin Notification /\ ~News(l)
  /\ UNCHANGED passive
  /\ \/ /\ pending = <<>>
        /\ UNCHANGED <<state, pending, level, tick_count, toServer>>
     \/ LET head == Head(pending)
        IN  /\ pending # <<>>
            /\ \/ /\ ~is_response_terminal(head, l)
                  /\ pending' = <<[head EXCEPT !.got = @ + 1]>> \o Tail(pending)
                  /\ UNCHANGED <<state, level, tick_count, toServer>>
               \/ /\ is_response_terminal(head, l) /\ Readable(head.verb, l)
                  /\ level' = IF head.verb = "Incantation" /\ l.kind = "level"
                                THEN l.lvl ELSE level
                  /\ _tick(Tail(pending))
                  /\ UNCHANGED state
               \/ /\ is_response_terminal(head, l) /\ ~Readable(head.verb, l)
                  /\ state' = "crashed"
                  /\ UNCHANGED <<pending, level, tick_count, toServer>>

Notified(l) ==
  /\ l.kind \in Notification
  /\ state' = IF l.kind = "dead" THEN "dead" ELSE state
  /\ UNCHANGED <<pending, passive, level, tick_count, toServer>>

(* One turn of main's loop. *)
BotReads ==
  /\ state = "running" /\ toBot # <<>>
  /\ toBot' = Tail(toBot)
  /\ Notified(Head(toBot)) \/ TakeNews(Head(toBot)) \/ feed_line(Head(toBot))
  /\ UNCHANGED serverVars

-----------------------------------------------------------------------------
(***************************************************************************)
(* The server's side.  A line that finds the queue full is dropped.        *)
(***************************************************************************)
ServerReads ==
  /\ state = "running" /\ toServer # <<>>
  /\ toServer' = Tail(toServer)
  /\ queue' = IF Len(queue) < MaxPending THEN Append(queue, Head(toServer)) ELSE queue
  /\ UNCHANGED <<botVars, toBot, begun, lvl, frozen, rituals>>

Say(l) == toBot' = Append(toBot, l)

Front == Head(queue)

ServerBegins ==
  /\ state = "running"
  /\ queue # <<>> /\ ~begun /\ ~frozen
  /\ \/ /\ Front.verb # "Incantation"
        /\ begun' = TRUE
        /\ UNCHANGED <<queue, frozen, toBot>>
     \/ /\ Front.verb = "Incantation" /\ lvl < MaxLevel
        /\ begun' = TRUE /\ frozen' = TRUE
        /\ Say(Line("underway", 0, Front.id))
        /\ UNCHANGED queue
     \/ /\ Front.verb = "Incantation"
        /\ Say(Line("ko", 0, Front.id))
        /\ queue' = Tail(queue)
        /\ UNCHANGED <<begun, frozen>>
  /\ UNCHANGED <<botVars, toServer, lvl, rituals>>

(* RitualEnds that raises the player whatever its level. *)
RitualAlwaysRaises(id) ==
  /\ frozen' = FALSE
  /\ lvl' = lvl + 1 /\ Say(Line("level", lvl', id))

(* The end of a ritual on this player, with the line that tells its client. *)
RitualEnds(id) ==
  /\ frozen' = FALSE
  /\ \/ lvl < MaxLevel /\ lvl' = lvl + 1 /\ Say(Line("level", lvl', id))
     \/ UNCHANGED lvl /\ Say(Line("ko", 0, id))

ServerCompletes ==
  /\ state = "running"
  /\ queue # <<>> /\ begun
  /\ begun' = FALSE
  /\ queue' = Tail(queue)
  /\ \/ /\ Front.verb # "Incantation"
        /\ \E kind \in Reply(Front.verb) :
             Say(Line(kind, IF kind = "look" THEN lvl ELSE 0, Front.id))
        /\ UNCHANGED <<lvl, frozen>>
     \/ /\ Front.verb = "Incantation"
        /\ RitualEnds(Front.id)
  /\ UNCHANGED <<botVars, toServer, rituals>>

(***************************************************************************)
(* A ritual that another player of the level performs on the tile: at its  *)
(* start nothing is said to the participants, at its end they all are      *)
(* told.  Whoever stands there at the end takes part in it.                *)
(***************************************************************************)
OtherStarts ==
  /\ state = "running" /\ lvl < MaxLevel
  /\ rituals < MaxRituals
  /\ ~frozen /\ frozen' = TRUE
  /\ UNCHANGED <<botVars, toServer, toBot, queue, begun, lvl, rituals>>

OtherEnds ==
  /\ state = "running"
  /\ rituals < MaxRituals
  /\ rituals' = rituals + 1
  /\ RitualEnds(0)
  /\ UNCHANGED <<botVars, toServer, queue, begun>>

(* A broadcast, or a push; one on its way at a time. *)
Notify ==
  /\ state = "running"
  /\ \A i \in DOMAIN toBot : toBot[i].kind \notin Notification
  /\ \E kind \in Notification : Say(Line(kind, 0, 0))
  /\ UNCHANGED <<botVars, toServer, serverVars>>

-----------------------------------------------------------------------------
Init ==
  /\ state = "running"
  /\ passive = FALSE
  /\ level = 1
  /\ tick_count = 1
  /\ \E v \in Due(1) :
       /\ pending = <<[verb |-> v, id |-> 1, got |-> 0]>>
       /\ toServer = <<[verb |-> v, id |-> 1]>>
  /\ toBot = <<>>
  /\ queue = <<>>
  /\ begun = FALSE
  /\ lvl = 1
  /\ frozen = FALSE
  /\ rituals = 0

Stay == (state # "running" \/ tick_count = MaxTicks) /\ UNCHANGED vars

Next ==
  \/ BotReads \/ ServerReads \/ ServerBegins \/ ServerCompletes
  \/ OtherStarts \/ OtherEnds \/ Notify \/ Stay

Spec == Init /\ [][Next]_vars

(* The two programs run; the other players owe nothing. *)
FairSpec ==
  /\ Spec
  /\ WF_vars(BotReads)
  /\ WF_vars(ServerReads) /\ WF_vars(ServerBegins) /\ WF_vars(ServerCompletes)

-----------------------------------------------------------------------------
(* The type invariant. *)
Command == [verb : Verb, id : Nat]

TypeOK ==
  /\ state \in {"running", "dead", "crashed"}
  /\ pending \in Seq([verb : Verb, id : Nat, got : {0, 1}])
  /\ passive \in BOOLEAN
  /\ level \in 1 .. MaxLevel
  /\ tick_count \in 1 .. MaxTicks
  /\ toServer \in Seq(Command)
  /\ queue \in Seq(Command)
  /\ toBot \in Seq([kind : Kind, lvl : 0 .. MaxLevel, answers : Nat])
  /\ begun \in BOOLEAN
  /\ lvl \in 1 .. MaxLevel
  /\ frozen \in BOOLEAN
  /\ rituals \in 0 .. MaxRituals

(***************************************************************************)
(* The bot always knows its level: once it has read the lines that are on  *)
(* their way it has the level its player has, whoever performed the ritual *)
(* that raised it, and even if lines are taken for the wrong answers.  A   *)
(* view is read with that level (parse_look).                              *)
(***************************************************************************)
Raised == {i \in DOMAIN toBot : toBot[i].kind = "level"}

LevelKnown ==
  IF Raised = {} THEN level = lvl
  ELSE \E i \in Raised : toBot[i].lvl = lvl /\ \A j \in Raised : j <= i

(***************************************************************************)
(* README.md:65: the bot keeps to the limit of ten requests in flight.     *)
(* What counts is what the server has not answered yet: the bot sends a    *)
(* new command for each line it takes for an answer, so lines it mistakes  *)
(* for answers add up, until one of its polls cannot read one of them.     *)
(* (The runs scale the limit and the polls down together.)                 *)
(***************************************************************************)
WithinLimit == Len(toServer) + Len(queue) <= MaxInFlight

(***************************************************************************)
(* The bot never waits for an answer that will not come: it takes its next *)
(* turn, or has ended, or its player is frozen.                            *)
(***************************************************************************)
Working(n) == state = "running" /\ tick_count = n

NeverStuck ==
  \A n \in 1 .. MaxTicks - 1 : Working(n) ~> (~Working(n) \/ frozen)

(***************************************************************************)
(* A line the bot takes for the answer to a command answers that command.  *)
(* __main__.py:167 says of a "ko" that ends another player's ritual that   *)
(* it is "not ours", and so is not to be taken for an answer.              *)
(***************************************************************************)
AnswersTheCommand ==
  [][(pending' # pending \/ state' = "crashed") =>
       Head(toBot).answers = Head(pending).id]_vars
=============================================================================
