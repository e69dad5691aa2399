-------------------------------- MODULE Link --------------------------------
(***************************************************************************)
(* How lines get from the server to its clients: the server's poll loop    *)
(* with its list of watched descriptors, the clients' write buffers, the   *)
(* sockets, and at the other end the graphical client's two threads        *)
(* (gui_client) and an AI client, of which it only matters that it reads.  *)
(*                                                                         *)
(* A line travels in two pieces, so that it may be cut anywhere; a socket  *)
(* holds Room pieces.  Accepted sockets are left blocking: send() returns  *)
(* when everything is in the socket, and the whole server waits for that.  *)
(* What lines say is in Gui.tla and Server.tla; here the k-th line pushed  *)
(* to a client is the number k.  The first is WELCOME, the second answers  *)
(* the line with which the client says who it is.                          *)
(***************************************************************************)
EXTENDS Integers, FiniteSets, SequencesExt

CONSTANTS
  gui, ai,          \* the two clients
  Room,             \* pieces a socket holds
  MaxPushed         \* a bound of the model: Serve pushes no line after this one

ASSUME LinkAssumption == gui # ai /\ Room \in Nat \ {0} /\ MaxPushed \in Nat

Client == {gui, ai}

VARIABLES
  stage,            \* where the loop is: "setup", "poll", "io", "deaths", "dying", or
                    \* "ended" with the process
  pollChanges,      \* _pollChanges
  polled,           \* the events _pollFds asks for, {} if the client is not in it
  events,           \* the revents still to be looked at
  sending,          \* the client whose send() the loop is in, if any
  conn,             \* "absent", "pending", "joined", or "dropped" by the server
  wbuf,             \* _writeBuffer
  pushed            \* lines pushed to each client

serverVars == <<stage, pollChanges, polled, events, sending, conn, wbuf, pushed>>

VARIABLES
  down,             \* pieces in the socket, towards the client
  up,               \* lines the client has sent and the server has not read
  peer              \* the client's end: "none", "open", "closed"

socketVars == <<down, up, peer>>

VARIABLES
  main,             \* where its main thread is
  running,          \* _running
  window,           \* whether its window is open
  thread,           \* where its protocol thread is
  rbuf,             \* _buffer
  lock,             \* who holds _stateMutex
  state,            \* the lines applied to _gameState, each by halves
  shown             \* the first half of the snapshot that is being made

guiVars  == <<main, running, window, thread, rbuf, lock, state, shown>>
linkVars == <<serverVars, socketVars, guiVars>>

Pieces(k) == <<<<k, "begin">>, <<k, "end">>>>
EndsLine(piece) == piece[2] = "end"

(* The server's process has ended, which closes every socket. *)
Ended == stage = "ended"

-----------------------------------------------------------------------------
LinkInit ==
  /\ stage = "setup" /\ pollChanges = TRUE /\ sending = {}
  /\ polled = [c \in Client |-> {}] /\ events = [c \in Client |-> {}]
  /\ conn = [c \in Client |-> IF c = ai THEN "joined" ELSE "absent"]
  /\ wbuf = [c \in Client |-> <<>>] /\ pushed = [c \in Client |-> IF c = ai THEN 2 ELSE 0]
  /\ down = [c \in Client |-> <<>>] /\ up = [c \in Client |-> 0]
  /\ peer = [c \in Client |-> IF c = ai THEN "open" ELSE "none"]
  /\ main = "start" /\ running = FALSE /\ window = "none"
  /\ thread = "none" /\ rbuf = <<>> /\ lock = "free"
  /\ state = << <<>>, <<>> >> /\ shown = <<>>

-----------------------------------------------------------------------------
(***************************************************************************)
(* The server.  pushResponse for the clients of S; its callers, or         *)
(* _broadcastGUI, set _pollChanges.                                        *)
(***************************************************************************)
Watched == {c \in Client : conn[c] \in {"pending", "joined"}}
Guis    == {gui} \cap {c \in Client : conn[c] = "joined"}

pushTo(S) ==
  /\ wbuf' = [c \in Client |-> IF c \in S THEN wbuf[c] \o Pieces(pushed[c] + 1) ELSE wbuf[c]]
  /\ pushed' = [c \in Client |-> IF c \in S THEN pushed[c] + 1 ELSE pushed[c]]

(* A caller of pushResponse that does not set _pollChanges. *)
pushQuietly(S) == pushTo(S) /\ UNCHANGED pollChanges

pushResponse(S) == pushTo(S) /\ pollChanges' = (pollChanges \/ S # {})

(* _disconnectClient, of a client whose last lines go with its buffer. *)
drop(c) ==
  /\ conn' = [conn EXCEPT ![c] = "dropped"]
  /\ wbuf' = [wbuf EXCEPT ![c] = <<>>]
  /\ pollChanges' = TRUE
  /\ UNCHANGED pushed

(* _setupPoll, when something has changed. *)
Interest(c) == IF c \notin Watched THEN {}
               ELSE {"IN"} \cup (IF wbuf[c] = <<>> THEN {} ELSE {"OUT"})

(* Writability is never asked for. *)
setupIn ==
  /\ stage = "setup"
  /\ stage' = "poll"
  /\ polled' = [c \in Client |-> Interest(c) \ {"OUT"}]
  /\ pollChanges' = FALSE
  /\ UNCHANGED <<events, sending, conn, wbuf, pushed, socketVars, guiVars>>

setupPoll ==
  /\ stage = "setup"
  /\ stage' = "poll"
  /\ polled' = IF pollChanges THEN [c \in Client |-> Interest(c)] ELSE polled
  /\ pollChanges' = FALSE
  /\ UNCHANGED <<events, sending, conn, wbuf, pushed, socketVars, guiVars>>

(***************************************************************************)
(* poll returns with everything that is ready, or for a timer with         *)
(* nothing; the listening socket is looked at first, and one connection    *)
(* accepted per pass.  A peer that has closed shows as input that ends, or *)
(* as POLLHUP once its system has refused something sent to it.            *)
(***************************************************************************)
Ready(c) ==
  (IF up[c] > 0 \/ peer[c] = "closed" THEN {"IN"} ELSE {})
    \cup (IF Len(down[c]) < Room THEN {"OUT"} ELSE {})

Waiting == {c \in Client : conn[c] = "absent" /\ peer[c] # "none"}

acceptNewClient ==
  \/ /\ Waiting = {}
     /\ UNCHANGED <<conn, wbuf, pushed, pollChanges>>
  \/ \E c \in Waiting : /\ conn' = [conn EXCEPT ![c] = "pending"]
                        /\ pushResponse({c})

poll ==
  /\ stage = "poll"
  /\ stage' = "io"
  /\ \E hup \in SUBSET {c \in Client : polled[c] # {} /\ peer[c] = "closed"} :
       events' = [c \in Client |-> (polled[c] \cap Ready(c))
                                     \cup (IF c \in hup THEN {"HUP"} ELSE {})]
  /\ acceptNewClient
  /\ UNCHANGED <<polled, sending, socketVars, guiVars>>

(* The next of the events is looked at. *)
Handling(c) == stage = "io" /\ sending = {} /\ events[c] # {}

HangUp(c) ==
  /\ Handling(c) /\ c \in Watched /\ "HUP" \in events[c]
  /\ drop(c)
  /\ events' = [events EXCEPT ![c] = {}]
  /\ UNCHANGED <<stage, polled, sending, socketVars, guiVars>>

(* _assignClientToTeamGUI, for the line in which the client says what it is. *)
assign(c) ==
  /\ conn' = [conn EXCEPT ![c] = "joined"]
  /\ pushResponse({c})

(* readSocket, and readLine until no line is left: all there is is taken in. *)
readSocket(c) == up' = [up EXCEPT ![c] = 0]

(* _readClient.  Nothing to read is the end of the connection. *)
ReadClient(c) ==
  /\ Handling(c) /\ c \in Watched /\ "IN" \in events[c] /\ "HUP" \notin events[c]
  /\ readSocket(c)
  /\ \/ up[c] = 0 /\ drop(c)
     \/ up[c] > 0 /\ assign(c)
  /\ events' = [events EXCEPT ![c] = IF conn'[c] = "dropped" THEN {} ELSE @ \ {"IN"}]
  /\ UNCHANGED <<stage, polled, sending, down, peer, guiVars>>

(* _writeToClient: the loop is in send() until the buffer is in the socket. *)
StartSend(c) ==
  /\ Handling(c) /\ c \in Watched /\ events[c] = {"OUT"}
  /\ events' = [events EXCEPT ![c] = {}]
  /\ sending' = {c}
  /\ UNCHANGED <<stage, pollChanges, polled, conn, wbuf, pushed, socketVars, guiVars>>

(* The next piece goes into the socket; into a closed one it goes nowhere. *)
SendSome(c) ==
  /\ c \in sending /\ wbuf[c] # <<>>
  /\ peer[c] = "closed" \/ Len(down[c]) < Room
  /\ wbuf' = [wbuf EXCEPT ![c] = Tail(@)]
  /\ down' = IF peer[c] = "closed" THEN down ELSE [down EXCEPT ![c] = Append(@, Head(wbuf[c]))]
  /\ UNCHANGED <<stage, pollChanges, polled, events, sending, conn, pushed, up, peer, guiVars>>

SendReturns(c) ==
  /\ stage = "io" /\ c \in sending
  /\ sending' = {}
  /\ \/ /\ wbuf[c] = <<>>
        /\ pollChanges' = TRUE
        /\ UNCHANGED <<conn, wbuf, pushed>>
     \/ peer[c] = "closed" /\ drop(c)
  /\ UNCHANGED <<stage, polled, events, socketVars, guiVars>>

(***************************************************************************)
(* When _processClients is through: _executeReadyCommands and _tickWorld,  *)
(* with answers, sounds and events to whom they concern.                   *)
(***************************************************************************)
Serve ==
  /\ stage = "io" /\ sending = {} /\ \A c \in Client : events[c] = {}
  /\ stage' = "deaths"
  /\ \E S \in SUBSET {c \in Client : conn[c] = "joined" /\ pushed[c] < MaxPushed} :
       pushResponse(S)
  /\ UNCHANGED <<polled, events, sending, conn, socketVars, guiVars>>

(***************************************************************************)
(* _handleDeaths: 'dead' and what is before it are sent at once, whatever  *)
(* poll said, and the client is dropped whether that fails or not.         *)
(***************************************************************************)
SendDead ==
  /\ stage = "deaths" /\ conn[ai] = "joined"
  /\ stage' = "dying"
  /\ sending' = {ai}
  /\ pushTo({ai})
  /\ UNCHANGED <<pollChanges, polled, events, conn, socketVars, guiVars>>

DropDead ==
  /\ stage = "dying" /\ (wbuf[ai] = <<>> \/ peer[ai] = "closed")
  /\ stage' = "deaths"
  /\ sending' = {}
  /\ conn' = [conn EXCEPT ![ai] = "dropped"]
  /\ wbuf' = [c \in Client |-> IF c = ai THEN <<>>
                               ELSE IF c \in Guis THEN wbuf[c] \o Pieces(pushed[c] + 1) ELSE wbuf[c]]
  /\ pushed' = [c \in Client |-> IF c \in Guis THEN pushed[c] + 1 ELSE pushed[c]]
  /\ pollChanges' = TRUE
  /\ UNCHANGED <<polled, events, socketVars, guiVars>>

(* _checkVictory: the event is pushed, and the loop ends with it unsent. *)
NobodyWins ==
  /\ stage = "deaths"
  /\ stage' = "setup"
  /\ UNCHANGED <<pollChanges, polled, events, sending, conn, wbuf, pushed, socketVars, guiVars>>

Victory ==
  /\ stage = "deaths"
  /\ stage' = "ended"
  /\ wbuf' = [c \in Client |-> <<>>]
  /\ pushed' = [c \in Client |-> IF c \in Guis THEN pushed[c] + 1 ELSE pushed[c]]
  /\ UNCHANGED <<pollChanges, polled, events, sending, conn, socketVars, guiVars>>

(* SIGINT: stop() clears running, which the loop sees when it comes round. *)
Stop ==
  /\ stage = "setup"
  /\ stage' = "ended"
  /\ wbuf' = [c \in Client |-> <<>>]
  /\ UNCHANGED <<pollChanges, polled, events, sending, conn, pushed, socketVars, guiVars>>

Handle(c) == HangUp(c) \/ ReadClient(c) \/ StartSend(c) \/ SendSome(c) \/ SendReturns(c)

(* What the loop does by itself. *)
Loop == \/ setupPoll \/ poll \/ (\E c \in Client : Handle(c)) \/ Serve
        \/ DropDead \/ NobodyWins

Fate == SendDead \/ Victory \/ Stop

-----------------------------------------------------------------------------
(***************************************************************************)
(* An AI client reads, and leaves when it likes.  Its commands are left    *)
(* out here: Serve answers them.                                           *)
(***************************************************************************)
aiOpen == peer[ai] = "open" /\ UNCHANGED <<serverVars, guiVars>>

AiReads ==
  /\ aiOpen /\ down[ai] # <<>>
  /\ down' = [down EXCEPT ![ai] = <<>>]
  /\ UNCHANGED <<up, peer>>

AiLeaves == aiOpen /\ peer' = [peer EXCEPT ![ai] = "closed"] /\ UNCHANGED <<down, up>>

-----------------------------------------------------------------------------
(***************************************************************************)
(* The graphical client's main thread: ClientRunner::run with the parts of *)
(* GUIClient it calls.  Its end, in error or not, closes the socket.       *)
(***************************************************************************)
Connect ==
  /\ main = "start" /\ ~Ended
  /\ main' = "welcome"
  /\ peer' = [peer EXCEPT ![gui] = "open"]
  /\ UNCHANGED <<down, up, running, window, thread, rbuf, lock, state, shown, serverVars>>

(* _connectToServer or _readLineBlocking throws. *)
Fails ==
  /\ main \in {"start", "welcome"} /\ Ended /\ down[gui] = <<>>
  /\ main' = "done"
  /\ peer' = [peer EXCEPT ![gui] = "closed"]
  /\ UNCHANGED <<down, up, running, window, thread, rbuf, lock, state, shown, serverVars>>

(* What was left of the last read is written over. *)
receiveOver(n) ==
  /\ rbuf' = SubSeq(down[gui], 1, n)
  /\ down' = [down EXCEPT ![gui] = SubSeq(@, n + 1, Len(@))]

(* _receiveData: as much as there is, or less; _extractLine: the oldest. *)
receive(n) ==
  /\ rbuf' = rbuf \o SubSeq(down[gui], 1, n)
  /\ down' = [down EXCEPT ![gui] = SubSeq(@, n + 1, Len(@))]

HasLine == \E i \in DOMAIN rbuf : EndsLine(rbuf[i])
LineEnd == SelectInSeq(rbuf, EndsLine)
extractLine == rbuf' = SubSeq(rbuf, LineEnd + 1, Len(rbuf))

(* The number of a line that arrived whole; the rest is nobody's line. *)
LineOf(pieces) == IF pieces = Pieces(pieces[1][1]) THEN pieces[1][1] ELSE 0

readLineBlocking ==
  /\ main = "welcome"
  /\ \/ /\ ~HasLine
        /\ \E n \in DOMAIN down[gui] : receive(n)
        /\ UNCHANGED main
     \/ /\ HasLine
        /\ extractLine
        /\ main' = "authenticate"
        /\ UNCHANGED down
  /\ UNCHANGED <<up, peer, running, window, thread, lock, state, shown, serverVars>>

(* _authenticate ends; the renderer opens its window; startProtocolThread. *)
Authenticate ==
  /\ main = "authenticate"
  /\ main' = "loop"
  /\ up' = [up EXCEPT ![gui] = 1]
  /\ window' = "open"
  /\ running' = TRUE
  /\ thread' = "loop"
  /\ UNCHANGED <<down, peer, rbuf, lock, state, shown, serverVars>>

CloseWindow ==
  /\ window = "open"
  /\ window' = "closed"
  /\ UNCHANGED <<main, running, thread, rbuf, lock, state, shown, socketVars, serverVars>>

(***************************************************************************)
(* The render loop.  getGameStateSnapshot copies the state, one half       *)
(* before the other; the copy is drawn and forgotten.                      *)
(***************************************************************************)
Rendering == main = "loop" /\ running /\ window = "open"

BeginSnapshot ==
  /\ Rendering /\ lock = "free"
  /\ main' = "copying"
  /\ lock' = "main"
  /\ shown' = state[1]
  /\ UNCHANGED <<running, window, thread, rbuf, state, socketVars, serverVars>>

EndSnapshot ==
  /\ main = "copying"
  /\ main' = "loop"
  /\ lock' = "free"
  /\ shown' = <<>>
  /\ UNCHANGED <<running, window, thread, rbuf, state, socketVars, serverVars>>

stop ==
  /\ main = "loop" /\ ~Rendering
  /\ main' = "join"
  /\ running' = FALSE
  /\ UNCHANGED <<window, thread, rbuf, lock, state, shown, socketVars, serverVars>>

Join ==
  /\ main = "join" /\ thread = "over"
  /\ main' = "done"
  /\ peer' = [peer EXCEPT ![gui] = "closed"]
  /\ UNCHANGED <<running, window, thread, rbuf, lock, state, shown, down, up, serverVars>>

Main == \/ Connect \/ Fails \/ readLineBlocking \/ Authenticate
        \/ BeginSnapshot \/ EndSnapshot \/ stop \/ Join

-----------------------------------------------------------------------------
(***************************************************************************)
(* Its protocol thread: _protocolLoop, with _handleServerData in it.       *)
(***************************************************************************)
(* The end of the connection is taken for a pass without data. *)
neverMindEnd ==
  /\ thread = "loop" /\ running /\ Ended /\ down[gui] = <<>>
  /\ UNCHANGED linkVars

ServerGone ==
  /\ thread = "loop" /\ running /\ Ended /\ down[gui] = <<>>
  /\ running' = FALSE
  /\ UNCHANGED <<main, window, thread, rbuf, lock, state, shown, socketVars, serverVars>>

LeaveLoop ==
  /\ thread = "loop" /\ ~running
  /\ thread' = "over"
  /\ UNCHANGED <<main, running, window, rbuf, lock, state, shown, socketVars, serverVars>>

receiveData ==
  /\ thread = "loop" /\ running
  /\ \E n \in DOMAIN down[gui] : receive(n)
  /\ thread' = "lines"
  /\ UNCHANGED <<up, peer, main, running, window, lock, state, shown, serverVars>>

(* _handleLine, one half of what it changes before the other. *)
beginLine ==
  /\ thread = "lines" /\ HasLine
  /\ thread' = "handling"
  /\ extractLine
  /\ state' = [state EXCEPT ![1] = Append(@, LineOf(SubSeq(rbuf, 1, LineEnd)))]
  /\ UNCHANGED <<main, running, window, shown, socketVars, serverVars>>

(* The line is handled without the mutex. *)
handleUnlocked == beginLine /\ UNCHANGED lock

handleLine == beginLine /\ lock = "free" /\ lock' = "thread"

LineHandled ==
  /\ thread = "handling"
  /\ thread' = "lines"
  /\ lock' = "free"
  /\ state' = [state EXCEPT ![2] = state[1]]
  /\ UNCHANGED <<main, running, window, rbuf, shown, socketVars, serverVars>>

(* After the last line poll's POLLHUP is looked at, where there was one. *)
LinesDone ==
  /\ thread = "lines" /\ ~HasLine
  /\ thread' = "loop"
  /\ running' \in {running} \cup (IF Ended THEN {FALSE} ELSE {})
  /\ UNCHANGED <<main, window, rbuf, lock, state, shown, socketVars, serverVars>>

Thread == \/ ServerGone \/ LeaveLoop \/ receiveData
          \/ handleLine \/ LineHandled \/ LinesDone

-----------------------------------------------------------------------------
LinkNext ==
  \/ Loop \/ Fate
  \/ AiReads \/ AiLeaves
  \/ Main \/ CloseWindow \/ Thread

LinkSpec == LinkInit /\ [][LinkNext]_linkVars

(***************************************************************************)
(* The loop and the threads run; a thread that waits for the mutex gets it *)
(* in the end although the other takes it again and again; an AI client    *)
(* reads what it is sent, as the bot's selector loop does.  Nobody has to  *)
(* die, to win, to connect or to leave.                                    *)
(***************************************************************************)
LinkFairness ==
  /\ WF_linkVars(Loop)
  /\ WF_linkVars(Main) /\ SF_linkVars(BeginSnapshot)
  /\ WF_linkVars(Thread) /\ SF_linkVars(handleLine)
  /\ WF_linkVars(AiReads)

FairLinkSpec == LinkSpec /\ LinkFairness

-----------------------------------------------------------------------------
(***************************************************************************)
(* When the loop goes into poll, what it waits for of each client is what  *)
(* it has for it: writability if and only if something is in its write     *)
(* buffer, however often the buffers were filled, emptied and dropped      *)
(* since _pollFds was last made.  Otherwise an answer stays in the buffer, *)
(* or the loop spins (Server::_setupPoll and every user of _pollChanges).  *)
(***************************************************************************)
WriteInterest == stage = "poll" => polled = [c \in Client |-> Interest(c)]

(***************************************************************************)
(* What is drawn is one state of the game: no line is half in the snapshot *)
(* (GUIClient::_stateMutex).                                               *)
(***************************************************************************)
SnapshotWhole == main = "copying" => shown = state[1] /\ shown = state[2]

(***************************************************************************)
(* Through write buffer, socket and read buffer, cut anywhere, the lines   *)
(* pushed to the graphical client reach its handler whole, in order and    *)
(* without a gap (Client::sendWriteBuffer, GUIClient::_extractLine).       *)
(***************************************************************************)
flow == rbuf \o down[gui] \o (IF peer[gui] = "closed" THEN <<>> ELSE wbuf[gui])

(* Where its lines end, and where the j-th does: the line after that begins there. *)
EndsIn == {i \in DOMAIN flow : EndsLine(flow[i])}

EndOf(j) == CHOOSE i \in EndsIn \cup {0} : Cardinality({k \in EndsIn : k <= i}) = j

LinesIn == [j \in 1 .. Cardinality(EndsIn) |->
              LineOf(SubSeq(flow, EndOf(j - 1) + 1, EndOf(j)))]

Welcomed == IF window = "none" /\ main # "authenticate" THEN <<>> ELSE <<1>>

C == INSTANCE Channel WITH Line <- 1 .. MaxPushed + 3, inside <- LinesIn,
                           arrived <- Welcomed \o state[1]

KeepsChannel == C!Spec

(***************************************************************************)
(* A line pushed to the graphical client gets to its state, unless the     *)
(* server ends or the window is closed first, although one thread serves   *)
(* everybody and may be kept in send() for another client.                 *)
(***************************************************************************)
EventReachesScreen ==
  \A k \in 1 .. MaxPushed :
    pushed[gui] >= k ~> (Ended \/ window = "closed" \/ k \in Range(Welcomed \o state[2]))

(***************************************************************************)
(* A graphical client whose window is closed, or whose server has ended,   *)
(* comes to its end: neither thread waits for the other for ever           *)
(* (GUIClient::stop and _protocolLoop).                                    *)
(***************************************************************************)
GuiEnds == Ended \/ window = "closed" ~> main = "done"
=============================================================================
