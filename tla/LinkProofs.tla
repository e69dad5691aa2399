----------------------------- MODULE LinkProofs -----------------------------
(***************************************************************************)
(* Three theorems about Link.tla, for sockets of any size and any number   *)
(* of lines: what the server's loop waits for, what is drawn, and that the *)
(* connection to the graphical client is the channel of Channel.tla.       *)
(***************************************************************************)
EXTENDS Link, FiniteSetTheorems, SequenceTheorems, TLAPS

-----------------------------------------------------------------------------
(***************************************************************************)
(* Between two calls of poll the list of descriptors goes stale.  It is    *)
(* right except where the loop is in send(), or _pollChanges says so.      *)
(***************************************************************************)
LoopOK ==
  /\ stage \in {"setup", "poll", "io", "deaths", "dying", "ended"}
  /\ stage = "poll" => ~pollChanges
  /\ sending # {} => stage \in {"io", "dying"}

ListOK ==
  /\ pollChanges \in BOOLEAN
  /\ polled = [c \in Client |-> polled[c]]
  /\ wbuf = [c \in Client |-> wbuf[c]]
  /\ conn = [c \in Client |-> conn[c]]

Fresh ==
  ~pollChanges /\ stage # "ended" => \A c \in Client \ sending : polled[c] = Interest(c)

PollInv == LoopOK /\ ListOK /\ Fresh

LEMMA InitPolls == LinkInit => PollInv
  BY DEF LinkInit, PollInv, LoopOK, ListOK, Fresh

LEMMA PushKeepsList ==
  ASSUME NEW S \in SUBSET Client, ListOK, Fresh, stage # "ended", stage' # "ended",
         pushResponse(S), UNCHANGED <<polled, sending>>,
         conn' = [c \in Client |-> conn'[c]], S = {} => conn' = conn
  PROVE  ListOK' /\ Fresh'
<1>1. CASE S = {}
  <2>1. UNCHANGED <<wbuf, pollChanges, conn>>
    BY <1>1 DEF pushResponse, pushTo, ListOK
  <2> QED  BY <2>1 DEF ListOK, Fresh, Interest, Watched
<1>2. CASE S # {}
  BY <1>2 DEF pushResponse, pushTo, ListOK, Fresh
<1> QED  BY <1>1, <1>2

LEMMA DropSetsChanges ==
  ASSUME NEW c \in Client, ListOK, drop(c), UNCHANGED polled
  PROVE  ListOK' /\ Fresh'
  BY DEF drop, ListOK, Fresh

LEMMA NextPolls == ASSUME PollInv, [LinkNext]_linkVars PROVE PollInv'
<1> USE DEF PollInv
<1>1. CASE setupPoll
  BY <1>1 DEF setupPoll, LoopOK, ListOK, Fresh, Interest, Watched
<1>2. CASE poll
  <2>1. LoopOK' /\ stage' # "ended" /\ stage # "ended" /\ UNCHANGED <<polled, sending>>
    BY <1>2 DEF poll, LoopOK
  <2>2. CASE Waiting = {} /\ UNCHANGED <<conn, wbuf, pushed, pollChanges>>
    BY <2>1, <2>2 DEF ListOK, Fresh, Interest, Watched
  <2>3. CASE \E c \in Waiting : conn' = [conn EXCEPT ![c] = "pending"] /\ pushResponse({c})
    <3>1. PICK c \in Waiting : conn' = [conn EXCEPT ![c] = "pending"] /\ pushResponse({c})
      BY <2>3
    <3>2. conn' = [d \in Client |-> conn'[d]]
      BY <3>1 DEF ListOK
    <3>3. c \in Client
      BY <3>1 DEF Waiting
    <3> QED  BY <2>1, <3>1, <3>2, <3>3, PushKeepsList
  <2> QED  BY <1>2, <2>2, <2>3 DEF poll, acceptNewClient
<1>3. ASSUME NEW c \in Client, HangUp(c) PROVE PollInv'
  <2>1. LoopOK' /\ drop(c) /\ UNCHANGED polled
    BY <1>3 DEF HangUp, Handling, LoopOK
  <2> QED  BY <2>1, DropSetsChanges
<1>4. ASSUME NEW c \in Client, ReadClient(c) PROVE PollInv'
  <2>1. LoopOK' /\ stage = "io" /\ stage' = "io" /\ UNCHANGED <<polled, sending>>
    BY <1>4 DEF ReadClient, readSocket, Handling, LoopOK
  <2>2. CASE drop(c)
    BY <2>1, <2>2, DropSetsChanges
  <2>3. CASE assign(c)
    <3>1. conn' = [d \in Client |-> conn'[d]] /\ pushResponse({c})
      BY <2>3 DEF assign, ListOK
    <3> QED  BY <2>1, <3>1, PushKeepsList
  <2> QED  BY <1>4, <2>2, <2>3 DEF ReadClient, readSocket
<1>5. ASSUME NEW c \in Client, StartSend(c) PROVE PollInv'
  BY <1>5 DEF StartSend, Handling, LoopOK, ListOK, Fresh, Interest, Watched
<1>6. ASSUME NEW c \in Client, SendSome(c) PROVE PollInv'
  BY <1>6 DEF SendSome, LoopOK, ListOK, Fresh, Interest, Watched
<1>7. ASSUME NEW c \in Client, SendReturns(c) PROVE PollInv'
  <2>1. LoopOK' /\ UNCHANGED polled
    BY <1>7 DEF SendReturns, LoopOK
  <2>2. CASE drop(c)
    BY <2>1, <2>2, DropSetsChanges
  <2>3. CASE pollChanges' = TRUE /\ UNCHANGED <<conn, wbuf, pushed>>
    BY <2>1, <2>3 DEF ListOK, Fresh
  <2> QED  BY <1>7, <2>2, <2>3 DEF SendReturns
<1>8. CASE Serve
  <2>1. PICK S \in SUBSET {c \in Client : conn[c] = "joined" /\ pushed[c] < MaxPushed} :
          pushResponse(S)
    BY <1>8 DEF Serve
  <2>2. /\ LoopOK' /\ stage # "ended" /\ stage' # "ended"
        /\ UNCHANGED <<polled, sending, conn>>
    BY <1>8 DEF Serve, LoopOK
  <2>3. conn' = [c \in Client |-> conn'[c]]
    BY <2>2 DEF ListOK
  <2> QED  BY <2>1, <2>2, <2>3, PushKeepsList
<1>9. CASE SendDead
  BY <1>9 DEF SendDead, pushTo, LoopOK, ListOK, Fresh, Interest, Watched
<1>10. CASE DropDead
  BY <1>10 DEF DropDead, LoopOK, ListOK, Fresh
<1>11. CASE NobodyWins
  BY <1>11 DEF NobodyWins, LoopOK, ListOK, Fresh, Interest, Watched
<1>12. CASE Victory \/ Stop
  BY <1>12 DEF Victory, Stop, LoopOK, ListOK, Fresh
<1>13. CASE UNCHANGED serverVars
  BY <1>13 DEF serverVars, LoopOK, ListOK, Fresh, Interest, Watched
<1>14. CASE AiReads \/ AiLeaves \/ Main \/ CloseWindow \/ Thread
  BY <1>13, <1>14
  DEF AiReads, AiLeaves, aiOpen, Main, Connect, Fails, readLineBlocking, Authenticate,
      BeginSnapshot, EndSnapshot, stop, Join, CloseWindow, Thread, ServerGone, LeaveLoop,
      receiveData, handleLine, beginLine, LineHandled, LinesDone
<1> QED
  BY <1>1, <1>2, <1>3, <1>4, <1>5, <1>6, <1>7, <1>8, <1>9, <1>10, <1>11, <1>12, <1>13, <1>14
  DEF LinkNext, Loop, Fate, Handle, linkVars

(***************************************************************************)
(* At every call of poll the server waits to write to exactly the clients  *)
(* for which it has something: no caller of pushResponse, and no way in    *)
(* which a client goes, forgets _pollChanges (Server::_setupPoll).         *)
(***************************************************************************)
THEOREM PollWaitsForWriters == LinkSpec => []WriteInterest
<1>1. PollInv => WriteInterest
  <2> SUFFICES ASSUME PollInv, stage = "poll"
               PROVE  polled = [c \in Client |-> Interest(c)]
    BY DEF WriteInterest
  <2>1. sending = {} /\ ~pollChanges
    BY DEF PollInv, LoopOK
  <2>2. \A c \in Client : polled[c] = Interest(c)
    BY <2>1 DEF PollInv, Fresh
  <2> QED  BY <2>2 DEF PollInv, ListOK
<1> QED  BY InitPolls, NextPolls, <1>1, PTL DEF LinkSpec

-----------------------------------------------------------------------------
(***************************************************************************)
(* The mutex is held by the thread that is at work on the state, and what  *)
(* one half of the state lacks is lacking only while a line is handled.    *)
(***************************************************************************)
LockOK ==
  /\ lock = "main" <=> main = "copying"
  /\ lock = "thread" <=> thread = "handling"
  /\ main \in {"start", "welcome", "authenticate"} => thread = "none"

StateOK ==
  /\ DOMAIN state = {1, 2}
  /\ thread # "handling" => state[1] = state[2]
  /\ main = "copying" => shown = state[1]

LEMMA InitLocks == LinkInit => LockOK /\ StateOK
  BY DEF LinkInit, LockOK, StateOK

LEMMA NextLocks ==
  ASSUME LockOK, StateOK, [LinkNext]_linkVars PROVE LockOK' /\ StateOK'
<1>1. CASE UNCHANGED guiVars
  BY <1>1 DEF guiVars, LockOK, StateOK
<1>2. CASE Loop \/ Fate \/ AiReads \/ AiLeaves
  BY <1>1, <1>2
  DEF Loop, Fate, AiReads, AiLeaves, aiOpen, setupPoll, poll, Handle, HangUp, ReadClient, readSocket,
      StartSend, SendSome, SendReturns, Serve, SendDead, DropDead, NobodyWins, Victory, Stop
<1>3. CASE Connect \/ Fails \/ readLineBlocking \/ Authenticate \/ CloseWindow \/ stop \/ Join
  BY <1>3
  DEF Connect, Fails, readLineBlocking, Authenticate, CloseWindow, stop, Join, LockOK, StateOK
<1>4. CASE BeginSnapshot
  BY <1>4 DEF BeginSnapshot, Rendering, LockOK, StateOK
<1>5. CASE EndSnapshot
  BY <1>5 DEF EndSnapshot, LockOK, StateOK
<1>6. CASE ServerGone \/ LeaveLoop \/ receiveData \/ LinesDone
  BY <1>6 DEF ServerGone, LeaveLoop, receiveData, LinesDone, LockOK, StateOK
<1>7. CASE handleLine
  BY <1>7 DEF handleLine, beginLine, LockOK, StateOK
<1>8. CASE LineHandled
  BY <1>8 DEF LineHandled, LockOK, StateOK
<1> QED
  BY <1>1, <1>2, <1>3, <1>4, <1>5, <1>6, <1>7, <1>8 DEF LinkNext, Main, Thread, linkVars

(***************************************************************************)
(* The main thread never draws a state in which a line has been applied by *)
(* half, whenever the protocol thread runs (GUIClient::_stateMutex).       *)
(***************************************************************************)
THEOREM DrawnStateIsWhole == LinkSpec => []SnapshotWhole
<1>1. LockOK /\ StateOK => SnapshotWhole
  BY DEF LockOK, StateOK, SnapshotWhole
<1> QED  BY InitLocks, NextLocks, <1>1, PTL DEF LinkSpec

-----------------------------------------------------------------------------
(***************************************************************************)
(* Link implements Channel.  On its way to the graphical client's handler  *)
(* a line is in the write buffer, in the socket or in the read buffer, or  *)
(* cut between two of them; all three together are one stream of pieces,   *)
(* `flow', and the argument is about the stream.  It carries the lines     *)
(* after those that have arrived, in order and without a gap; while        *)
(* nothing has cut it, they are all that have been pushed.  A push makes   *)
(* it longer at its end, extracting a line takes that line from its front, *)
(* send() and recv() move pieces along in it and change nothing, and a     *)
(* disconnection takes some of its end away.                               *)
(***************************************************************************)
Piece == Nat \X {"begin", "end"}

(***************************************************************************)
(* What a stream of pieces can be: n lines, of which the first is the one  *)
(* after line a, and of the next one nothing (h = 0) or the beginning.     *)
(***************************************************************************)
Carries(s, a, n, h) ==
  /\ Len(s) = 2 * n + h
  /\ \A j \in 1 .. n : s[2 * j - 1] = <<a + j, "begin">> /\ s[2 * j] = <<a + j, "end">>
  /\ h = 1 => s[2 * n + 1] = <<a + n + 1, "begin">>

(* The n lines after line a. *)
Lines(a, n) == [j \in 1 .. n |-> a + j]

LEMMA PlaceInStream ==
  ASSUME NEW n \in Nat, NEW h \in {0, 1}, NEW i \in 1 .. 2 * n + h
  PROVE  \/ \E j \in 1 .. n : i = 2 * j - 1 \/ i = 2 * j
         \/ h = 1 /\ i = 2 * n + 1
<1>1. PICK k \in Nat, r \in {0, 1} : i = 2 * k + r
  <2>1. i \in Int
    OBVIOUS
  <2>2. i \div 2 \in Int /\ i % 2 \in {0, 1} /\ i = 2 * (i \div 2) + (i % 2)
    BY <2>1
  <2>3. PICK k \in Int, r \in {0, 1} : i = 2 * k + r
    BY <2>2
  <2>4. k \in Nat
    BY <2>3
  <2> QED  BY <2>3, <2>4
<1>2. CASE r = 0
  <2>1. k \in 1 .. n /\ i = 2 * k
    BY <1>1, <1>2
  <2> QED  BY <2>1
<1>3. CASE r = 1 /\ k < n
  <2>1. k + 1 \in 1 .. n /\ i = 2 * (k + 1) - 1
    BY <1>1, <1>3
  <2> QED  BY <2>1
<1>4. CASE r = 1 /\ ~(k < n)
  BY <1>1, <1>4
<1> QED  BY <1>1, <1>2, <1>3, <1>4

LEMMA EvenNumbers ==
  ASSUME NEW n \in Nat, NEW E, E = {2 * j : j \in 1 .. n}
  PROVE  IsFiniteSet(E) /\ Cardinality(E) = n
<1> DEFINE f == [j \in 1 .. n |-> 2 * j]
<1>1. f \in Bijection(1 .. n, E)
  <2>1. f \in [1 .. n -> E] /\ \A j \in 1 .. n : f[j] = 2 * j
    OBVIOUS
  <2>2. \A i, j \in 1 .. n : 2 * i = 2 * j => i = j
    OBVIOUS
  <2>3. \A e \in E : \E j \in 1 .. n : f[j] = e
    BY <2>1
  <2> HIDE DEF f
  <2>4. f \in Injection(1 .. n, E)
    BY <2>1, <2>2 DEF Injection, IsInjective
  <2>5. f \in Surjection(1 .. n, E)
    BY <2>1, <2>3 DEF Surjection
  <2> QED  BY <2>4, <2>5 DEF Bijection
<1>2. IsFiniteSet(1 .. n) /\ Cardinality(1 .. n) = n
  BY FS_Interval
<1>3. ExistsBijection(1 .. n, E)
  BY <1>1 DEF ExistsBijection
<1> HIDE DEF f
<1> QED  BY <1>2, <1>3, FS_Bijection

LEMMA EndsAreEven ==
  ASSUME flow \in Seq(Piece), NEW a \in Nat, NEW n \in Nat, NEW h \in {0, 1},
         Carries(flow, a, n, h)
  PROVE  EndsIn = {2 * j : j \in 1 .. n}
<1>1. DOMAIN flow = 1 .. 2 * n + h
  BY LenProperties DEF Carries
<1>2. ASSUME NEW i \in DOMAIN flow, EndsLine(flow[i])
      PROVE  \E j \in 1 .. n : i = 2 * j
  <2>1. CASE \E j \in 1 .. n : i = 2 * j - 1
    BY <1>2, <2>1 DEF Carries, EndsLine
  <2>2. CASE h = 1 /\ i = 2 * n + 1
    BY <1>2, <2>2 DEF Carries, EndsLine
  <2> QED  BY <1>1, <2>1, <2>2, PlaceInStream
<1>3. ASSUME NEW j \in 1 .. n
      PROVE  2 * j \in DOMAIN flow /\ EndsLine(flow[2 * j])
  BY <1>1 DEF Carries, EndsLine
<1> QED  BY <1>2, <1>3 DEF EndsIn

LEMMA EndOfIs ==
  ASSUME NEW n \in Nat, EndsIn = {2 * j : j \in 1 .. n}, NEW j \in 0 .. n
  PROVE  EndOf(j) = 2 * j
<1>1. ASSUME NEW i \in EndsIn \cup {0}
      PROVE  Cardinality({k \in EndsIn : k <= i}) = j <=> i = 2 * j
  <2>1. PICK m \in 0 .. n : i = 2 * m
    OBVIOUS
  <2>2. {k \in EndsIn : k <= i} = {2 * x : x \in 1 .. m}
    BY <2>1
  <2>3. Cardinality({k \in EndsIn : k <= i}) = m
    BY <2>2, EvenNumbers
  <2> QED  BY <2>1, <2>3
<1>2. 2 * j \in EndsIn \cup {0}
  OBVIOUS
<1>3. \A i : i \in EndsIn \cup {0} /\ Cardinality({k \in EndsIn : k <= i}) = j <=> i = 2 * j
  BY <1>1, <1>2
<1>4. PICK w : w = 2 * j
  OBVIOUS
<1>5. w \in EndsIn \cup {0} /\ Cardinality({k \in EndsIn : k <= w}) = j
  BY <1>3, <1>4
<1>6. EndOf(j) \in EndsIn \cup {0} /\ Cardinality({k \in EndsIn : k <= EndOf(j)}) = j
  BY <1>5, Zenon DEF EndOf
<1> QED  BY <1>1, <1>6

LEMMA PiecesOf ==
  ASSUME NEW s \in Seq(Piece), NEW k \in Nat, NEW i \in Nat, i + 1 \in 1 .. Len(s), i + 2 \in 1 .. Len(s),
         s[i + 1] = <<k, "begin">>, s[i + 2] = <<k, "end">>
  PROVE  LineOf(SubSeq(s, i + 1, i + 2)) = k
<1>1. SubSeq(s, i + 1, i + 2) = Pieces(k)
  <2>1. \A x \in i + 1 .. i + 2 : s[x] \in Piece
    BY ElementOfSeq
  <2>2. /\ SubSeq(s, i + 1, i + 2) \in Seq(Piece)
        /\ Len(SubSeq(s, i + 1, i + 2)) = 2
        /\ SubSeq(s, i + 1, i + 2)[1] = s[i + 1]
        /\ SubSeq(s, i + 1, i + 2)[2] = s[i + 2]
    BY <2>1, SubSeqProperties
  <2>3. /\ Pieces(k) \in Seq(Piece) /\ Len(Pieces(k)) = 2
        /\ Pieces(k)[1] = s[i + 1] /\ Pieces(k)[2] = s[i + 2]
    <3>1. PICK p \in Piece, q \in Piece : p = s[i + 1] /\ q = s[i + 2]
      BY ElementOfSeq
    <3>2. Pieces(k) = <<p, q>>
      BY <3>1 DEF Pieces
    <3>3. <<p, q>> \in Seq(Piece) /\ Len(<<p, q>>) = 2 /\ <<p, q>>[1] = p /\ <<p, q>>[2] = q
      OBVIOUS
    <3> HIDE DEF Piece
    <3> QED  BY <3>1, <3>2, <3>3, Zenon
  <2>4. PICK t, u : t = SubSeq(s, i + 1, i + 2) /\ u = Pieces(k)
    OBVIOUS
  <2>5. /\ t \in Seq(Piece) /\ u \in Seq(Piece) /\ Len(t) = 2 /\ Len(u) = 2
        /\ t[1] = u[1] /\ t[2] = u[2]
    BY <2>2, <2>3, <2>4, Zenon
  <2>6. \A x \in 1 .. Len(t) : t[x] = u[x]
    BY <2>5
  <2> QED  BY <2>4, <2>5, <2>6, SeqEqual
<1>2. Pieces(k)[1][1] = k
  BY DEF Pieces
<1>3. LineOf(Pieces(k)) = k
  BY <1>2, Zenon DEF LineOf
<1> QED  BY <1>1, <1>3, Zenon

LEMMA LinesInAre ==
  ASSUME flow \in Seq(Piece), NEW a \in Nat, NEW n \in Nat, NEW h \in {0, 1},
         Carries(flow, a, n, h)
  PROVE  LinesIn = Lines(a, n)
<1>1. EndsIn = {2 * j : j \in 1 .. n}
  BY EndsAreEven
<1>2. Cardinality(EndsIn) = n
  BY <1>1, EvenNumbers
<1>3. ASSUME NEW j \in 1 .. n
      PROVE  LineOf(SubSeq(flow, EndOf(j - 1) + 1, EndOf(j))) = a + j
  <2>1. EndOf(j) = 2 * j
    BY <1>1, EndOfIs
  <2>2. PICK i \in Nat, k \in Nat, o \in 0 .. n : o = j - 1 /\ i = 2 * (j - 1) /\ k = a + j
    OBVIOUS
  <2>3. EndOf(j - 1) = i
    BY <1>1, <2>2, EndOfIs
  <2>4. /\ i + 1 = 2 * j - 1 /\ i + 2 = 2 * j
        /\ i + 1 \in 1 .. Len(flow) /\ i + 2 \in 1 .. Len(flow)
    BY <2>2 DEF Carries
  <2>5. flow[i + 1] = <<k, "begin">> /\ flow[i + 2] = <<k, "end">>
    BY <2>2, <2>4 DEF Carries
  <2>6. LineOf(SubSeq(flow, i + 1, i + 2)) = k
    BY <2>4, <2>5, PiecesOf
  <2> QED  BY <2>1, <2>2, <2>3, <2>4, <2>6
<1> QED  BY <1>2, <1>3 DEF LinesIn, Lines

LEMMA CarriesPrefix ==
  ASSUME NEW s \in Seq(Piece), NEW a \in Nat, NEW n \in Nat, NEW h \in {0, 1}, Carries(s, a, n, h),
         NEW t \in Seq(Piece), Len(t) <= Len(s), \A i \in 1 .. Len(t) : t[i] = s[i]
  PROVE  \E o \in 0 .. n, g \in {0, 1} : Carries(t, a, o, g)
<1>1. PICK o \in Nat, g \in {0, 1} : Len(t) = 2 * o + g
  <2>1. PICK m \in Nat : m = Len(t)
    BY LenProperties
  <2>2. m \div 2 \in Int /\ m % 2 \in {0, 1} /\ m = 2 * (m \div 2) + (m % 2)
    OBVIOUS
  <2>3. PICK k \in Int, r \in {0, 1} : m = 2 * k + r
    BY <2>2
  <2>4. k \in Nat
    BY <2>3
  <2> QED  BY <2>1, <2>3, <2>4
<1>2. o \in 0 .. n /\ (g = 1 /\ o = n => h = 1)
  BY <1>1 DEF Carries
<1>3. ASSUME NEW j \in 1 .. o PROVE t[2 * j - 1] = <<a + j, "begin">> /\ t[2 * j] = <<a + j, "end">>
  <2>1. j \in 1 .. n /\ 2 * j - 1 \in 1 .. Len(t) /\ 2 * j \in 1 .. Len(t)
    BY <1>1, <1>2
  <2> QED  BY <2>1 DEF Carries
<1>4. ASSUME g = 1 PROVE t[2 * o + 1] = <<a + o + 1, "begin">>
  <2>1. t[2 * o + 1] = s[2 * o + 1]
    BY <1>1, <1>4
  <2>2. CASE o = n
    BY <1>2, <1>4, <2>1, <2>2 DEF Carries
  <2>3. CASE o # n
    <3>1. PICK j \in 1 .. n : j = o + 1
      BY <1>2, <2>3
    <3>2. s[2 * j - 1] = <<a + j, "begin">>
      BY DEF Carries
    <3>3. 2 * j - 1 = 2 * o + 1 /\ a + j = a + o + 1
      BY <3>1
    <3> QED  BY <2>1, <3>2, <3>3
  <2> QED  BY <2>2, <2>3
<1> QED  BY <1>1, <1>2, <1>3, <1>4 DEF Carries

LEMMA CarriesMore ==
  ASSUME NEW s \in Seq(Piece), NEW a \in Nat, NEW n \in Nat, Carries(s, a, n, 0),
         NEW k \in Nat, k = a + n + 1
  PROVE  s \o Pieces(k) \in Seq(Piece) /\ Carries(s \o Pieces(k), a, n + 1, 0)
<1>1. /\ Pieces(k) \in Seq(Piece) /\ Len(Pieces(k)) = 2
      /\ Pieces(k)[1] = <<k, "begin">> /\ Pieces(k)[2] = <<k, "end">>
  BY DEF Pieces, Piece
<1>2. PICK t, u : t = Pieces(k) /\ u = s \o t
  OBVIOUS
<1>3. t \in Seq(Piece) /\ Len(t) = 2 /\ t[1] = <<k, "begin">> /\ t[2] = <<k, "end">>
  BY <1>1, <1>2, Zenon
<1>4. /\ u \in Seq(Piece) /\ Len(u) = Len(s) + Len(t)
      /\ \A i \in 1 .. Len(s) + Len(t) : u[i] = IF i <= Len(s) THEN s[i] ELSE t[i - Len(s)]
  BY <1>2, <1>3, ConcatProperties
<1>5. Len(s) = 2 * n /\ Len(u) = 2 * (n + 1) + 0
  BY <1>3, <1>4 DEF Carries
<1>6. ASSUME NEW j \in 1 .. n + 1
      PROVE  u[2 * j - 1] = <<a + j, "begin">> /\ u[2 * j] = <<a + j, "end">>
  <2>1. CASE j = n + 1
    <3>1. /\ 2 * j - 1 = 2 * n + 1 /\ 2 * j = 2 * n + 2 /\ a + j = k
          /\ 2 * j - 1 \in 1 .. Len(s) + Len(t) /\ 2 * j \in 1 .. Len(s) + Len(t)
      BY <1>3, <1>5, <2>1
    <3>2. u[2 * j - 1] = t[1] /\ u[2 * j] = t[2]
      BY <1>4, <1>5, <3>1
    <3> QED  BY <1>3, <3>1, <3>2
  <2>2. CASE j # n + 1
    <3>1. j \in 1 .. n /\ 2 * j - 1 \in 1 .. Len(s) /\ 2 * j \in 1 .. Len(s)
      BY <1>5, <2>2
    <3>2. u[2 * j - 1] = s[2 * j - 1] /\ u[2 * j] = s[2 * j]
      BY <1>3, <1>4, <1>5, <3>1
    <3> QED  BY <3>1, <3>2 DEF Carries
  <2> QED  BY <2>1, <2>2
<1>7. Carries(u, a, n + 1, 0)
  BY <1>5, <1>6 DEF Carries
<1> QED  BY <1>2, <1>4, <1>7

LEMMA CarriesLess ==
  ASSUME NEW s \in Seq(Piece), NEW a \in Nat, NEW n \in Nat, n > 0, NEW h \in {0, 1},
         Carries(s, a, n, h),
         NEW t \in Seq(Piece), Len(t) = Len(s) - 2, \A i \in 1 .. Len(t) : t[i] = s[i + 2]
  PROVE  Carries(t, a + 1, n - 1, h)
<1>1. Len(t) = 2 * (n - 1) + h
  BY DEF Carries
<1>2. ASSUME NEW j \in 1 .. n - 1
      PROVE  t[2 * j - 1] = <<a + 1 + j, "begin">> /\ t[2 * j] = <<a + 1 + j, "end">>
  <2>1. PICK k \in 1 .. n : k = j + 1
    OBVIOUS
  <2>2. /\ 2 * j - 1 \in 1 .. Len(t) /\ 2 * j \in 1 .. Len(t)
        /\ (2 * j - 1) + 2 = 2 * k - 1 /\ 2 * j + 2 = 2 * k /\ a + 1 + j = a + k
    BY <1>1, <2>1
  <2>3. t[2 * j - 1] = s[2 * k - 1] /\ t[2 * j] = s[2 * k]
    BY <2>2
  <2> QED  BY <2>2, <2>3 DEF Carries
<1>3. ASSUME h = 1 PROVE t[2 * (n - 1) + 1] = <<a + 1 + (n - 1) + 1, "begin">>
  <2>1. /\ 2 * (n - 1) + 1 \in 1 .. Len(t) /\ (2 * (n - 1) + 1) + 2 = 2 * n + 1
        /\ a + 1 + (n - 1) + 1 = a + n + 1
    BY <1>1, <1>3
  <2> QED  BY <1>3, <2>1 DEF Carries
<1> QED  BY <1>1, <1>2, <1>3 DEF Carries

-----------------------------------------------------------------------------
(* The part of the types that the argument needs. *)
LinkTypes ==
  /\ rbuf \in Seq(Piece)
  /\ down \in [Client -> Seq(Piece)] /\ wbuf \in [Client -> Seq(Piece)]
  /\ conn \in [Client -> {"absent", "pending", "joined", "dropped"}]
  /\ peer \in [Client -> {"none", "open", "closed"}]
  /\ pushed \in [Client -> Nat] /\ up \in [Client -> Nat]
  /\ DOMAIN state = {1, 2} /\ state[1] \in Seq(Nat)

(* How far the opening has come, on both sides, and how much may have been pushed. *)
OpeningOK ==
  /\ peer[gui] = "none" => conn[gui] = "absent"
  /\ main = "start" => peer[gui] = "none"
  /\ conn[gui] = "absent" => pushed[gui] = 0
  /\ conn[gui] = "pending" => pushed[gui] = 1
  /\ conn[gui] = "joined" => up[gui] = 0
  /\ main \in {"start", "welcome", "authenticate"} =>
       conn[gui] # "joined" /\ up[gui] = 0 /\ window = "none"
  /\ window = "none" => thread = "none" /\ state[1] = <<>>
  /\ stage = "dying" => conn[ai] = "joined"
  /\ ~Ended => pushed[gui] <= MaxPushed + 2 + (IF conn[ai] = "dropped" THEN 1 ELSE 0)

LEMMA InitOpens == LinkInit => LinkTypes /\ OpeningOK
  BY LinkAssumption DEF LinkInit, LinkTypes, OpeningOK, Client, Ended

LEMMA PiecesAdd ==
  ASSUME LinkTypes, NEW c \in Client
  PROVE  wbuf[c] \o Pieces(pushed[c] + 1) \in Seq(Piece)
<1>1. PICK k \in Nat : k = pushed[c] + 1
  BY DEF LinkTypes
<1>2. Pieces(k) \in Seq(Piece)
  BY DEF Pieces, Piece
<1>3. wbuf[c] \in Seq(Piece)
  BY DEF LinkTypes
<1> QED  BY <1>1, <1>2, <1>3, ConcatProperties

LEMMA PushTypes ==
  ASSUME LinkTypes, NEW S, pushTo(S)
  PROVE  wbuf' \in [Client -> Seq(Piece)] /\ pushed' \in [Client -> Nat]
<1>1. \A c \in Client : wbuf[c] \o Pieces(pushed[c] + 1) \in Seq(Piece)
  BY PiecesAdd
<1>2. \A c \in Client : wbuf[c] \in Seq(Piece) /\ pushed[c] \in Nat /\ pushed[c] + 1 \in Nat
  BY DEF LinkTypes
<1> QED  BY <1>1, <1>2 DEF pushTo

LEMMA DropTypes ==
  ASSUME LinkTypes, NEW c \in Client, drop(c)
  PROVE  /\ wbuf' \in [Client -> Seq(Piece)] /\ pushed' \in [Client -> Nat]
         /\ conn' \in [Client -> {"absent", "pending", "joined", "dropped"}]
<1>1. <<>> \in Seq(Piece)
  OBVIOUS
<1> QED  BY <1>1 DEF drop, LinkTypes

LEMMA ReceiveTypes ==
  ASSUME LinkTypes, NEW n \in DOMAIN down[gui], receive(n)
  PROVE  rbuf' \in Seq(Piece) /\ down' \in [Client -> Seq(Piece)]
<1>1. PICK d \in Seq(Piece) : d = down[gui]
  BY DEF LinkTypes, Client
<1>2. n \in 1 .. Len(d)
  BY <1>1, LenProperties
<1>3. SubSeq(d, 1, n) \in Seq(Piece) /\ SubSeq(d, n + 1, Len(d)) \in Seq(Piece)
  <2>1. /\ \A i \in 1 .. n : d[i] \in Piece
        /\ \A i \in n + 1 .. Len(d) : d[i] \in Piece
    BY <1>2, ElementOfSeq, LenProperties
  <2> QED  BY <1>2, <2>1, LenProperties, SubSeqProperties
<1>4. rbuf' \in Seq(Piece)
  BY <1>1, <1>3, ConcatProperties DEF receive, LinkTypes
<1>5. down' = [down EXCEPT ![gui] = SubSeq(d, n + 1, Len(d))]
  BY <1>1 DEF receive
<1> QED  BY <1>3, <1>4, <1>5 DEF LinkTypes

(* The stream is what has been read, followed by what is in the socket and behind it. *)
Behind == down[gui] \o (IF peer[gui] = "closed" THEN <<>> ELSE wbuf[gui])

PartsOK ==
  /\ Behind \in Seq(Piece) /\ flow \in Seq(Piece)
  /\ flow = rbuf \o Behind

LEMMA FlowParts == LinkTypes => PartsOK
<1> SUFFICES ASSUME LinkTypes PROVE PartsOK
  OBVIOUS
<1>1. PICK r \in Seq(Piece), d \in Seq(Piece), w \in Seq(Piece) :
        r = rbuf /\ d = down[gui] /\ w = IF peer[gui] = "closed" THEN <<>> ELSE wbuf[gui]
  <2>1. gui \in Client
    BY DEF Client
  <2>2. rbuf \in Seq(Piece) /\ down[gui] \in Seq(Piece) /\ wbuf[gui] \in Seq(Piece)
    BY <2>1 DEF LinkTypes
  <2>3. <<>> \in Seq(Piece)
    OBVIOUS
  <2> QED  BY <2>2, <2>3, Zenon
<1>2. Behind = d \o w /\ flow = (r \o d) \o w
  BY <1>1 DEF Behind, flow
<1>3. d \o w \in Seq(Piece) /\ (r \o d) \o w = r \o (d \o w)
  BY ConcatProperties, ConcatAssociative, SMTT(40)
<1>4. r \o (d \o w) \in Seq(Piece)
  BY <1>3, ConcatProperties
<1> QED  BY <1>1, <1>2, <1>3, <1>4 DEF PartsOK

LEMMA ExtractIs ==
  ASSUME LinkTypes, NEW a \in Nat, NEW n \in Nat, NEW h \in {0, 1}, Carries(flow, a, n, h), HasLine
  PROVE  /\ n > 0 /\ Len(rbuf) >= 2
         /\ LineEnd = 2 /\ LineOf(SubSeq(rbuf, 1, LineEnd)) = a + 1
<1>1. PICK r \in Seq(Piece), s \in Seq(Piece) : r = rbuf /\ s = Behind /\ flow = r \o s
  BY FlowParts DEF PartsOK, LinkTypes
<1>2. Len(r) \in Nat /\ Len(s) \in Nat /\ DOMAIN r = 1 .. Len(r)
  BY LenProperties
<1>3. /\ Len(flow) = Len(r) + Len(s)
      /\ \A i \in 1 .. Len(r) : flow[i] = r[i]
  BY <1>1, <1>2, ConcatProperties
<1>4. PICK i \in 1 .. Len(r) : EndsLine(r[i])
  BY <1>1, <1>2 DEF HasLine
<1>5. PICK j \in 1 .. n : i = 2 * j
  <2>1. i \in 1 .. 2 * n + h /\ flow[i] = r[i]
    BY <1>2, <1>3 DEF Carries
  <2>2. CASE \E j \in 1 .. n : i = 2 * j - 1
    BY <1>4, <2>1, <2>2 DEF Carries, EndsLine
  <2>3. CASE h = 1 /\ i = 2 * n + 1
    BY <1>4, <2>1, <2>3 DEF Carries, EndsLine
  <2> QED  BY <2>1, <2>2, <2>3, PlaceInStream
<1>6. n > 0 /\ Len(r) >= 2
  BY <1>2, <1>5
<1>7. PICK k \in Nat : k = a + 1
  OBVIOUS
<1>8. r[1] = <<k, "begin">> /\ r[2] = <<k, "end">>
  <2>1. /\ 1 \in 1 .. n /\ 2 * 1 - 1 = 1 /\ 2 * 1 = 2
        /\ 1 \in 1 .. Len(r) /\ 2 \in 1 .. Len(r)
    BY <1>2, <1>6
  <2>2. flow[2 * 1 - 1] = <<a + 1, "begin">> /\ flow[2 * 1] = <<a + 1, "end">>
    BY <2>1 DEF Carries
  <2> QED  BY <1>3, <1>7, <2>1, <2>2
<1>9. LineEnd = 2
  <2>1. PICK I : I = {x \in 1 .. Len(r) : EndsLine(r[x])}
    OBVIOUS
  <2>2. 2 \in I /\ \A x \in I : x \in Nat /\ 2 <= x
    BY <1>2, <1>6, <1>8, <2>1 DEF EndsLine
  <2>3. LineEnd = Min(I)
    BY <1>1, <2>1, <2>2, Zenon DEF LineEnd, SelectInSeq
  <2> QED  BY <2>2, <2>3 DEF Min
<1>10. LineOf(SubSeq(r, 1, 2)) = k
  <2>1. PICK o \in Nat : o = 0
    OBVIOUS
  <2>2. o + 1 = 1 /\ o + 2 = 2 /\ o + 1 \in 1 .. Len(r) /\ o + 2 \in 1 .. Len(r)
    BY <1>2, <1>6, <2>1
  <2>3. LineOf(SubSeq(r, o + 1, o + 2)) = k
    BY <1>8, <2>2, PiecesOf
  <2> QED  BY <2>2, <2>3
<1> QED  BY <1>1, <1>6, <1>7, <1>9, <1>10

LEMMA ExtractTakes ==
  ASSUME LinkTypes, NEW a \in Nat, NEW n \in Nat, NEW h \in {0, 1}, Carries(flow, a, n, h),
         HasLine, extractLine, UNCHANGED <<wbuf, down, peer>>
  PROVE  /\ rbuf' \in Seq(Piece)
         /\ LinkTypes' => Carries(flow', a + 1, n - 1, h)
<1>1. PICK r \in Seq(Piece), s \in Seq(Piece) : r = rbuf /\ s = Behind /\ flow = r \o s
  BY FlowParts DEF PartsOK, LinkTypes
<1>2. n > 0 /\ Len(r) >= 2 /\ LineEnd = 2 /\ Len(r) \in Nat /\ Len(s) \in Nat
  BY <1>1, ExtractIs, LenProperties
<1>3. PICK q : q = SubSeq(r, 3, Len(r)) /\ q = rbuf'
  <2>1. rbuf' = SubSeq(r, 2 + 1, Len(r))
    BY <1>1, <1>2, Zenon DEF extractLine
  <2> QED  BY <2>1
<1>4. PICK x \in Nat, y \in Nat : x = Len(r) /\ y = Len(s) /\ x >= 2
  BY <1>2
<1>5. q \in Seq(Piece) /\ Len(q) = x - 2 /\ \A i \in 1 .. x - 2 : q[i] = r[i + 2]
  <2>1. \A i \in 3 .. x : r[i] \in Piece
    BY <1>4, ElementOfSeq
  <2>2. /\ q \in Seq(Piece) /\ Len(q) = IF 3 <= x THEN x - 3 + 1 ELSE 0
        /\ \A i \in 1 .. x - 3 + 1 : q[i] = r[3 + i - 1]
    BY <1>3, <1>4, <2>1, SubSeqProperties
  <2>3. Len(q) = x - 2 /\ x - 3 + 1 = x - 2
    BY <1>4, <2>2
  <2>4. \A i \in 1 .. x - 2 : 3 + i - 1 = i + 2
    OBVIOUS
  <2> QED  BY <2>2, <2>3, <2>4
<1>6. PICK f, t : f = flow /\ t = q \o s
  OBVIOUS
<1>7. f = r \o s /\ f \in Seq(Piece) /\ t \in Seq(Piece)
  BY <1>1, <1>5, <1>6, ConcatProperties
<1>8. Len(f) = x + y /\ \A i \in 1 .. x + y : f[i] = IF i <= x THEN r[i] ELSE s[i - x]
  BY <1>4, <1>7, ConcatProperties
<1>9. PICK z \in Nat : z = x - 2 /\ Len(q) = z
  <2>1. PICK z \in Nat : z = x - 2
    BY <1>4
  <2> QED  BY <1>5, <2>1, Zenon
<1>10. Len(t) = z + y /\ \A i \in 1 .. z + y : t[i] = IF i <= z THEN q[i] ELSE s[i - z]
  <2>1. q \in Seq(Piece) /\ t = q \o s
    BY <1>5, <1>6
  <2>2. /\ Len(t) = Len(q) + Len(s)
        /\ \A i \in 1 .. Len(q) + Len(s) : t[i] = IF i <= Len(q) THEN q[i] ELSE s[i - Len(q)]
    BY <2>1, ConcatProperties
  <2>3. Len(q) = z /\ Len(s) = y
    BY <1>4, <1>9
  <2> QED  BY <2>2, <2>3, Zenon
<1>11. ASSUME NEW i \in 1 .. Len(t) PROVE t[i] = f[i + 2]
  <2>1. i \in 1 .. z + y /\ i + 2 \in 1 .. x + y
    BY <1>9, <1>10
  <2>2. CASE i <= z
    <3>1. t[i] = q[i] /\ q[i] = r[i + 2]
      <4>1. i \in 1 .. x - 2
        BY <1>9, <2>1, <2>2
      <4>2. q[i] = r[i + 2]
        BY <1>5, <4>1
      <4> QED  BY <1>10, <2>1, <2>2, <4>2
    <3>2. i + 2 <= x
      BY <1>9, <2>2
    <3> QED  BY <1>8, <2>1, <3>1, <3>2
  <2>3. CASE ~(i <= z)
    <3>1. t[i] = s[i - z] /\ ~(i + 2 <= x) /\ i - z = (i + 2) - x
      BY <1>9, <1>10, <2>1, <2>3
    <3> QED  BY <1>8, <2>1, <3>1
  <2> QED  BY <2>2, <2>3
<1>12. Len(t) = Len(f) - 2
  BY <1>8, <1>9, <1>10
<1>13. Carries(f, a, n, h) /\ n > 0
  BY <1>2, <1>6
<1>14. Carries(t, a + 1, n - 1, h)
  BY <1>7, <1>11, <1>12, <1>13, CarriesLess
<1>15. ASSUME LinkTypes' PROVE flow' = t
  <2>1. Behind' = s
    BY <1>1 DEF Behind
  <2>2. PartsOK'
    BY <1>15, FlowParts, PTL
  <2> QED  BY <1>3, <1>6, <2>1, <2>2, Zenon DEF PartsOK
<1> QED  BY <1>3, <1>5, <1>14, <1>15

-----------------------------------------------------------------------------
(* What the lines of a channel are, in numbers. *)
LEMMA LinesType ==
  ASSUME NEW a \in Nat, NEW n \in Nat
  PROVE  /\ Lines(a, n) \in Seq(Nat) /\ Len(Lines(a, n)) = n
         /\ \A i \in 1 .. n : Lines(a, n)[i] = a + i
  BY DEF Lines

LEMMA LinesPrefix ==
  ASSUME NEW a \in Nat, NEW n \in Nat, NEW m \in 0 .. n
  PROVE  SubSeq(Lines(a, n), 1, m) = Lines(a, m)
<1>1. PICK s, t : s = Lines(a, n) /\ t = Lines(a, m)
  OBVIOUS
<1>2. /\ s \in Seq(Nat) /\ Len(s) = n /\ \A i \in 1 .. n : s[i] = a + i
      /\ t \in Seq(Nat) /\ Len(t) = m /\ \A i \in 1 .. m : t[i] = a + i
  <2>1. m \in Nat
    OBVIOUS
  <2> QED  BY <1>1, <2>1, LinesType, Zenon
<1>3. PICK u : u = SubSeq(s, 1, m)
  OBVIOUS
<1>4. u \in Seq(Nat) /\ Len(u) = m /\ \A i \in 1 .. m : u[i] = s[i]
  <2>1. \A i \in 1 .. m : s[i] \in Nat
    BY <1>2
  <2>2. /\ u \in Seq(Nat) /\ Len(u) = IF 1 <= m THEN m - 1 + 1 ELSE 0
        /\ \A i \in 1 .. m - 1 + 1 : u[i] = s[1 + i - 1]
    BY <1>3, <2>1, SubSeqProperties
  <2>3. m - 1 + 1 = m /\ \A i \in 1 .. m : 1 + i - 1 = i
    OBVIOUS
  <2>4. Len(u) = m
    BY <2>2, <2>3
  <2> QED  BY <2>2, <2>3, <2>4
<1>5. Len(u) = Len(t) /\ \A i \in 1 .. Len(u) : u[i] = t[i]
  BY <1>2, <1>4
<1>6. u = t
  BY <1>2, <1>4, <1>5, SeqEqual
<1> QED  BY <1>1, <1>3, <1>6

LEMMA LinesShift ==
  ASSUME NEW a \in Nat, NEW n \in Nat, n > 0
  PROVE  /\ Lines(a, n) # <<>> /\ Head(Lines(a, n)) = a + 1
         /\ Tail(Lines(a, n)) = Lines(a + 1, n - 1)
<1>0. PICK b \in Nat, o \in Nat : b = a + 1 /\ o = n - 1
  OBVIOUS
<1>1. PICK s, t : s = Lines(a, n) /\ t = Lines(b, o)
  OBVIOUS
<1>2. /\ s \in Seq(Nat) /\ Len(s) = n /\ \A i \in 1 .. n : s[i] = a + i
  BY <1>1, LinesType
<1>3. t \in Seq(Nat) /\ Len(t) = o /\ \A i \in 1 .. o : t[i] = b + i
  BY <1>1, LinesType
<1>4. s # <<>>
  BY <1>2
<1>5. PICK u : u = Tail(s)
  OBVIOUS
<1>6. u \in Seq(Nat) /\ Len(u) = o /\ \A i \in 1 .. o : u[i] = s[i + 1]
  <2>1. u \in Seq(Nat) /\ Len(u) = n - 1 /\ \A i \in 1 .. Len(u) : u[i] = s[i + 1]
    BY <1>2, <1>4, <1>5, HeadTailProperties
  <2> QED  BY <1>0, <2>1
<1>7. Len(u) = Len(t) /\ \A i \in 1 .. Len(u) : u[i] = t[i]
  <2>1. ASSUME NEW i \in 1 .. o PROVE u[i] = t[i]
    <3>1. i + 1 \in 1 .. n /\ a + (i + 1) = b + i
      BY <1>0
    <3> QED  BY <1>2, <1>3, <1>6, <3>1
  <2> QED  BY <1>3, <1>6, <2>1
<1>8. u = t
  BY <1>3, <1>6, <1>7, SeqEqual
<1>9. Head(s) = a + 1
  BY <1>2, <1>4
<1> QED  BY <1>0, <1>1, <1>4, <1>5, <1>8, <1>9

LEMMA LinesOneMore ==
  ASSUME NEW a \in Nat
  PROVE  Append(Lines(0, a), a + 1) = Lines(0, a + 1)
<1>0. PICK z \in Nat, n \in Nat : z = 0 /\ n = a + 1
  OBVIOUS
<1>1. PICK s, t, u : s = Lines(z, a) /\ t = Lines(z, n) /\ u = Append(s, n)
  OBVIOUS
<1>2. s \in Seq(Nat) /\ Len(s) = a /\ \A i \in 1 .. a : s[i] = z + i
  BY <1>1, LinesType
<1>3. t \in Seq(Nat) /\ Len(t) = n /\ \A i \in 1 .. n : t[i] = z + i
  BY <1>1, LinesType
<1>4. /\ u \in Seq(Nat) /\ Len(u) = Len(s) + 1
      /\ \A i \in 1 .. Len(s) : u[i] = s[i]
      /\ u[Len(s) + 1] = n
  BY <1>1, <1>2, AppendProperties
<1>5. Len(u) = Len(t) /\ \A i \in 1 .. Len(u) : u[i] = t[i]
  BY <1>0, <1>2, <1>3, <1>4
<1>6. u = t
  BY <1>3, <1>4, <1>5, SeqEqual
<1> QED  BY <1>0, <1>1, <1>6

(* LinesInAre, as one formula, so that it can be used of the next state too. *)
StreamLines ==
  flow \in Seq(Piece) =>
    \A a, n \in Nat, h \in {0, 1} : Carries(flow, a, n, h) => LinesIn = Lines(a, n)

LEMMA StreamLinesAre == StreamLines
  BY LinesInAre DEF StreamLines

(* The line that greets the client, when it has been taken. *)
Greeting == <<1>>

(* The lines the client has taken: the one _authenticate reads, and those of its handler. *)
Delivered == Welcomed \o state[1]

(* A step of the channel, or one that leaves it alone. *)
ChannelStep == C!Next \/ UNCHANGED <<LinesIn, Delivered>>

LEMMA StreamMoves ==
  ASSUME LinkTypes, LinkTypes',
         NEW a \in Nat, NEW n \in Nat, NEW h \in {0, 1},
         Delivered = Lines(0, a), Carries(flow, a, n, h),
         NEW b \in Nat, NEW m \in Nat, NEW g \in {0, 1},
         Delivered' = Lines(0, b), Carries(flow', b, m, g), b + m <= MaxPushed + 3,
         b = a \/ (b = a + 1 /\ m = n - 1)
  PROVE  ChannelStep
<1>1. LinesIn = Lines(a, n)
  BY FlowParts, LinesInAre DEF PartsOK
<1>2. LinesIn' = Lines(b, m)
  <2>1. PartsOK' /\ StreamLines'
    BY FlowParts, StreamLinesAre, PTL
  <2> QED  BY <2>1 DEF PartsOK, StreamLines
<1>3. PICK top \in Nat : top = MaxPushed + 3
  BY LinkAssumption
<1>4. Len(Lines(a, n)) = n /\ Len(Lines(b, m)) = m
  BY LinesType
<1>5. CASE b = a /\ m = n
  BY <1>1, <1>2, <1>5 DEF ChannelStep
<1>6. CASE b = a /\ m > n
  <2>1. Lines(a, m) \in Seq(1 .. top)
    BY <1>3, <1>6 DEF Lines
  <2>2. SubSeq(Lines(a, m), 1, n) = Lines(a, n)
    BY <1>6, LinesPrefix
  <2>3. C!Put
    BY <1>1, <1>2, <1>3, <1>4, <1>6, <2>1, <2>2 DEF C!Put, Delivered
  <2> QED  BY <2>3 DEF ChannelStep, C!Next
<1>7. CASE b = a /\ m < n
  <2>1. SubSeq(Lines(a, n), 1, m) = Lines(a, m) /\ m \in 0 .. n
    BY <1>7, LinesPrefix
  <2>2. C!Cut
    BY <1>1, <1>2, <1>4, <1>7, <2>1 DEF C!Cut, Delivered
  <2> QED  BY <2>2 DEF ChannelStep, C!Next
<1>8. CASE b = a + 1 /\ m = n - 1
  <2>1. n > 0
    BY <1>8
  <2>2. /\ Lines(a, n) # <<>> /\ Head(Lines(a, n)) = a + 1
        /\ Tail(Lines(a, n)) = Lines(b, m)
    BY <1>8, <2>1, LinesShift
  <2>3. Append(Lines(0, a), a + 1) = Lines(0, b)
    BY <1>8, LinesOneMore
  <2>4. C!Arrive
    BY <1>1, <1>2, <2>2, <2>3, Zenon DEF C!Arrive, Delivered
  <2> QED  BY <2>4 DEF ChannelStep, C!Next
<1> QED  BY <1>5, <1>6, <1>7, <1>8

-----------------------------------------------------------------------------
(* As long as nothing has cut it, the stream holds all that has been pushed. *)
Whole == peer[gui] # "closed" /\ conn[gui] # "dropped" /\ ~Ended

(* Lines 1 to a have arrived, a+1 to a+n are in the stream. *)
Streaming(a, n, h) ==
  /\ Delivered = Lines(0, a) /\ Carries(flow, a, n, h)
  /\ a + n <= MaxPushed + 3
  /\ Whole => h = 0 /\ a + n = pushed[gui]

StreamOK == \E a, n \in Nat, h \in {0, 1} : Streaming(a, n, h)

LEMMA StreamStays ==
  ASSUME LinkTypes, LinkTypes', StreamOK, UNCHANGED <<flow, Delivered>>,
         Whole' => Whole /\ pushed'[gui] = pushed[gui]
  PROVE  StreamOK' /\ ChannelStep
<1>1. PICK a \in Nat, n \in Nat, h \in {0, 1} : Streaming(a, n, h)
  BY DEF StreamOK
<1>2. /\ Delivered = Lines(0, a) /\ Carries(flow, a, n, h)
      /\ Delivered' = Lines(0, a) /\ Carries(flow', a, n, h) /\ a + n <= MaxPushed + 3
  BY <1>1 DEF Streaming
<1>3. ChannelStep
  BY <1>2, StreamMoves
<1>4. Streaming(a, n, h)'
  BY <1>1, <1>2 DEF Streaming
<1> QED  BY <1>3, <1>4 DEF StreamOK

LEMMA StreamGrows ==
  ASSUME LinkTypes, LinkTypes', StreamOK, Whole, UNCHANGED Delivered,
         flow' = flow \o Pieces(pushed[gui] + 1), pushed'[gui] = pushed[gui] + 1,
         pushed[gui] + 1 <= MaxPushed + 3
  PROVE  StreamOK' /\ ChannelStep
<1>1. PICK a \in Nat, n \in Nat, h \in {0, 1} : Streaming(a, n, h)
  BY DEF StreamOK
<1>2. PICK z \in {0, 1} : z = 0 /\ h = z /\ a + n = pushed[gui]
  BY <1>1 DEF Streaming
<1>3. Delivered = Lines(0, a) /\ Carries(flow, a, n, 0) /\ Carries(flow, a, n, z) /\ Delivered' = Lines(0, a)
  BY <1>1, <1>2 DEF Streaming
<1>4. PICK k \in Nat, m \in Nat : k = a + n + 1 /\ m = n + 1 /\ k = pushed[gui] + 1
  BY <1>2
<1>5. flow \in Seq(Piece)
  BY FlowParts DEF PartsOK
<1>6. Carries(flow', a, m, z)
  <2>1. Carries(flow \o Pieces(k), a, n + 1, 0)
    BY <1>3, <1>4, <1>5, CarriesMore
  <2> QED  BY <1>2, <1>4, <2>1
<1>7. a + m <= MaxPushed + 3 /\ a + m = pushed'[gui]
  BY <1>2, <1>4
<1>8. ChannelStep
  BY <1>3, <1>6, <1>7, StreamMoves
<1>9. Streaming(a, m, z)'
  BY <1>2, <1>3, <1>6, <1>7 DEF Streaming
<1> QED  BY <1>8, <1>9 DEF StreamOK

LEMMA StreamCut ==
  ASSUME LinkTypes, LinkTypes', StreamOK, UNCHANGED Delivered, ~Whole',
         Len(flow') <= Len(flow), \A i \in 1 .. Len(flow') : flow'[i] = flow[i]
  PROVE  StreamOK' /\ ChannelStep
<1>1. PICK a \in Nat, n \in Nat, h \in {0, 1} : Streaming(a, n, h)
  BY DEF StreamOK
<1>2. /\ Delivered = Lines(0, a) /\ Carries(flow, a, n, h) /\ Delivered' = Lines(0, a)
      /\ a + n <= MaxPushed + 3
  BY <1>1 DEF Streaming
<1>3. PICK f \in Seq(Piece), t \in Seq(Piece) : f = flow /\ t = flow'
  <2>1. PartsOK /\ PartsOK'
    BY FlowParts, PTL
  <2> QED  BY <2>1 DEF PartsOK
<1>4. PICK m \in 0 .. n, g \in {0, 1} : Carries(t, a, m, g)
  BY <1>2, <1>3, CarriesPrefix
<1>5. m \in Nat /\ Carries(flow', a, m, g) /\ a + m <= MaxPushed + 3
  BY <1>2, <1>3, <1>4, LinkAssumption
<1>6. ChannelStep
  BY <1>2, <1>5, StreamMoves
<1>7. Streaming(a, m, g)'
  BY <1>2, <1>5 DEF Streaming
<1> QED  BY <1>5, <1>6, <1>7 DEF StreamOK

LEMMA StreamArrives ==
  ASSUME LinkTypes, LinkTypes', StreamOK, HasLine, extractLine,
         UNCHANGED <<wbuf, down, peer, conn, stage, pushed>>,
         \/ Delivered' = Append(Delivered, LineOf(SubSeq(rbuf, 1, LineEnd)))
         \/ Delivered = <<>> /\ Delivered' = Greeting
  PROVE  StreamOK' /\ ChannelStep
<1>1. PICK a \in Nat, n \in Nat, h \in {0, 1} : Streaming(a, n, h)
  BY DEF StreamOK
<1>2. Delivered = Lines(0, a) /\ Carries(flow, a, n, h) /\ a + n <= MaxPushed + 3
  BY <1>1 DEF Streaming
<1>3. n > 0 /\ LineOf(SubSeq(rbuf, 1, LineEnd)) = a + 1
  BY <1>2, ExtractIs
<1>4. PICK b \in Nat, m \in Nat : b = a + 1 /\ m = n - 1
  BY <1>3
<1>5. Carries(flow', b, m, h)
  BY <1>2, <1>4, ExtractTakes
<1>6. Delivered' = Lines(0, b)
  <2>1. CASE Delivered' = Append(Delivered, LineOf(SubSeq(rbuf, 1, LineEnd)))
    BY <1>2, <1>3, <1>4, <2>1, LinesOneMore
  <2>2. CASE Delivered = <<>> /\ Delivered' = Greeting
    <3>1. a = 0
      BY <1>2, <2>2 DEF Lines
    <3>2. Append(<<>>, 1) = Greeting
      BY DEF Greeting
    <3>3. Append(Lines(0, a), a + 1) = Lines(0, a + 1)
      BY LinesOneMore
    <3> QED  BY <1>2, <1>4, <2>2, <3>1, <3>2, <3>3
  <2> QED  BY <2>1, <2>2
<1>7. b + m <= MaxPushed + 3 /\ b + m = a + n
  BY <1>2, <1>4
<1>8. ChannelStep
  BY <1>2, <1>4, <1>5, <1>6, <1>7, StreamMoves
<1>9. Streaming(b, m, h)'
  <2>1. Whole' => h = 0 /\ a + n = pushed'[gui]
    BY <1>1 DEF Streaming, Whole, Ended
  <2> QED  BY <1>5, <1>6, <1>7, <2>1 DEF Streaming
<1> QED  BY <1>8, <1>9 DEF StreamOK

-----------------------------------------------------------------------------
LEMMA NextTypes ==
  ASSUME LinkTypes, StreamOK, [LinkNext]_linkVars PROVE LinkTypes'
<1>1. CASE UNCHANGED linkVars
  BY <1>1 DEF linkVars, serverVars, socketVars, guiVars, LinkTypes
<1>2. CASE setupPoll \/ NobodyWins \/ (\E c \in Client : StartSend(c))
  BY <1>2 DEF setupPoll, NobodyWins, StartSend, socketVars, guiVars, LinkTypes
<1>3. CASE poll
  <2>1. UNCHANGED <<down, peer, up, rbuf, state>>
    BY <1>3 DEF poll, socketVars, guiVars
  <2>2. CASE UNCHANGED <<conn, wbuf, pushed>>
    BY <2>1, <2>2 DEF LinkTypes
  <2>3. CASE \E c \in Waiting : conn' = [conn EXCEPT ![c] = "pending"] /\ pushResponse({c})
    <3>1. conn' \in [Client -> {"absent", "pending", "joined", "dropped"}]
      BY <2>3 DEF LinkTypes
    <3>2. wbuf' \in [Client -> Seq(Piece)] /\ pushed' \in [Client -> Nat]
      BY <2>3, PushTypes DEF pushResponse
    <3> QED  BY <2>1, <3>1, <3>2 DEF LinkTypes
  <2> QED  BY <1>3, <2>2, <2>3 DEF poll, acceptNewClient
<1>4. ASSUME NEW c \in Client, HangUp(c) PROVE LinkTypes'
  <2>1. drop(c) /\ UNCHANGED <<down, peer, up, rbuf, state>>
    BY <1>4 DEF HangUp, socketVars, guiVars
  <2> QED  BY <2>1, DropTypes DEF LinkTypes
<1>5. ASSUME NEW c \in Client, ReadClient(c) PROVE LinkTypes'
  <2>1. up' \in [Client -> Nat] /\ UNCHANGED <<down, peer, rbuf, state>>
    BY <1>5 DEF ReadClient, readSocket, guiVars, LinkTypes
  <2>2. CASE drop(c)
    BY <2>1, <2>2, DropTypes DEF LinkTypes
  <2>3. CASE assign(c)
    <3>1. conn' \in [Client -> {"absent", "pending", "joined", "dropped"}]
      BY <2>3 DEF assign, LinkTypes
    <3>2. wbuf' \in [Client -> Seq(Piece)] /\ pushed' \in [Client -> Nat]
      BY <2>3, PushTypes DEF assign, pushResponse
    <3> QED  BY <2>1, <3>1, <3>2 DEF LinkTypes
  <2> QED  BY <1>5, <2>2, <2>3 DEF ReadClient
<1>6. ASSUME NEW c \in Client, SendSome(c) PROVE LinkTypes'
  <2>1. wbuf[c] \in Seq(Piece) /\ wbuf[c] # <<>> /\ down[c] \in Seq(Piece)
    BY <1>6 DEF SendSome, LinkTypes
  <2>2. Tail(wbuf[c]) \in Seq(Piece) /\ Append(down[c], Head(wbuf[c])) \in Seq(Piece)
    BY <2>1, HeadTailProperties, AppendProperties
  <2>3. wbuf' \in [Client -> Seq(Piece)]
    BY <1>6, <2>2 DEF SendSome, LinkTypes
  <2>4. down' \in [Client -> Seq(Piece)]
    BY <1>6, <2>2 DEF SendSome, LinkTypes
  <2>5. UNCHANGED <<conn, pushed, up, peer, rbuf, state>>
    BY <1>6 DEF SendSome, guiVars
  <2> QED  BY <2>3, <2>4, <2>5 DEF LinkTypes
<1>7. ASSUME NEW c \in Client, SendReturns(c) PROVE LinkTypes'
  <2>1. UNCHANGED <<down, peer, up, rbuf, state>>
    BY <1>7 DEF SendReturns, socketVars, guiVars
  <2>2. CASE drop(c)
    BY <2>1, <2>2, DropTypes DEF LinkTypes
  <2>3. CASE UNCHANGED <<conn, wbuf, pushed>>
    BY <2>1, <2>3 DEF LinkTypes
  <2> QED  BY <1>7, <2>2, <2>3 DEF SendReturns
<1>8. CASE Serve \/ SendDead
  <2>1. PICK S : pushTo(S)
    BY <1>8 DEF Serve, SendDead, pushResponse
  <2>2. UNCHANGED <<conn, down, peer, up, rbuf, state>>
    BY <1>8 DEF Serve, SendDead, socketVars, guiVars
  <2>3. wbuf' \in [Client -> Seq(Piece)] /\ pushed' \in [Client -> Nat]
    BY <2>1, PushTypes
  <2> QED  BY <2>2, <2>3 DEF LinkTypes
<1>9. CASE DropDead
  <2>1. PICK w, S : /\ wbuf' = [w EXCEPT ![ai] = <<>>] /\ w \in [Client -> Seq(Piece)]
                    /\ pushed' \in [Client -> Nat]
    <3>1. PICK w : w = [c \in Client |-> IF c \in Guis THEN wbuf[c] \o Pieces(pushed[c] + 1) ELSE wbuf[c]]
      OBVIOUS
    <3>2. wbuf' = [w EXCEPT ![ai] = <<>>]
      BY <1>9, <3>1 DEF DropDead
    <3>3. \A c \in Client : wbuf[c] \o Pieces(pushed[c] + 1) \in Seq(Piece) /\ wbuf[c] \in Seq(Piece)
      BY PiecesAdd DEF LinkTypes
    <3>4. w \in [Client -> Seq(Piece)]
      BY <3>1, <3>3
    <3>5. pushed' \in [Client -> Nat]
      BY <1>9 DEF DropDead, LinkTypes
    <3> QED  BY <3>2, <3>4, <3>5
  <2>2. <<>> \in Seq(Piece)
    OBVIOUS
  <2>3. wbuf' \in [Client -> Seq(Piece)]
    BY <2>1, <2>2
  <2>4. conn' \in [Client -> {"absent", "pending", "joined", "dropped"}]
    BY <1>9 DEF DropDead, LinkTypes
  <2>5. UNCHANGED <<down, peer, up, rbuf, state>>
    BY <1>9 DEF DropDead, socketVars, guiVars
  <2> QED  BY <2>1, <2>3, <2>4, <2>5 DEF LinkTypes
<1>10. CASE Victory \/ Stop
  <2>1. wbuf' = [c \in Client |-> <<>>] /\ <<>> \in Seq(Piece)
    BY <1>10 DEF Victory, Stop
  <2>2. pushed' \in [Client -> Nat]
    <3>1. CASE Victory
      BY <3>1 DEF Victory, LinkTypes
    <3>2. CASE Stop
      BY <3>2 DEF Stop, LinkTypes
    <3> QED  BY <1>10, <3>1, <3>2
  <2>3. UNCHANGED <<conn, down, peer, up, rbuf, state>>
    BY <1>10 DEF Victory, Stop, socketVars, guiVars
  <2> QED  BY <2>1, <2>2, <2>3 DEF LinkTypes
<1>11. CASE AiReads \/ AiLeaves
  <2>1. <<>> \in Seq(Piece)
    OBVIOUS
  <2>2. down' \in [Client -> Seq(Piece)] /\ peer' \in [Client -> {"none", "open", "closed"}] /\ up' = up
    <3>1. CASE AiReads
      BY <2>1, <3>1 DEF AiReads, LinkTypes
    <3>2. CASE AiLeaves
      BY <3>2 DEF AiLeaves, LinkTypes
    <3> QED  BY <1>11, <3>1, <3>2
  <2>3. UNCHANGED <<conn, wbuf, pushed, rbuf, state>>
    BY <1>11 DEF AiReads, AiLeaves, aiOpen, serverVars, guiVars
  <2> QED  BY <2>2, <2>3 DEF LinkTypes
<1>12. CASE Connect \/ Fails \/ Join
  <2>1. UNCHANGED <<conn, wbuf, pushed, down, up, rbuf, state>>
    BY <1>12 DEF Connect, Fails, Join, serverVars
  <2>2. peer' \in [Client -> {"none", "open", "closed"}]
    BY <1>12 DEF Connect, Fails, Join, LinkTypes
  <2> QED  BY <2>1, <2>2 DEF LinkTypes
<1>13. ASSUME NEW n \in DOMAIN down[gui], receive(n), UNCHANGED <<conn, wbuf, pushed, up, peer, state>>
       PROVE  LinkTypes'
  BY <1>13, ReceiveTypes DEF LinkTypes
<1>14. ASSUME HasLine, extractLine, UNCHANGED <<conn, wbuf, pushed, up, peer, down>>,
              DOMAIN state' = {1, 2}, state'[1] \in Seq(Nat)
       PROVE  LinkTypes'
  <2>1. PICK a \in Nat, n \in Nat, h \in {0, 1} : Streaming(a, n, h)
    BY DEF StreamOK
  <2>2. Carries(flow, a, n, h)
    BY <2>1 DEF Streaming
  <2>3. rbuf' \in Seq(Piece)
    BY <1>14, <2>2, ExtractTakes
  <2> QED  BY <1>14, <2>3 DEF LinkTypes
<1>15. CASE readLineBlocking \/ receiveData
  BY <1>13, <1>14, <1>15 DEF readLineBlocking, receiveData, serverVars, LinkTypes
<1>16. CASE Authenticate
  BY <1>16 DEF Authenticate, serverVars, LinkTypes
<1>17. CASE CloseWindow \/ BeginSnapshot \/ EndSnapshot \/ stop \/ ServerGone \/ LeaveLoop \/ LinesDone
  BY <1>17 DEF CloseWindow, BeginSnapshot, EndSnapshot, stop, ServerGone, LeaveLoop, LinesDone,
      socketVars, serverVars, LinkTypes
<1>18. CASE handleLine
  <2>1. /\ HasLine /\ extractLine /\ UNCHANGED <<conn, wbuf, pushed, up, peer, down>>
        /\ state' = [state EXCEPT ![1] = Append(@, LineOf(SubSeq(rbuf, 1, LineEnd)))]
    BY <1>18 DEF handleLine, beginLine, socketVars, serverVars
  <2>2. PICK a \in Nat, n \in Nat, h \in {0, 1} : Carries(flow, a, n, h)
    BY DEF StreamOK, Streaming
  <2>3. PICK k \in Nat : k = LineOf(SubSeq(rbuf, 1, LineEnd))
    BY <2>1, <2>2, ExtractIs
  <2>4. PICK s \in Seq(Nat) : s = state[1] /\ DOMAIN state = {1, 2}
    BY DEF LinkTypes
  <2>5. Append(s, k) \in Seq(Nat)
    BY AppendProperties
  <2>6. DOMAIN state' = {1, 2} /\ state'[1] = Append(s, k)
    BY <2>1, <2>3, <2>4
  <2> QED  BY <1>14, <2>1, <2>5, <2>6
<1>19. CASE LineHandled
  BY <1>19 DEF LineHandled, socketVars, serverVars, LinkTypes
<1> QED
  BY <1>1, <1>2, <1>3, <1>4, <1>5, <1>6, <1>7, <1>8, <1>9, <1>10, <1>11, <1>12, <1>15, <1>16, <1>17,
     <1>18, <1>19
  DEF LinkNext, Loop, Fate, Handle, Main, Thread

LEMMA PushCounts ==
  ASSUME LinkTypes, NEW S, pushTo(S)
  PROVE  pushed'[gui] = IF gui \in S THEN pushed[gui] + 1 ELSE pushed[gui]
  BY DEF pushTo, LinkTypes, Client

LEMMA NextOpening ==
  ASSUME LinkTypes, OpeningOK, [LinkNext]_linkVars PROVE OpeningOK'
<1> USE LinkAssumption
<1>0. gui \in Client /\ ai \in Client /\ gui # ai /\ pushed[gui] \in Nat
  BY DEF Client, LinkTypes
<1>1. CASE UNCHANGED linkVars
  BY <1>1 DEF linkVars, serverVars, socketVars, guiVars, OpeningOK, Ended
<1>2. CASE setupPoll \/ NobodyWins \/ (\E c \in Client : StartSend(c) \/ SendSome(c))
  BY <1>2 DEF setupPoll, NobodyWins, StartSend, Handling, SendSome, socketVars, guiVars, OpeningOK, Ended
<1>3. CASE poll
  <2>1. UNCHANGED <<peer, up, main, window, thread, state>> /\ stage = "poll" /\ stage' = "io"
    BY <1>3 DEF poll, socketVars, guiVars
  <2>2. CASE UNCHANGED <<conn, wbuf, pushed>>
    BY <2>1, <2>2 DEF OpeningOK, Ended
  <2>3. ASSUME NEW c \in Waiting, conn' = [conn EXCEPT ![c] = "pending"], pushResponse({c})
        PROVE  OpeningOK'
    <3>1. c \in Client /\ conn[c] = "absent" /\ peer[c] # "none"
      BY DEF Waiting
    <3>2. pushed'[gui] = IF gui \in {c} THEN pushed[gui] + 1 ELSE pushed[gui]
      BY <2>3, PushCounts DEF pushResponse
    <3>3. CASE c = gui
      <4>1. conn'[gui] = "pending" /\ conn'[ai] = conn[ai] /\ pushed'[gui] = 1
        BY <1>0, <2>3, <3>1, <3>2, <3>3 DEF OpeningOK, LinkTypes
      <4> QED  BY <2>1, <3>1, <3>3, <4>1 DEF OpeningOK, Ended
    <3>4. CASE c = ai
      <4>1. conn'[gui] = conn[gui] /\ conn'[ai] = "pending" /\ pushed'[gui] = pushed[gui] /\ conn[ai] = "absent"
        BY <1>0, <2>3, <3>1, <3>2, <3>4 DEF LinkTypes
      <4> QED  BY <2>1, <4>1 DEF OpeningOK, Ended
    <3> QED  BY <3>3, <3>4 DEF Client, Waiting
  <2> QED  BY <1>3, <2>2, <2>3 DEF poll, acceptNewClient
<1>4. ASSUME NEW c \in Client, drop(c), stage = "io", stage' = "io",
             UNCHANGED <<peer, main, window, thread, state>>,
             up'[gui] = up[gui] \/ up'[gui] = 0,
             c = gui => peer[gui] # "none"
      PROVE  OpeningOK'
  <2>1. CASE c = gui
    <3>1. conn'[gui] = "dropped" /\ conn'[ai] = conn[ai] /\ pushed' = pushed
      BY <1>0, <1>4, <2>1 DEF drop, LinkTypes
    <3> QED  BY <1>4, <2>1, <3>1 DEF OpeningOK, Ended
  <2>2. CASE c = ai
    <3>1. conn'[ai] = "dropped" /\ conn'[gui] = conn[gui] /\ pushed' = pushed
      BY <1>0, <1>4, <2>2 DEF drop, LinkTypes
    <3> QED  BY <1>0, <1>4, <3>1 DEF OpeningOK, Ended
  <2> QED  BY <2>1, <2>2 DEF Client
<1>5. ASSUME NEW c \in Client, HangUp(c) PROVE OpeningOK'
  BY <1>4, <1>5 DEF HangUp, Handling, Watched, socketVars, guiVars, OpeningOK
<1>6. ASSUME NEW c \in Client, ReadClient(c) PROVE OpeningOK'
  <2>1. /\ UNCHANGED <<peer, main, window, thread, state>> /\ stage = "io" /\ stage' = "io"
        /\ up' = [up EXCEPT ![c] = 0] /\ conn[c] \in {"pending", "joined"}
    BY <1>6 DEF ReadClient, readSocket, Handling, guiVars, Watched
  <2>2. up'[gui] = up[gui] \/ up'[gui] = 0
    BY <1>0, <2>1 DEF LinkTypes
  <2>3. CASE drop(c)
    BY <1>4, <2>1, <2>2, <2>3 DEF OpeningOK
  <2>4. CASE up[c] > 0 /\ assign(c)
    <3>1. pushed'[gui] = IF gui \in {c} THEN pushed[gui] + 1 ELSE pushed[gui]
      BY <2>4, PushCounts DEF assign, pushResponse
    <3>2. CASE c = gui
      <4>1. conn[gui] = "pending" /\ pushed[gui] = 1 /\ up[gui] # 0
        BY <1>0, <2>1, <2>4, <3>2 DEF OpeningOK, LinkTypes
      <4>2. conn'[gui] = "joined" /\ conn'[ai] = conn[ai] /\ up'[gui] = 0 /\ pushed'[gui] = 2
        BY <1>0, <2>1, <2>4, <3>1, <3>2, <4>1 DEF assign, LinkTypes
      <4> QED  BY <2>1, <4>1, <4>2 DEF OpeningOK, Ended
    <3>3. CASE c = ai
      <4>1. conn'[gui] = conn[gui] /\ conn'[ai] = "joined" /\ conn[ai] # "dropped"
            /\ up'[gui] = up[gui] /\ pushed'[gui] = pushed[gui]
        BY <1>0, <2>1, <2>4, <3>1, <3>3 DEF assign, LinkTypes
      <4> QED  BY <2>1, <4>1 DEF OpeningOK, Ended
    <3> QED  BY <3>2, <3>3 DEF Client
  <2> QED  BY <1>6, <2>3, <2>4 DEF ReadClient
<1>7. ASSUME NEW c \in Client, SendReturns(c) PROVE OpeningOK'
  <2>1. UNCHANGED <<peer, up, main, window, thread, state>> /\ stage = "io" /\ stage' = "io"
    BY <1>7 DEF SendReturns, socketVars, guiVars
  <2>2. CASE peer[c] = "closed" /\ drop(c)
    BY <1>4, <2>1, <2>2
  <2>3. CASE UNCHANGED <<conn, wbuf, pushed>>
    BY <2>1, <2>3 DEF OpeningOK, Ended
  <2> QED  BY <1>7, <2>2, <2>3 DEF SendReturns
<1>8. CASE Serve
  <2>1. UNCHANGED <<conn, peer, up, main, window, thread, state>> /\ stage = "io" /\ stage' = "deaths"
    BY <1>8 DEF Serve, socketVars, guiVars
  <2>2. PICK S : /\ pushTo(S)
                 /\ gui \in S => conn[gui] = "joined" /\ pushed[gui] < MaxPushed
    BY <1>8 DEF Serve, pushResponse
  <2>3. pushed'[gui] = IF gui \in S THEN pushed[gui] + 1 ELSE pushed[gui]
    BY <2>2, PushCounts
  <2>4. CASE gui \in S
    <3>1. /\ conn[gui] = "joined" /\ pushed'[gui] \in Nat
          /\ pushed'[gui] <= MaxPushed + 2 /\ pushed'[gui] <= MaxPushed + 2 + 1
          /\ MaxPushed + 2 + 0 = MaxPushed + 2
      BY <1>0, <2>2, <2>3, <2>4
    <3> QED  BY <2>1, <3>1 DEF OpeningOK, Ended
  <2>5. CASE gui \notin S
    BY <2>1, <2>3, <2>5 DEF OpeningOK, Ended
  <2> QED  BY <2>4, <2>5
<1>9. CASE SendDead
  <2>1. /\ UNCHANGED <<conn, peer, up, main, window, thread, state>>
        /\ stage = "deaths" /\ stage' = "dying" /\ conn[ai] = "joined" /\ pushTo({ai})
    BY <1>9 DEF SendDead, socketVars, guiVars
  <2>2. pushed'[gui] = pushed[gui]
    BY <1>0, <2>1, PushCounts
  <2> QED  BY <2>1, <2>2 DEF OpeningOK, Ended
<1>10. CASE DropDead
  <2>1. /\ UNCHANGED <<peer, up, main, window, thread, state>>
        /\ stage = "dying" /\ stage' = "deaths" /\ conn' = [conn EXCEPT ![ai] = "dropped"]
    BY <1>10 DEF DropDead, socketVars, guiVars
  <2>2. conn[ai] = "joined" /\ conn'[ai] = "dropped" /\ conn'[gui] = conn[gui]
    BY <1>0, <2>1 DEF OpeningOK, LinkTypes
  <2>3. pushed'[gui] = IF conn[gui] = "joined" THEN pushed[gui] + 1 ELSE pushed[gui]
    BY <1>0, <1>10 DEF DropDead, Guis, LinkTypes
  <2>4. pushed[gui] <= MaxPushed + 2
    BY <2>1, <2>2 DEF OpeningOK, Ended
  <2>5. pushed'[gui] <= MaxPushed + 2 + 1
    BY <1>0, <2>3, <2>4
  <2> QED  BY <2>1, <2>2, <2>3, <2>5 DEF OpeningOK, Ended
<1>11. CASE Victory \/ Stop
  <2>1. UNCHANGED <<conn, peer, up, main, window, thread, state>> /\ stage' = "ended"
    BY <1>11 DEF Victory, Stop, socketVars, guiVars
  <2>2. conn[gui] # "joined" => pushed'[gui] = pushed[gui]
    BY <1>0, <1>11 DEF Victory, Stop, Guis, LinkTypes
  <2> QED  BY <2>1, <2>2 DEF OpeningOK, Ended
<1>12. CASE AiReads \/ AiLeaves
  <2>1. up' = up /\ peer'[gui] = peer[gui]
    BY <1>0, <1>12 DEF AiReads, AiLeaves, LinkTypes
  <2>2. UNCHANGED <<stage, conn, pushed, main, window, thread, state>>
    BY <1>12 DEF AiReads, AiLeaves, aiOpen, serverVars, guiVars
  <2> QED  BY <2>1, <2>2 DEF OpeningOK, Ended
<1>13. CASE Connect \/ Fails \/ Join
  <2>1. UNCHANGED <<stage, conn, pushed, up, window, thread, state>>
    BY <1>13 DEF Connect, Fails, Join, serverVars
  <2>2. /\ main' \in {"welcome", "done"} /\ peer'[gui] # "none"
        /\ main' = "welcome" => main = "start"
    BY <1>0, <1>13 DEF Connect, Fails, Join, LinkTypes
  <2> QED  BY <2>1, <2>2 DEF OpeningOK, Ended
<1>14. CASE readLineBlocking \/ stop \/ BeginSnapshot \/ EndSnapshot
  <2>1. /\ UNCHANGED <<stage, conn, pushed, up, peer, window, thread, state>>
        /\ main' # "start"
        /\ main' \in {"welcome", "authenticate"} => main = "welcome"
    BY <1>14 DEF readLineBlocking, stop, BeginSnapshot, EndSnapshot, serverVars, socketVars
  <2> QED  BY <2>1 DEF OpeningOK, Ended
<1>15. CASE Authenticate
  <2>1. /\ UNCHANGED <<stage, conn, pushed, peer, state>>
        /\ main = "authenticate" /\ main' = "loop" /\ window' = "open"
    BY <1>15 DEF Authenticate, serverVars
  <2>2. conn[gui] # "joined"
    BY <2>1 DEF OpeningOK
  <2> QED  BY <2>1, <2>2 DEF OpeningOK, Ended
<1>16. CASE CloseWindow \/ ServerGone \/ LeaveLoop \/ LinesDone \/ LineHandled \/ handleLine \/ receiveData
  <2>1. UNCHANGED <<stage, conn, pushed, up, peer, main>>
    BY <1>16 DEF CloseWindow, ServerGone, LeaveLoop, LinesDone, LineHandled, handleLine, beginLine,
        receiveData, serverVars, socketVars
  <2>2. /\ window # "none" => window' # "none"
        /\ window # "none"
    BY <1>16 DEF CloseWindow, ServerGone, LeaveLoop, LinesDone, LineHandled, handleLine, beginLine,
        receiveData, OpeningOK
  <2> QED  BY <2>1, <2>2 DEF OpeningOK, Ended
<1> QED
  BY <1>1, <1>2, <1>3, <1>5, <1>6, <1>7, <1>8, <1>9, <1>10, <1>11, <1>12, <1>13, <1>14, <1>15, <1>16
  DEF LinkNext, Loop, Fate, Handle, Main, Thread

-----------------------------------------------------------------------------
(* What the steps do to the stream. *)
LEMMA FlowStays ==
  ASSUME rbuf' = rbuf, down'[gui] = down[gui], wbuf'[gui] = wbuf[gui],
         peer'[gui] = "closed" <=> peer[gui] = "closed"
  PROVE  flow' = flow
  BY DEF flow

LEMMA FlowIsCut ==
  ASSUME LinkTypes, rbuf' = rbuf, down'[gui] = down[gui],
         peer'[gui] = "closed" \/ wbuf'[gui] = <<>>
  PROVE  Len(flow') <= Len(flow) /\ \A i \in 1 .. Len(flow') : flow'[i] = flow[i]
<1>1. PICK s \in Seq(Piece), w \in Seq(Piece) :
        s = rbuf \o down[gui] /\ flow = s \o w
  <2>1. gui \in Client
    BY DEF Client
  <2>2. rbuf \in Seq(Piece) /\ down[gui] \in Seq(Piece) /\ wbuf[gui] \in Seq(Piece) /\ <<>> \in Seq(Piece)
    BY <2>1 DEF LinkTypes
  <2>3. rbuf \o down[gui] \in Seq(Piece)
    BY <2>2, ConcatProperties
  <2> QED  BY <2>2, <2>3, Zenon DEF flow
<1>2. flow' = s
  <2>1. flow' = s \o <<>>
    BY <1>1 DEF flow
  <2> QED  BY <2>1, ConcatEmptySeq
<1>3. Len(flow) = Len(s) + Len(w) /\ \A i \in 1 .. Len(s) : flow[i] = s[i]
  <2>1. Len(s) \in Nat /\ Len(w) \in Nat
    BY LenProperties
  <2> QED  BY <1>1, <2>1, ConcatProperties
<1> QED  BY <1>2, <1>3, LenProperties

LEMMA FlowGrows ==
  ASSUME LinkTypes, UNCHANGED <<rbuf, down, peer>>, peer[gui] # "closed",
         wbuf'[gui] = wbuf[gui] \o Pieces(pushed[gui] + 1)
  PROVE  flow' = flow \o Pieces(pushed[gui] + 1)
<1>1. PICK r \in Seq(Piece), d \in Seq(Piece), w \in Seq(Piece), p \in Seq(Piece) :
        r = rbuf /\ d = down[gui] /\ w = wbuf[gui] /\ p = Pieces(pushed[gui] + 1)
  <2>1. gui \in Client
    BY DEF Client
  <2>2. PICK k \in Nat : k = pushed[gui] + 1
    BY <2>1 DEF LinkTypes
  <2>3. Pieces(k) \in Seq(Piece)
    BY DEF Pieces, Piece
  <2>4. rbuf \in Seq(Piece) /\ down[gui] \in Seq(Piece) /\ wbuf[gui] \in Seq(Piece)
    BY <2>1 DEF LinkTypes
  <2> QED  BY <2>2, <2>3, <2>4
<1>2. wbuf'[gui] = w \o p
  BY <1>1, Zenon
<1>3. PICK s \in Seq(Piece) : s = r \o d
  BY ConcatProperties
<1>4. flow = s \o w /\ flow' = s \o (w \o p)
  BY <1>1, <1>2, <1>3 DEF flow
<1>5. (s \o w) \o p = s \o (w \o p)
  BY ConcatAssociative, SMTT(40)
<1> QED  BY <1>1, <1>4, <1>5, Zenon

LEMMA FlowIsShut ==
  ASSUME UNCHANGED <<rbuf, down, peer>>, peer[gui] = "closed"
  PROVE  flow' = flow
  BY DEF flow

LEMMA FlowPassesOn ==
  ASSUME LinkTypes, SendSome(gui)
  PROVE  flow' = flow
<1>0. gui \in Client
  BY DEF Client
<1>1. CASE peer[gui] = "closed"
  BY <1>1 DEF SendSome, guiVars, flow
<1>2. CASE peer[gui] # "closed"
  <2>1. PICK r \in Seq(Piece), d \in Seq(Piece), w \in Seq(Piece) :
          r = rbuf /\ d = down[gui] /\ w = wbuf[gui] /\ w # <<>>
    BY <1>0 DEF LinkTypes, SendSome
  <2>2. PICK x, t : x = Head(w) /\ t = Tail(w)
    OBVIOUS
  <2>3. x \in Piece /\ t \in Seq(Piece)
    BY <2>1, <2>2, HeadTailProperties
  <2>4. rbuf' = r /\ down'[gui] = Append(d, x) /\ wbuf'[gui] = t /\ peer' = peer
    BY <1>0, <1>2, <2>1, <2>2 DEF SendSome, guiVars, LinkTypes
  <2>5. Append(d, x) = d \o <<x>> /\ <<x>> \in Seq(Piece)
    BY <2>3, AppendIsConcat
  <2>6. <<x>> \o t = w
    <3>1. Len(w) \in Nat /\ 1 \in 1 .. Len(w) /\ Len(w) \in 1 .. Len(w)
      BY <2>1
    <3>2. SubSeq(w, 1, Len(w)) = <<w[1]>> \o SubSeq(w, 1 + 1, Len(w))
      BY <3>1, SubSeqRecursiveFirst
    <3>3. SubSeq(w, 1, Len(w)) = w /\ SubSeq(w, 2, Len(w)) = t /\ w[1] = x /\ 1 + 1 = 2
      BY <2>1, <2>2, SubSeqFull, TailIsSubSeq
    <3> QED  BY <3>2, <3>3
  <2>7. flow = (r \o d) \o w /\ flow' = (r \o (d \o <<x>>)) \o t
    BY <1>2, <2>1, <2>4, <2>5 DEF flow
  <2>8. PICK o : o = <<x>> /\ o \in Seq(Piece)
    BY <2>5
  <2>9. r \o (d \o o) = (r \o d) \o o /\ r \o d \in Seq(Piece)
    BY <2>8, ConcatAssociative, ConcatProperties, SMTT(40)
  <2>10. ((r \o d) \o o) \o t = (r \o d) \o (o \o t)
    BY <2>3, <2>8, <2>9, ConcatAssociative, SMTT(40)
  <2> QED  BY <2>6, <2>7, <2>8, <2>9, <2>10
<1> QED  BY <1>1, <1>2

LEMMA FlowIsRead ==
  ASSUME LinkTypes, NEW n \in DOMAIN down[gui], receive(n), UNCHANGED <<wbuf, peer>>
  PROVE  flow' = flow
<1>0. gui \in Client
  BY DEF Client
<1>1. PICK r \in Seq(Piece), d \in Seq(Piece), w \in Seq(Piece) :
        /\ r = rbuf /\ d = down[gui]
        /\ w = (IF peer[gui] = "closed" THEN <<>> ELSE wbuf[gui])
  <2>1. rbuf \in Seq(Piece) /\ down[gui] \in Seq(Piece) /\ wbuf[gui] \in Seq(Piece)
    BY <1>0 DEF LinkTypes
  <2>2. <<>> \in Seq(Piece)
    OBVIOUS
  <2> QED  BY <2>1, <2>2, Zenon
<1>2. Len(d) \in Nat /\ n \in 1 .. Len(d)
  BY <1>1, LenProperties
<1>3. PICK e, f : e = SubSeq(d, 1, n) /\ f = SubSeq(d, n + 1, Len(d))
  OBVIOUS
<1>4. e \in Seq(Piece) /\ f \in Seq(Piece)
  <2>1. /\ \A i \in 1 .. n : d[i] \in Piece
        /\ \A i \in n + 1 .. Len(d) : d[i] \in Piece
    BY <1>2, ElementOfSeq
  <2> QED  BY <1>2, <1>3, <2>1, SubSeqProperties
<1>5. rbuf' = r \o e /\ down'[gui] = f
  BY <1>0, <1>1, <1>3 DEF receive, LinkTypes
<1>6. e \o f = d
  <2>1. 1 \in 1 .. Len(d) + 1 /\ n \in 1 - 1 .. Len(d) /\ Len(d) \in n .. Len(d)
    BY <1>2
  <2>2. e \o f = SubSeq(d, 1, Len(d))
    BY <1>3, <2>1, ConcatAdjacentSubSeq
  <2> QED  BY <2>2, SubSeqFull
<1>7. flow = (r \o d) \o w /\ flow' = ((r \o e) \o f) \o w
  BY <1>1, <1>5 DEF flow
<1>8. (r \o e) \o f = r \o (e \o f)
  BY <1>4, ConcatAssociative, SMTT(40)
<1> QED  BY <1>6, <1>7, <1>8
-----------------------------------------------------------------------------
(* What each kind of step does to the channel. *)
LEMMA PushStream ==
  ASSUME LinkTypes, LinkTypes', StreamOK, UNCHANGED <<rbuf, down, peer, Delivered>>, Whole' => Whole,
         NEW S,
         wbuf'[gui] = IF gui \in S THEN wbuf[gui] \o Pieces(pushed[gui] + 1) ELSE wbuf[gui],
         pushed'[gui] = IF gui \in S THEN pushed[gui] + 1 ELSE pushed[gui],
         gui \in S /\ peer[gui] # "closed" => Whole /\ pushed[gui] + 1 <= MaxPushed + 3
  PROVE  StreamOK' /\ ChannelStep
<1>1. CASE gui \notin S
  <2>1. wbuf'[gui] = wbuf[gui] /\ pushed'[gui] = pushed[gui]
    BY <1>1
  <2>2. flow' = flow
    BY <2>1, FlowStays
  <2> QED  BY <2>1, <2>2, StreamStays
<1>2. CASE gui \in S /\ peer[gui] = "closed"
  <2>1. flow' = flow /\ ~Whole'
    BY <1>2, FlowIsShut DEF Whole
  <2> QED  BY <2>1, StreamStays
<1>3. CASE gui \in S /\ peer[gui] # "closed"
  <2>1. wbuf'[gui] = wbuf[gui] \o Pieces(pushed[gui] + 1) /\ pushed'[gui] = pushed[gui] + 1
    BY <1>3
  <2>2. flow' = flow \o Pieces(pushed[gui] + 1)
    BY <1>3, <2>1, FlowGrows
  <2> QED  BY <1>3, <2>1, <2>2, StreamGrows
<1> QED  BY <1>1, <1>2, <1>3

LEMMA PushToStream ==
  ASSUME LinkTypes, LinkTypes', StreamOK, UNCHANGED <<rbuf, down, peer, Delivered>>, Whole' => Whole,
         NEW S, pushTo(S),
         gui \in S /\ peer[gui] # "closed" => Whole /\ pushed[gui] + 1 <= MaxPushed + 3
  PROVE  StreamOK' /\ ChannelStep
<1>1. wbuf'[gui] = IF gui \in S THEN wbuf[gui] \o Pieces(pushed[gui] + 1) ELSE wbuf[gui]
  BY DEF pushTo, Client
<1>2. pushed'[gui] = IF gui \in S THEN pushed[gui] + 1 ELSE pushed[gui]
  BY DEF pushTo, Client
<1> QED  BY <1>1, <1>2, PushStream

LEMMA DropStream ==
  ASSUME LinkTypes, LinkTypes', StreamOK, NEW c \in Client, drop(c),
         UNCHANGED <<rbuf, down, peer, stage, Delivered>>
  PROVE  StreamOK' /\ ChannelStep
<1>0. gui \in Client /\ ai \in Client /\ gui # ai
  BY LinkAssumption DEF Client
<1>1. CASE c = gui
  <2>1. wbuf'[gui] = <<>> /\ conn'[gui] = "dropped"
    BY <1>0, <1>1 DEF drop, LinkTypes
  <2>2. ~Whole'
    BY <2>1 DEF Whole
  <2>3. Len(flow') <= Len(flow) /\ \A i \in 1 .. Len(flow') : flow'[i] = flow[i]
    BY <2>1, FlowIsCut
  <2> QED  BY <2>2, <2>3, StreamCut
<1>2. CASE c = ai
  <2>1. wbuf'[gui] = wbuf[gui] /\ conn'[gui] = conn[gui] /\ pushed' = pushed
    BY <1>0, <1>2 DEF drop, LinkTypes
  <2>2. flow' = flow
    BY <2>1, FlowStays
  <2>3. Whole' => Whole
    BY <2>1 DEF Whole, Ended
  <2> QED  BY <2>1, <2>2, <2>3, StreamStays
<1> QED  BY <1>1, <1>2 DEF Client

LEMMA QuietStream ==
  ASSUME LinkTypes, LinkTypes', StreamOK, UNCHANGED <<rbuf, stage, conn, pushed, Delivered>>,
         down'[gui] = down[gui], wbuf'[gui] = wbuf[gui], peer'[gui] = peer[gui]
  PROVE  StreamOK' /\ ChannelStep
<1>1. flow' = flow
  BY FlowStays
<1>2. Whole' => Whole /\ pushed'[gui] = pushed[gui]
  BY DEF Whole, Ended
<1> QED  BY <1>1, <1>2, StreamStays

LEMMA AppendLater ==
  ASSUME NEW w \in Seq(Nat), NEW s \in Seq(Nat), NEW x \in Nat
  PROVE  w \o Append(s, x) = Append(w \o s, x)
<1>1. PICK y \in Seq(Nat) : y = <<x>>
  <2>1. <<x>> \in Seq(Nat)
    OBVIOUS
  <2> QED  BY <2>1, Zenon
<1>2. (w \o s) \o y = w \o (s \o y)
  BY ConcatAssociative, SMTT(40)
<1>3. PICK t \in Seq(Nat) : t = w \o s
  BY ConcatProperties
<1>4. Append(s, x) = s \o y /\ Append(t, x) = t \o y
  BY <1>1, <1>3, AppendIsConcat
<1> QED  BY <1>1, <1>2, <1>3, <1>4, Zenon

LEMMA AppendArrives ==
  ASSUME LinkTypes, LinkTypes', StreamOK, HasLine, extractLine,
         UNCHANGED <<wbuf, down, peer, conn, stage, pushed, main, window>>, window # "none",
         state' = [state EXCEPT ![1] = Append(@, LineOf(SubSeq(rbuf, 1, LineEnd)))]
  PROVE  StreamOK' /\ ChannelStep
<1>1. PICK a \in Nat, n \in Nat, h \in {0, 1} : Carries(flow, a, n, h)
  BY DEF StreamOK, Streaming
<1>2. PICK k \in Nat : k = LineOf(SubSeq(rbuf, 1, LineEnd))
  BY <1>1, ExtractIs
<1>3. PICK s \in Seq(Nat) : s = state[1] /\ DOMAIN state = {1, 2}
  BY DEF LinkTypes
<1>4. state'[1] = Append(s, k)
  BY <1>2, <1>3
<1>5. Delivered = Greeting \o s /\ Delivered' = Greeting \o Append(s, k)
  BY <1>3, <1>4 DEF Delivered, Welcomed, Greeting
<1>6. Delivered' = Append(Delivered, k)
  <2>1. Greeting \in Seq(Nat)
    BY DEF Greeting
  <2> QED  BY <1>5, <2>1, AppendLater
<1> QED  BY <1>2, <1>6, StreamArrives

LEMMA WelcomeArrives ==
  ASSUME LinkTypes, LinkTypes', OpeningOK, StreamOK, HasLine, extractLine,
         UNCHANGED <<wbuf, down, peer, conn, stage, pushed, window, state>>,
         main = "welcome", main' = "authenticate"
  PROVE  StreamOK' /\ ChannelStep
<1>1. window = "none" /\ state[1] = <<>>
  BY DEF OpeningOK
<1>2. Delivered = <<>> \o <<>> /\ Delivered' = Greeting \o <<>>
  BY <1>1 DEF Delivered, Welcomed, Greeting
<1>3. <<>> \o <<>> = <<>> /\ Greeting \o <<>> = Greeting
  BY DEF Greeting
<1> QED  BY <1>2, <1>3, StreamArrives

LEMMA ReadStream ==
  ASSUME LinkTypes, LinkTypes', StreamOK, NEW n \in DOMAIN down[gui], receive(n),
         UNCHANGED <<wbuf, peer, conn, stage, pushed, Delivered>>
  PROVE  StreamOK' /\ ChannelStep
<1>1. flow' = flow
  BY FlowIsRead
<1>2. Whole' => Whole /\ pushed'[gui] = pushed[gui]
  BY DEF Whole, Ended
<1> QED  BY <1>1, <1>2, StreamStays

LEMMA DeliveredStays ==
  ASSUME UNCHANGED <<window, state>>, main' = main \/ (main' # "authenticate" /\ main # "authenticate")
  PROVE  Delivered' = Delivered
  BY DEF Delivered, Welcomed

LEMMA NextStream ==
  ASSUME LinkTypes, LinkTypes', OpeningOK, OpeningOK', StreamOK, [LinkNext]_linkVars
  PROVE  StreamOK' /\ ChannelStep
<1>0. /\ gui \in Client /\ ai \in Client /\ gui # ai
      /\ pushed[gui] \in Nat /\ pushed'[gui] \in Nat /\ MaxPushed \in Nat
  BY LinkAssumption DEF Client, LinkTypes
<1>1. CASE UNCHANGED linkVars
  <2>1. UNCHANGED <<rbuf, stage, conn, pushed, main, window, state, down, wbuf, peer>>
    BY <1>1 DEF linkVars, serverVars, socketVars, guiVars
  <2> QED  BY <2>1, DeliveredStays, QuietStream
<1>2. CASE setupPoll \/ NobodyWins
  <2>1. /\ UNCHANGED <<rbuf, conn, pushed, main, window, state, down, wbuf, peer>>
        /\ ~Ended
    BY <1>2 DEF setupPoll, NobodyWins, socketVars, guiVars, Ended
  <2>2. UNCHANGED <<flow, Delivered>> /\ (Whole' => Whole /\ pushed'[gui] = pushed[gui])
    BY <2>1, FlowStays, DeliveredStays DEF Whole
  <2> QED  BY <2>2, StreamStays
<1>3. CASE poll
  <2>1. /\ UNCHANGED <<rbuf, down, peer, main, window, state, Delivered>> /\ ~Ended
    BY <1>3, DeliveredStays DEF poll, socketVars, guiVars, Ended
  <2>2. CASE UNCHANGED <<conn, wbuf, pushed>>
    <3>1. UNCHANGED <<flow, Delivered>> /\ (Whole' => Whole /\ pushed'[gui] = pushed[gui])
      BY <2>1, <2>2, FlowStays DEF Whole
    <3> QED  BY <3>1, StreamStays
  <2>3. ASSUME NEW c \in Waiting, conn' = [conn EXCEPT ![c] = "pending"], pushResponse({c})
        PROVE  StreamOK' /\ ChannelStep
    <3>1. c \in Client /\ conn[c] = "absent" /\ pushTo({c})
      BY <2>3 DEF Waiting, pushResponse
    <3>2. Whole' => Whole
      BY <1>0, <2>1, <2>3, <3>1 DEF Whole, LinkTypes
    <3>3. gui \in {c} /\ peer[gui] # "closed" => Whole /\ pushed[gui] + 1 <= MaxPushed + 3
      BY <1>0, <2>1, <3>1 DEF Whole, OpeningOK
    <3> QED  BY <2>1, <3>1, <3>2, <3>3, PushToStream
  <2> QED  BY <1>3, <2>2, <2>3 DEF poll, acceptNewClient
<1>4. ASSUME NEW c \in Client, HangUp(c) PROVE StreamOK' /\ ChannelStep
  <2>1. drop(c) /\ UNCHANGED <<rbuf, down, peer, stage, main, window, state>>
    BY <1>4 DEF HangUp, socketVars, guiVars
  <2> QED  BY <2>1, DeliveredStays, DropStream
<1>5. ASSUME NEW c \in Client, ReadClient(c) PROVE StreamOK' /\ ChannelStep
  <2>1. /\ UNCHANGED <<rbuf, down, peer, stage, main, window, state, Delivered>> /\ ~Ended
        /\ conn[c] \in {"pending", "joined"}
    BY <1>5, DeliveredStays DEF ReadClient, Handling, Watched, guiVars, Ended
  <2>2. CASE drop(c)
    BY <2>1, <2>2, DropStream
  <2>3. CASE up[c] > 0 /\ assign(c)
    <3>1. pushTo({c}) /\ conn' = [conn EXCEPT ![c] = "joined"]
      BY <2>3 DEF assign, pushResponse
    <3>2. Whole' => Whole
      BY <1>0, <2>1, <3>1 DEF Whole, LinkTypes
    <3>3. ASSUME c = gui, peer[gui] # "closed"
          PROVE  Whole /\ pushed[gui] + 1 <= MaxPushed + 3
      <4>1. up[gui] # 0
        BY <1>0, <2>3, <3>3 DEF LinkTypes
      <4>2. pushed[gui] = 1
        BY <2>1, <3>3, <4>1 DEF OpeningOK
      <4> QED  BY <1>0, <2>1, <3>3, <4>2 DEF Whole
    <3> QED  BY <2>1, <3>1, <3>2, <3>3, PushToStream
  <2> QED  BY <1>5, <2>2, <2>3 DEF ReadClient
<1>6. ASSUME NEW c \in Client, StartSend(c) PROVE StreamOK' /\ ChannelStep
  <2>1. UNCHANGED <<rbuf, stage, conn, pushed, main, window, state, down, wbuf, peer>>
    BY <1>6 DEF StartSend, socketVars, guiVars
  <2> QED  BY <2>1, DeliveredStays, QuietStream
<1>7. ASSUME NEW c \in Client, SendSome(c) PROVE StreamOK' /\ ChannelStep
  <2>1. UNCHANGED <<rbuf, stage, conn, pushed, main, window, state, peer, Delivered>>
    BY <1>7, DeliveredStays DEF SendSome, guiVars
  <2>2. CASE c = gui
    <3>1. flow' = flow
      BY <1>7, <2>2, FlowPassesOn
    <3>2. Whole' => Whole /\ pushed'[gui] = pushed[gui]
      BY <2>1 DEF Whole, Ended
    <3> QED  BY <2>1, <3>1, <3>2, StreamStays
  <2>3. CASE c = ai
    <3>1. down'[gui] = down[gui] /\ wbuf'[gui] = wbuf[gui]
      BY <1>0, <1>7, <2>3 DEF SendSome, LinkTypes
    <3> QED  BY <2>1, <3>1, QuietStream
  <2> QED  BY <2>2, <2>3 DEF Client
<1>8. ASSUME NEW c \in Client, SendReturns(c) PROVE StreamOK' /\ ChannelStep
  <2>1. UNCHANGED <<rbuf, down, peer, stage, main, window, state, Delivered>>
    BY <1>8, DeliveredStays DEF SendReturns, socketVars, guiVars
  <2>2. CASE drop(c)
    BY <2>1, <2>2, DropStream
  <2>3. CASE UNCHANGED <<conn, wbuf, pushed>>
    BY <2>1, <2>3, QuietStream
  <2> QED  BY <1>8, <2>2, <2>3 DEF SendReturns
<1>9. CASE Serve
  <2>1. UNCHANGED <<rbuf, conn, down, peer, main, window, state, Delivered>> /\ ~Ended
    BY <1>9, DeliveredStays DEF Serve, socketVars, guiVars, Ended
  <2>2. PICK S : /\ pushTo(S)
                 /\ gui \in S => conn[gui] = "joined" /\ pushed[gui] < MaxPushed
    BY <1>9 DEF Serve, pushResponse
  <2>3. Whole' => Whole
    BY <2>1 DEF Whole
  <2>4. gui \in S /\ peer[gui] # "closed" => Whole /\ pushed[gui] + 1 <= MaxPushed + 3
    BY <1>0, <2>1, <2>2 DEF Whole
  <2> QED  BY <2>1, <2>2, <2>3, <2>4, PushToStream
<1>10. CASE SendDead
  <2>1. UNCHANGED <<rbuf, conn, down, peer, main, window, state, Delivered>> /\ ~Ended /\ pushTo({ai})
    BY <1>10, DeliveredStays DEF SendDead, socketVars, guiVars, Ended
  <2>2. Whole' => Whole
    BY <2>1 DEF Whole
  <2> QED  BY <1>0, <2>1, <2>2, PushToStream
<1>11. CASE DropDead
  <2>1. /\ UNCHANGED <<rbuf, down, peer, main, window, state, Delivered>> /\ ~Ended /\ ~Ended'
        /\ conn' = [conn EXCEPT ![ai] = "dropped"]
    BY <1>11, DeliveredStays DEF DropDead, socketVars, guiVars, Ended
  <2>2. conn'[gui] = conn[gui] /\ conn'[ai] = "dropped"
    BY <1>0, <2>1 DEF LinkTypes
  <2>3. wbuf'[gui] = IF gui \in Guis THEN wbuf[gui] \o Pieces(pushed[gui] + 1) ELSE wbuf[gui]
    BY <1>0, <1>11 DEF DropDead
  <2>4. pushed'[gui] = IF gui \in Guis THEN pushed[gui] + 1 ELSE pushed[gui]
    BY <1>0, <1>11 DEF DropDead
  <2>5. Whole' => Whole
    BY <2>1, <2>2 DEF Whole
  <2>6. pushed'[gui] <= MaxPushed + 3
    BY <1>0, <2>1, <2>2 DEF OpeningOK
  <2>7. gui \in Guis /\ peer[gui] # "closed" => Whole /\ pushed[gui] + 1 <= MaxPushed + 3
    BY <2>1, <2>4, <2>6 DEF Guis, Whole
  <2> QED  BY <2>1, <2>3, <2>4, <2>5, <2>7, PushStream
<1>12. CASE Victory \/ Stop
  <2>1. UNCHANGED <<rbuf, conn, down, peer, main, window, state, Delivered>> /\ Ended' /\ wbuf'[gui] = <<>>
    BY <1>0, <1>12, DeliveredStays DEF Victory, Stop, socketVars, guiVars, Ended
  <2>2. Len(flow') <= Len(flow) /\ \A i \in 1 .. Len(flow') : flow'[i] = flow[i]
    BY <2>1, FlowIsCut
  <2> QED  BY <2>1, <2>2, StreamCut DEF Whole
<1>13. CASE AiReads \/ AiLeaves
  <2>1. UNCHANGED <<rbuf, stage, conn, pushed, main, window, state, wbuf, Delivered>>
    BY <1>13, DeliveredStays DEF AiReads, AiLeaves, aiOpen, serverVars, guiVars
  <2>2. down'[gui] = down[gui] /\ peer'[gui] = peer[gui]
    BY <1>0, <1>13 DEF AiReads, AiLeaves, LinkTypes
  <2> QED  BY <2>1, <2>2, QuietStream
<1>14. CASE Connect
  <2>1. /\ UNCHANGED <<rbuf, stage, conn, pushed, window, state, wbuf, down>>
        /\ main = "start" /\ main' = "welcome" /\ peer'[gui] = "open"
    BY <1>0, <1>14 DEF Connect, serverVars, LinkTypes
  <2>2. peer[gui] # "closed"
    BY <2>1 DEF OpeningOK
  <2>3. UNCHANGED <<flow, Delivered>>
    BY <2>1, <2>2, FlowStays, DeliveredStays
  <2>4. Whole' => Whole /\ pushed'[gui] = pushed[gui]
    BY <2>1, <2>2 DEF Whole, Ended
  <2> QED  BY <2>3, <2>4, StreamStays
<1>15. CASE Fails \/ Join
  <2>1. /\ UNCHANGED <<rbuf, stage, conn, pushed, window, state, wbuf, down>>
        /\ main # "authenticate" /\ main' = "done" /\ peer'[gui] = "closed"
    BY <1>0, <1>15 DEF Fails, Join, serverVars, LinkTypes
  <2>2. Delivered' = Delivered /\ ~Whole'
    BY <2>1, DeliveredStays DEF Whole
  <2>3. Len(flow') <= Len(flow) /\ \A i \in 1 .. Len(flow') : flow'[i] = flow[i]
    BY <2>1, FlowIsCut
  <2> QED  BY <2>2, <2>3, StreamCut
<1>16. CASE readLineBlocking
  <2>1. UNCHANGED <<stage, conn, pushed, window, state, wbuf, peer>> /\ main = "welcome"
    BY <1>16 DEF readLineBlocking, serverVars
  <2>2. ASSUME NEW n \in DOMAIN down[gui], receive(n), UNCHANGED main
        PROVE  StreamOK' /\ ChannelStep
    BY <2>1, <2>2, DeliveredStays, ReadStream
  <2>3. CASE HasLine /\ extractLine /\ main' = "authenticate" /\ UNCHANGED down
    BY <2>1, <2>3, WelcomeArrives
  <2> QED  BY <1>16, <2>2, <2>3 DEF readLineBlocking
<1>17. CASE Authenticate
  <2>1. /\ UNCHANGED <<rbuf, stage, conn, pushed, state, down, wbuf, peer>>
        /\ main = "authenticate" /\ window' = "open"
    BY <1>17 DEF Authenticate, serverVars
  <2>2. window = "none"
    BY <2>1 DEF OpeningOK
  <2>3. Delivered' = Delivered
    BY <2>1, <2>2 DEF Delivered, Welcomed
  <2> QED  BY <2>1, <2>3, QuietStream
<1>18. CASE BeginSnapshot \/ EndSnapshot \/ stop
  <2>1. /\ UNCHANGED <<rbuf, stage, conn, pushed, window, state, down, wbuf, peer>>
        /\ main # "authenticate" /\ main' # "authenticate"
    BY <1>18 DEF BeginSnapshot, EndSnapshot, stop, Rendering, socketVars, serverVars
  <2> QED  BY <2>1, DeliveredStays, QuietStream
<1>19. CASE CloseWindow
  <2>1. /\ UNCHANGED <<rbuf, stage, conn, pushed, main, state, down, wbuf, peer>>
        /\ window = "open" /\ window' = "closed"
    BY <1>19 DEF CloseWindow, socketVars, serverVars
  <2>2. Delivered' = Delivered
    BY <2>1 DEF Delivered, Welcomed
  <2> QED  BY <2>1, <2>2, QuietStream
<1>20. CASE ServerGone \/ LeaveLoop \/ LinesDone
  <2>1. UNCHANGED <<rbuf, stage, conn, pushed, main, window, state, down, wbuf, peer>>
    BY <1>20 DEF ServerGone, LeaveLoop, LinesDone, socketVars, serverVars
  <2> QED  BY <2>1, DeliveredStays, QuietStream
<1>21. CASE receiveData
  <2>1. UNCHANGED <<stage, conn, pushed, main, window, state, wbuf, peer, Delivered>>
    BY <1>21, DeliveredStays DEF receiveData, serverVars
  <2>2. PICK n \in DOMAIN down[gui] : receive(n)
    BY <1>21 DEF receiveData
  <2> QED  BY <2>1, <2>2, ReadStream
<1>22. CASE handleLine
  <2>1. /\ UNCHANGED <<wbuf, down, peer, conn, stage, pushed, main, window>>
        /\ HasLine /\ extractLine /\ thread = "lines"
        /\ state' = [state EXCEPT ![1] = Append(@, LineOf(SubSeq(rbuf, 1, LineEnd)))]
    BY <1>22 DEF handleLine, beginLine, socketVars, serverVars
  <2>2. window # "none"
    BY <2>1 DEF OpeningOK
  <2> QED  BY <2>1, <2>2, AppendArrives
<1>23. CASE LineHandled
  <2>1. /\ UNCHANGED <<rbuf, stage, conn, pushed, main, window, down, wbuf, peer>>
        /\ state'[1] = state[1]
    BY <1>23 DEF LineHandled, socketVars, serverVars, LinkTypes
  <2>2. Delivered' = Delivered
    BY <2>1 DEF Delivered, Welcomed
  <2> QED  BY <2>1, <2>2, QuietStream
<1> QED
  BY <1>1, <1>2, <1>3, <1>4, <1>5, <1>6, <1>7, <1>8, <1>9, <1>10, <1>11, <1>12, <1>13, <1>14, <1>15,
     <1>16, <1>17, <1>18, <1>19, <1>20, <1>21, <1>22, <1>23
  DEF LinkNext, Loop, Fate, Handle, Main, Thread

LEMMA InitStream == LinkInit => StreamOK /\ C!Init
<1> SUFFICES ASSUME LinkInit PROVE StreamOK /\ C!Init
  OBVIOUS
<1>0. gui \in Client /\ gui # ai /\ MaxPushed \in Nat
  BY LinkAssumption DEF Client
<1>1. rbuf = <<>> /\ down[gui] = <<>> /\ wbuf[gui] = <<>> /\ pushed[gui] = 0 /\ peer[gui] = "none"
  BY <1>0 DEF LinkInit
<1>2. flow = <<>>
  BY <1>1 DEF flow
<1>3. PICK z \in Nat : z = 0
  OBVIOUS
<1>4. Carries(flow, z, z, z)
  BY <1>2, <1>3 DEF Carries
<1>5. Delivered = <<>>
  BY DEF LinkInit, Delivered, Welcomed
<1>6. Lines(z, z) = <<>>
  BY <1>3 DEF Lines
<1>7. Streaming(z, z, z)
  BY <1>0, <1>1, <1>3, <1>4, <1>5, <1>6 DEF Streaming
<1>8. StreamOK
  BY <1>3, <1>7 DEF StreamOK
<1>9. LinesIn = Lines(z, z)
  <2>1. LinkTypes
    BY InitOpens
  <2>2. z \in {0, 1}
    BY <1>3
  <2> QED  BY <1>4, <2>1, <2>2, FlowParts, LinesInAre DEF PartsOK
<1> QED  BY <1>5, <1>6, <1>8, <1>9 DEF C!Init, Delivered

(* The inductive invariant. *)
ChannelInv == LinkTypes /\ OpeningOK /\ StreamOK

LEMMA NextChannel == ASSUME ChannelInv, [LinkNext]_linkVars PROVE ChannelInv' /\ ChannelStep
<1>1. LinkTypes' /\ OpeningOK'
  BY NextTypes, NextOpening DEF ChannelInv
<1> QED  BY <1>1, NextStream DEF ChannelInv

(***************************************************************************)
(* However the lines pushed to the graphical client are cut by send() and  *)
(* recv(), and wherever the connection ends, they reach the client's       *)
(* handler whole, once each, in order and without a gap                    *)
(* (Client::sendWriteBuffer, GUIClient::_receiveData and _extractLine).    *)
(***************************************************************************)
THEOREM LinkIsChannel == LinkSpec => KeepsChannel
<1>1. LinkInit => ChannelInv /\ C!Init
  BY InitOpens, InitStream DEF ChannelInv
<1>2. ChannelInv /\ [LinkNext]_linkVars => ChannelInv'
  BY NextChannel
<1>3. ChannelInv /\ [LinkNext]_linkVars => [C!Next]_<<LinesIn, Welcomed \o state[1]>>
  BY NextChannel DEF ChannelStep, Delivered
<1> QED  BY <1>1, <1>2, <1>3, PTL DEF LinkSpec, KeepsChannel, C!Spec
=============================================================================
