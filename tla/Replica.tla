------------------------------ MODULE Replica ------------------------------
(***************************************************************************)
(* What a stream of updates promises: a truth that changes at will, a copy *)
(* of it somewhere else, and a log of updates between the two that is      *)
(* worked off in order.  Until the copy goes live nothing is sent; then    *)
(* the first batch of updates says everything the copy does not have, and  *)
(* from then on each change is published together with the update that     *)
(* announces it.                                                           *)
(*                                                                         *)
(* An update gives each item the set of its new values: the one it has     *)
(* now, or none when it says nothing of it.                                *)
(*                                                                         *)
(* Gui.tla implements this module (the game is the truth, the GameState of *)
(* a graphical client the copy); GuiProofs.tla proves that it does, and    *)
(* that the copy converges.                                                *)
(***************************************************************************)
EXTENDS Integers, Sequences

CONSTANTS Item, Value

VARIABLES
  truth,            \* the value of each item
  live,             \* whether the copy is being kept
  log,              \* the updates on their way, oldest first
  copy              \* the value of each item where the copy is kept

vars == <<truth, live, log, copy>>

Update == [Item -> SUBSET Value]

(* The updates in s say something of item i, or in the end that it is v. *)
Told(s, i) == \E k \in DOMAIN s : s[k][i] # {}

Says(s, i, v) ==
  \E k \in DOMAIN s :
    /\ s[k][i] = {v}
    /\ \A j \in DOMAIN s : j > k => s[j][i] = {}

(* Taken in after the updates in s, old becomes new. *)
Leads(s, old, new) ==
  \A i \in Item : IF Told(s, i) THEN Says(s, i, new[i]) ELSE old[i] = new[i]

-----------------------------------------------------------------------------
Init ==
  /\ truth \in [Item -> Value]
  /\ live = FALSE
  /\ log = <<>>
  /\ copy \in [Item -> Value]

Change ==
  /\ ~live
  /\ truth' \in [Item -> Value]
  /\ UNCHANGED <<live, log, copy>>

GoLive ==
  /\ ~live
  /\ live' = TRUE
  /\ log' \in Seq(Update)
  /\ Leads(log', copy, truth)
  /\ UNCHANGED <<truth, copy>>

News == SubSeq(log', Len(log) + 1, Len(log'))

Publish ==
  /\ live
  /\ truth' \in [Item -> Value]
  /\ log' \in Seq(Update)
  /\ Len(log) <= Len(log')
  /\ log' = log \o News
  /\ Leads(News, truth, truth')
  /\ UNCHANGED <<live, copy>>

Deliver ==
  /\ log # <<>>
  /\ log' = Tail(log)
  /\ copy' \in [Item -> Value]
  /\ \A i \in Item : IF Head(log)[i] = {} THEN copy'[i] = copy[i]
                                          ELSE copy'[i] \in Head(log)[i]
  /\ UNCHANGED <<truth, live>>

Next == Change \/ GoLive \/ Publish \/ Deliver

Spec == Init /\ [][Next]_vars

-----------------------------------------------------------------------------
TypeOK ==
  /\ truth \in [Item -> Value]
  /\ live \in BOOLEAN
  /\ log \in Seq(Update)
  /\ copy \in [Item -> Value]

(* What the copy holds and what is on its way amount to the truth. *)
Converges == live => Leads(log, copy, truth)

(* A live copy that nothing is on its way to is the truth. *)
CaughtUp == live /\ log = <<>> => copy = truth
=============================================================================
