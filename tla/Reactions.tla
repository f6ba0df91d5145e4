----------------------------- MODULE Reactions -----------------------------
(***************************************************************************)
(* One emoji under one message of the open channel: what the backend       *)
(* stores and what DashboardView shows.  A click on it is answered twice,  *)
(* by the response to the request, which FLIPS what is shown, and by the   *)
(* socket's event, which SETS it.  Additions and removals are announced on *)
(* two topics, so that events come in any order.                           *)
(***************************************************************************)
EXTENDS Integers, FiniteSets

CONSTANTS Me, Others,
          MaxClicks,   \* bound on the user's clicks
          MaxChanges   \* bound on the changes of others, losses and reloads

ASSUME ReactionsAssumption ==
  Me \notin Others /\ IsFiniteSet(Others) /\ MaxClicks \in Nat /\ MaxChanges \in Nat

Everyone == Others \cup {Me}

VARIABLES
  reactors,  \* backend: who has reacted
  shown,     \* the reaction of the message: userIds, count and hasReacted
  calls,     \* the user's requests, whose response is on its way
  news,      \* the events on their way
  settled,   \* how many events were sent, and the last one seen of everyone
  unsure,    \* the users that `shown` may be wrong about (see ShownIsTrue)
  clicks, changes

reactionVars == <<reactors, shown, calls, news, settled, unsure, clicks, changes>>

Nobody == [ids |-> {}, count |-> 0, has |-> FALSE]

ReactionTypeOK ==
  /\ reactors \subseteq Everyone
  /\ shown \in [ids : SUBSET Everyone, count : Nat, has : BOOLEAN]
  /\ calls \in SUBSET (1 .. MaxClicks)
  /\ news \subseteq [mode : {"add", "remove"}, user : Everyone, at : Nat, call : 0 .. MaxClicks]
  /\ settled \in [sent : Nat, seen : [Everyone -> Nat]]
  /\ unsure \subseteq Everyone
  /\ clicks \in 0 .. MaxClicks /\ changes \in 0 .. MaxChanges

(* A message that was loaded: mapReactions.                                *)
Loaded(users) == [ids |-> users, count |-> Cardinality(users), has |-> Me \in users]

ReactionInitAfter(n, m) ==
  /\ reactors \in SUBSET Everyone
  /\ shown = Loaded(reactors)
  /\ calls = {} /\ news = {}
  /\ settled = [sent |-> 0, seen |-> [u \in Everyone |-> 0]]
  /\ unsure = {} /\ clicks = n /\ changes = m

ReactionInit == ReactionInitAfter(0, 0)

-----------------------------------------------------------------------------
(* The backend announces changes of u, in the order it made them.          *)
Announce(u, modes, call) ==
  /\ news' = news \cup {[mode |-> modes[i], user |-> u, at |-> settled.sent + i,
                         call |-> call] : i \in DOMAIN modes}
  /\ settled' = [settled EXCEPT !.sent = @ + Cardinality(DOMAIN modes)]

(* ToggleReaction, which also serves the request to add.                   *)
Toggle(u, call) ==
  IF u \in reactors
  THEN reactors' = reactors \ {u} /\ Announce(u, <<"remove">>, call)
  ELSE reactors' = reactors \cup {u} /\ Announce(u, <<"add">>, call)

(* RemoveReaction undoes the toggle of a reaction that was not there.      *)
TakeBack(u, call) ==
  IF u \in reactors
  THEN reactors' = reactors \ {u} /\ Announce(u, <<"remove">>, call)
  ELSE UNCHANGED reactors /\ Announce(u, <<"add", "remove">>, call)

(* A click asks for what it takes to be the opposite of now.               *)
Click ==
  /\ clicks < MaxClicks /\ clicks' = clicks + 1
  /\ IF shown.has THEN TakeBack(Me, clicks') ELSE Toggle(Me, clicks')
  /\ calls' = calls \cup {clicks'}
  /\ UNCHANGED <<shown, unsure, changes>>

(* Mutant: the count goes up with every response.                          *)
FlippedUp == [ids |-> shown.ids \cup {Me}, count |-> shown.count + 1, has |-> TRUE]

(* What the response makes of the reaction shown at that moment.           *)
Flipped ==
  IF shown.has
  THEN [ids |-> shown.ids \ {Me}, count |-> shown.count - 1, has |-> FALSE]
  ELSE [ids |-> shown.ids \cup {Me}, count |-> shown.count + 1, has |-> TRUE]

(* The response of click k.  It undoes what its own event, or an event     *)
(* that is newer than its click, has set already.                          *)
Returns(k) ==
  /\ k \in calls
  /\ calls' = calls \ {k}
  /\ shown' = Flipped
  /\ unsure' = IF \E e \in news : e.call = k THEN unsure ELSE unsure \cup {Me}
  /\ UNCHANGED <<reactors, news, settled, clicks, changes>>

(* The response is lost; its event will tell.                              *)
Fails(k) ==
  /\ k \in calls
  /\ calls' = calls \ {k}
  /\ UNCHANGED <<reactors, shown, news, settled, unsure, clicks, changes>>

-----------------------------------------------------------------------------
(* Somebody else adds or takes back a reaction.                            *)
OtherToggles(u) ==
  /\ changes < MaxChanges /\ changes' = changes + 1
  /\ Toggle(u, 0)
  /\ UNCHANGED <<shown, calls, unsure, clicks>>

(* Mutant: removals take anybody's reaction away.                          *)
DeltaOfAll(e) == IF e.mode = "add" THEN Loaded(shown.ids \cup {e.user}) ELSE Nobody

(* applyReactionDelta.                                                     *)
Delta(e) ==
  Loaded(IF e.mode = "add" THEN shown.ids \cup {e.user} ELSE shown.ids \ {e.user})

(* An event arrives, too late if a newer one of the same user is there.    *)
EventArrives(e) ==
  /\ e \in news
  /\ news' = news \ {e}
  /\ shown' = Delta(e)
  /\ settled' = [settled EXCEPT !.seen[e.user] = IF @ < e.at THEN e.at ELSE @]
  /\ unsure' = IF e.at < settled.seen[e.user] THEN unsure \cup {e.user} ELSE unsure
  /\ UNCHANGED <<reactors, calls, clicks, changes>>

(* The socket closes.                                                      *)
EventsAreLost ==
  /\ changes < MaxChanges /\ changes' = changes + 1
  /\ news # {}
  /\ news' = {}
  /\ unsure' = unsure \cup {e.user : e \in news}
  /\ UNCHANGED <<reactors, shown, calls, settled, clicks>>

(* The channel is loaded afresh while nothing else is on its way.          *)
Reload ==
  /\ changes < MaxChanges /\ changes' = changes + 1
  /\ news = {} /\ calls = {}
  /\ shown' = Loaded(reactors)
  /\ unsure' = {}
  /\ UNCHANGED <<reactors, calls, news, settled, clicks>>

ReactionNext ==
  \/ Click
  \/ \E k \in calls : Returns(k)
  \/ \E k \in calls : Fails(k)
  \/ \E u \in Others : OtherToggles(u)
  \/ \E e \in news : EventArrives(e)
  \/ EventsAreLost
  \/ Reload

ReactionSpec == ReactionInit /\ [][ReactionNext]_reactionVars

-----------------------------------------------------------------------------
(* The three fields of a reaction, which responses and events write in     *)
(* different ways, always agree, and none goes below zero.                 *)
FieldsAgree ==
  shown.count = Cardinality(shown.ids) /\ (shown.has <=> Me \in shown.ids)

(* When nothing is on its way, everybody's reaction is shown as the        *)
(* backend has it, and clicks of the user never touch anybody else's.  The *)
(* exceptions: events that were lost or overtaken by newer ones, and the   *)
(* user's own reaction when its event came before its response.            *)
ShownIsTrue ==
  calls = {} /\ news = {} =>
     \A u \in Everyone \ unsure : u \in shown.ids <=> u \in reactors
=============================================================================
