-------------------------------- MODULE Chat --------------------------------
(***************************************************************************)
(* One text channel as DashboardView.tsx shows it to one user: the page of *)
(* messages loaded when the channel is opened, the older pages loaded by   *)
(* scrolling, the events of the notification socket, and what the user     *)
(* sends and deletes, all of them asynchronous and all writing the same    *)
(* list.                                                                   *)
(*                                                                         *)
(* Messages are numbered in the order the backend stores them.  Events     *)
(* come from several topics, published by requests that run concurrently,  *)
(* and each new message is announced twice to a user who has the channel   *)
(* in focus: they are a set, delivered in any order.                       *)
(***************************************************************************)
EXTENDS Integers, FiniteSets, Sequences, SequencesExt

CONSTANTS PageSize,     \* the limit of getMessages
          MaxMessages,  \* bound on the messages of the channel
          Budgets       \* how often each thing may happen, one per scenario

ASSUME ChatAssumption ==
  /\ PageSize \in Nat \ {0} /\ MaxMessages \in Nat
  /\ \A b \in Budgets : b.stored \in 0 .. MaxMessages

VARIABLES
  created,  \* backend: messages 1 .. created were stored
  deleted,  \* backend: the messages deleted since
  mine,     \* the messages the user sent from here
  view,     \* the page: "away" from the chat, in an "other" channel, "open"
  online,   \* the socket is open
  events,   \* on their way through the socket
  list,     \* messagesByChannel[channel]
  paging,   \* pagingByChannel[channel]
  load,     \* the request for the first page of the open channel
  more,     \* the requests for older pages
  sent,     \* the messages stored whose response is on its way
  erased,   \* the messages deleted from here whose response is on its way
  typing,   \* somebody is shown as typing, and a timer will end that
  stale,    \* the messages the list cannot be right about (see ListMatchesLog)
  floor,    \* the oldest message of the first page
  outlived, \* an older page, or the news of an older message, outlived the list
            \* it was made for
  budget

server == <<created, deleted, mine>>
requests == <<load, more, sent, erased>>
vars == <<server, view, online, events, list, paging, requests, typing, stale,
          floor, outlived, budget>>

Messages == 1 .. MaxMessages
NotPaged == [offset |-> 0, hasMore |-> FALSE, loading |-> FALSE]
NoLoad == [step |-> "none", items |-> <<>>, seen |-> {}]
Kinds == {"posts", "sends", "deletes", "drops", "opens", "scrolls", "types"}

Alive == (1 .. created) \ deleted

Init ==
  /\ \E b \in Budgets : created = b.stored /\ budget = [k \in Kinds |-> b[k]]
  /\ deleted = {} /\ mine = {}
  /\ view = "away" /\ online = FALSE /\ events = {}
  /\ list = <<>> /\ paging = NotPaged
  /\ load = NoLoad /\ more = {} /\ sent = {} /\ erased = {}
  /\ typing = [shown |-> FALSE, timer |-> FALSE]
  /\ stale = {} /\ floor = 0 /\ outlived = FALSE

Spend(k) == budget[k] > 0 /\ budget' = [budget EXCEPT ![k] = @ - 1]

-----------------------------------------------------------------------------
(* The numbers of a set from the smallest on, and what a sequence has at   *)
(* some of its places.                                                     *)
Nth(S, k) == CHOOSE x \in S : Cardinality({y \in S : y <= x}) = k
InOrder(S) == [k \in 1 .. Cardinality(S) |-> Nth(S, k)]
Picked(s, places) == [k \in 1 .. Cardinality(places) |-> s[Nth(places, k)]]

(* getMessages: the page that leaves out the newest `offset` messages,     *)
(* oldest first.                                                           *)
Newer(m) == {n \in Alive : n > m}
Page(offset) ==
  InOrder({m \in Alive : Cardinality(Newer(m)) \in offset .. offset + PageSize - 1})

(* Mutant: the next page starts one message too far.                       *)
PagedOneTooFar(offset, items) ==
  [offset |-> offset + PageSize + 1, hasMore |-> Len(items) = PageSize,
   loading |-> FALSE]

Paged(offset, items) ==
  [offset |-> offset + Len(items), hasMore |-> Len(items) = PageSize,
   loading |-> FALSE]

Without(s, m) == Picked(s, {i \in DOMAIN s : s[i] # m})

(* Of equal messages the first one stays.                                  *)
Deduped(s) == Picked(s, {i \in DOMAIN s : \A j \in 1 .. i - 1 : s[j] # s[i]})

(* The backend tells the user's socket, if there is one.                   *)
Publish(announced, m) ==
  IF online THEN events' = events \cup announced /\ UNCHANGED stale
            ELSE stale' = stale \cup {m} /\ UNCHANGED events

InFlight(kinds, m) == \E e \in events : e.kind \in kinds /\ e.message = m

-----------------------------------------------------------------------------
(* What happens to the channel elsewhere.                                  *)

Announcement(m) ==
  {[kind |-> k, message |-> m] : k \in {"popup"} \cup
     (IF view = "open" THEN {"created"} ELSE {})}

(* Somebody posts.                                                         *)
Post ==
  /\ created < MaxMessages
  /\ Spend("posts")
  /\ created' = created + 1
  /\ Publish(Announcement(created'), created')
  /\ UNCHANGED <<deleted, mine, view, online, list, paging, requests, typing,
                 floor, outlived>>

(* Somebody deletes a message of theirs.                                   *)
DeleteElsewhere(m) ==
  /\ m \in Alive \ mine
  /\ Spend("deletes")
  /\ deleted' = deleted \cup {m}
  /\ Publish({[kind |-> "deleted", message |-> m]}, m)
  /\ UNCHANGED <<created, mine, view, online, list, paging, requests, typing,
                 floor, outlived>>

-----------------------------------------------------------------------------
(* The socket of the view.                                                 *)

Connect ==
  /\ view # "away" /\ ~online
  /\ online' = TRUE
  /\ UNCHANGED <<server, view, events, list, paging, requests, typing, stale,
                 floor, outlived, budget>>

(* The socket closes with what is on its way; nothing asks for it later.   *)
LoseEvents ==
  /\ online' = FALSE
  /\ events' = {}
  /\ stale' = stale \cup {e.message : e \in events}

Disconnect ==
  /\ online
  /\ Spend("drops")
  /\ LoseEvents
  /\ UNCHANGED <<server, view, list, paging, requests, typing, floor, outlived>>

(* Mutant: the new message is appended whether or not it is there.         *)
CreatedArrivesTwice(m) ==
  /\ \E k \in {"popup", "created"} :
       /\ InFlight({k}, m)
       /\ events' = events \ {[kind |-> k, message |-> m]}
       /\ list' = Append(list, m)
       /\ UNCHANGED stale
  /\ UNCHANGED <<server, view, online, paging, requests, typing, floor,
                 outlived, budget>>

(* onSocketMessage for a new message: appended unless it is in the list.   *)
(* One that was deleted before it arrives stays, unless the deletion is    *)
(* still to come.                                                          *)
CreatedArrives(m) ==
  /\ \E k \in {"popup", "created"} :
       /\ InFlight({k}, m)
       /\ events' = events \ {[kind |-> k, message |-> m]}
  /\ list' = IF Contains(list, m) THEN list ELSE Append(list, m)
  /\ stale' = IF m \in deleted /\ ~InFlight({"deleted"}, m)
              THEN stale \cup {m} ELSE stale
  /\ outlived' = (outlived \/ m < floor)
  /\ UNCHANGED <<server, view, online, paging, requests, typing, floor, budget>>

(* Mutant: deletions are only applied to the channel on the screen.        *)
DeletedArrivesIfOpen(m) ==
  /\ InFlight({"deleted"}, m)
  /\ events' = events \ {[kind |-> "deleted", message |-> m]}
  /\ list' = IF view = "open" THEN Without(list, m) ELSE list
  /\ UNCHANGED <<server, view, online, paging, requests, typing, stale, floor,
                 outlived, budget>>

DeletedArrives(m) ==
  /\ InFlight({"deleted"}, m)
  /\ events' = events \ {[kind |-> "deleted", message |-> m]}
  /\ list' = Without(list, m)
  /\ UNCHANGED <<server, view, online, paging, requests, typing, stale, floor,
                 outlived, budget>>

-----------------------------------------------------------------------------
(* The user opens the channel, from another one or from another page.      *)
OpenChannel ==
  /\ view # "open"
  /\ Spend("opens")
  /\ view' = "open"
  /\ load' = [NoLoad EXCEPT !.step = "asked"]
  /\ UNCHANGED <<server, online, events, list, paging, more, sent, erased,
                 typing, stale, floor, outlived>>

(* Another channel is opened: the first page is not waited for any more.   *)
LeaveChannel ==
  /\ view = "open"
  /\ view' = "other"
  /\ load' = NoLoad
  /\ UNCHANGED <<server, online, events, list, paging, more, sent, erased,
                 typing, stale, floor, outlived, budget>>

(* The chat leaves the page, and its state, timers and socket with it.     *)
Unmount ==
  /\ view # "away"
  /\ view' = "away"
  /\ LoseEvents
  /\ list' = <<>> /\ paging' = NotPaged
  /\ load' = NoLoad /\ more' = {} /\ sent' = {} /\ erased' = {}
  /\ typing' = [shown |-> FALSE, timer |-> FALSE]
  /\ floor' = 0 /\ outlived' = FALSE
  /\ UNCHANGED <<server, budget>>

-----------------------------------------------------------------------------
(* loadInitialMessages.                                                    *)

LoadIsAnswered ==
  /\ load.step = "asked"
  /\ load' = [step |-> "answered", items |-> Page(0), seen |-> Alive]
  /\ UNCHANGED <<server, view, online, events, list, paging, more, sent,
                 erased, typing, stale, floor, outlived, budget>>

(* The page REPLACES the list.  What changed since the backend answered is *)
(* undone by it, unless the news of it is still to come.                   *)
LoadArrives ==
  /\ load.step = "answered"
  /\ load' = NoLoad
  /\ list' = load.items
  /\ paging' = Paged(0, load.items)
  /\ floor' = IF Len(load.items) = PageSize THEN load.items[1] ELSE 1
  /\ stale' = {m \in Messages :
       \/ m \in Alive \ load.seen /\ m \notin sent
            /\ ~InFlight({"popup", "created"}, m)
       \/ m \in deleted /\ m \notin erased /\ ~InFlight({"deleted"}, m)
            /\ \/ m \in load.seen
               \/ m \in sent \/ InFlight({"popup", "created"}, m)}
  /\ outlived' = (more # {})
  /\ UNCHANGED <<server, view, online, events, more, sent, erased, typing,
                 budget>>

LoadFails ==
  /\ load.step # "none"
  /\ load' = NoLoad
  /\ UNCHANGED <<server, view, online, events, list, paging, more, sent,
                 erased, typing, stale, floor, outlived, budget>>

(* handleScrollToLoadMore: at the top of the list, unless there is nothing *)
(* older or a request is already at work.                                  *)
ScrollUp ==
  /\ view = "open" /\ paging.hasMore /\ ~paging.loading
  /\ Spend("scrolls")
  /\ paging' = [paging EXCEPT !.loading = TRUE]
  /\ more' = more \cup {[id |-> budget["scrolls"], offset |-> paging.offset]}
  /\ UNCHANGED <<server, view, online, events, list, load, sent, erased,
                 typing, stale, floor, outlived>>

(* The older page is put in front of whatever the list has become.         *)
MoreArrives(r) ==
  /\ r \in more
  /\ more' = more \ {r}
  /\ list' = Deduped(Page(r.offset) \o list)
  /\ paging' = Paged(r.offset, Page(r.offset))
  /\ UNCHANGED <<server, view, online, events, load, sent, erased, typing,
                 stale, floor, outlived, budget>>

(* Nothing catches the error: isLoadingMore stays.                         *)
MoreFails(r) ==
  /\ r \in more
  /\ more' = more \ {r}
  /\ UNCHANGED <<server, view, online, events, list, paging, load, sent,
                 erased, typing, stale, floor, outlived, budget>>

-----------------------------------------------------------------------------
(* onSend, and the backend stores the message.                             *)
Send ==
  /\ view = "open" /\ created < MaxMessages
  /\ Spend("sends")
  /\ created' = created + 1
  /\ mine' = mine \cup {created'}
  /\ sent' = sent \cup {created'}
  /\ Publish(Announcement(created'), created')
  /\ UNCHANGED <<deleted, view, online, list, paging, load, more, erased,
                 typing, floor, outlived>>

(* The response: the message is appended, the event may have done so too.  *)
SendReturns(m) ==
  /\ m \in sent
  /\ sent' = sent \ {m}
  /\ list' = Append(list, m)
  /\ stale' = CASE m \notin deleted -> stale \ {m}
                [] m \in deleted /\ m \notin erased
                     /\ ~InFlight({"deleted"}, m) -> stale \cup {m}
                [] OTHER -> stale
  /\ outlived' = (outlived \/ m < floor)
  /\ UNCHANGED <<server, view, online, events, paging, load, more, erased,
                 typing, floor, budget>>

(* The response is lost: an error is shown although the message is stored. *)
SendFails(m) ==
  /\ m \in sent
  /\ sent' = sent \ {m}
  /\ stale' = IF Contains(list, m) \/ InFlight({"popup", "created"}, m)
                 \/ m \in deleted
              THEN stale ELSE stale \cup {m}
  /\ UNCHANGED <<server, view, online, events, list, paging, load, more,
                 erased, typing, floor, outlived, budget>>

(* handleMessageAction 'delete' on a message of the user in the list.      *)
Delete(m) ==
  /\ view = "open" /\ Contains(list, m) /\ m \in Alive \cap mine
  /\ Spend("deletes")
  /\ deleted' = deleted \cup {m}
  /\ erased' = erased \cup {m}
  /\ Publish({[kind |-> "deleted", message |-> m]}, m)
  /\ UNCHANGED <<created, mine, view, online, list, paging, load, more, sent,
                 typing, floor, outlived>>

DeleteReturns(m) ==
  /\ m \in erased
  /\ erased' = erased \ {m}
  /\ list' = Without(list, m)
  /\ UNCHANGED <<server, view, online, events, paging, load, more, sent,
                 typing, stale, floor, outlived, budget>>

-----------------------------------------------------------------------------
(* Mutant: a second start finds the old timer and leaves it cleared.       *)
TypingStartsOnce ==
  /\ online /\ Spend("types")
  /\ typing' = [shown |-> TRUE, timer |-> ~typing.timer]
  /\ UNCHANGED <<server, view, online, events, list, paging, requests, stale,
                 floor, outlived>>

(* TYPING.START shows the user, and a new timer takes the old one's place. *)
TypingStarts ==
  /\ online /\ Spend("types")
  /\ typing' = [shown |-> TRUE, timer |-> TRUE]
  /\ UNCHANGED <<server, view, online, events, list, paging, requests, stale,
                 floor, outlived>>

(* TYPING.STOP, or three seconds.                                          *)
TypingStops ==
  /\ \/ online /\ typing.shown
     \/ typing.timer
  /\ typing' = [shown |-> FALSE, timer |-> FALSE]
  /\ UNCHANGED <<server, view, online, events, list, paging, requests, stale,
                 floor, outlived, budget>>

TypingTimer == typing.timer /\ TypingStops

-----------------------------------------------------------------------------
Next ==
  \/ Post
  \/ \E m \in Messages : DeleteElsewhere(m)
  \/ Connect
  \/ Disconnect
  \/ \E m \in Messages : CreatedArrives(m)
  \/ \E m \in Messages : DeletedArrives(m)
  \/ OpenChannel
  \/ LeaveChannel
  \/ Unmount
  \/ LoadIsAnswered
  \/ LoadArrives
  \/ LoadFails
  \/ ScrollUp
  \/ \E r \in more : MoreArrives(r)
  \/ \E r \in more : MoreFails(r)
  \/ Send
  \/ \E m \in Messages : SendReturns(m)
  \/ \E m \in Messages : SendFails(m)
  \/ \E m \in Messages : Delete(m)
  \/ \E m \in Messages : DeleteReturns(m)
  \/ TypingStarts
  \/ TypingStops

(* Only the browser's timer is needed.                                     *)
Spec == Init /\ [][Next]_vars /\ WF_vars(TypingTimer)

-----------------------------------------------------------------------------
Quiet == events = {} /\ load = NoLoad /\ more = {} /\ sent = {} /\ erased = {}

(* When nothing is on its way, the list holds the messages of the channel  *)
(* from its first page on, no more and no fewer.  The exceptions are the   *)
(* messages in `stale`: what the socket lost, what a late first page       *)
(* overwrote, and what was announced after it had been deleted.            *)
ListMatchesLog ==
  Quiet => \A m \in floor .. created :
     (m # 0 /\ m \notin stale /\ floor # 0) => (Contains(list, m) <=> m \in Alive)

(* A message is in the list twice only if the user sent it from here.      *)
TwiceOnlyOwn ==
  \A i, j \in DOMAIN list : list[i] = list[j] => i = j \/ list[i] \in mine

(* The history has no holes: new messages shift the pages, and the overlap *)
(* is dropped.  Deletions shift them the other way, and what was asked for *)
(* or sent before the list was loaded afresh, an older page or the news of *)
(* a message from before the first page, is put where it does not belong:  *)
(* those leave holes.                                                      *)
NoHoles ==
  deleted = {} /\ ~outlived /\ floor # 0 =>
     \A m \in Messages : m < floor /\ (\E n \in 1 .. m : Contains(list, n))
                           => Contains(list, m)

(* Nobody is shown typing for ever, even when the stop is lost.            *)
TypingEnds == []<>~typing.shown
=============================================================================
