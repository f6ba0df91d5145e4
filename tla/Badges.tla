------------------------------- MODULE Badges -------------------------------
(***************************************************************************)
(* The unread badges of the sidebar.  They come from three sources that    *)
(* know nothing of each other: the list of channels that is loaded when    *)
(* the user changes channels, what the notification service pushes, and    *)
(* the channel that is open, which is marked as read.                      *)
(*                                                                         *)
(* AppShell and DashboardView each keep a socket of the same user.  The    *)
(* service writes to the one that was connected last, and AppShell looks   *)
(* at nothing but voice events.                                            *)
(***************************************************************************)
EXTENDS Integers, Sequences

CONSTANT TextChannels

VARIABLES
  count,   \* backend: unread_count
  opened,  \* the channel that is open
  badge,   \* unread of the channels in the sidebar
  asking,  \* the request for the channels, with its answer
  reads,   \* the requests that mark a channel as read
  view,    \* DashboardView's socket is open
  written, \* the socket the service writes to
  said,    \* the channel.focus messages on their way to the service
  focus,   \* what it knows of them
  total,   \* how many unread messages it has ever counted
  pushes,  \* the events on their way to DashboardView
  unsure,  \* the channels whose badge may be missing (see UnreadIsShown)
  moves, happenings  \* how often the user, and others or the network, may act

badgeVars == <<count, opened, badge, asking, reads, view, written, said, focus,
               total, pushes, unsure, moves, happenings>>

NoAsking == [step |-> "none", counts |-> << >>]
Zero == [c \in TextChannels |-> 0]

BadgesInit(n, m) ==
  /\ count = Zero /\ badge = Zero /\ total = Zero
  /\ opened = CHOOSE c \in TextChannels : TRUE
  /\ asking = NoAsking /\ reads = {}
  /\ view = FALSE /\ written = "none" /\ said = << >> /\ focus = "none"
  /\ pushes = << >> /\ unsure = TextChannels
  /\ moves = n /\ happenings = m

Happening == happenings > 0 /\ happenings' = happenings - 1
Read(c, id) == [channel |-> c, id |-> id]

-----------------------------------------------------------------------------
(* The user.                                                               *)

(* Mutant: the channels are loaded once.                                   *)
OpenChannelOnly(c) ==
  /\ c # opened /\ moves > 0 /\ moves' = moves - 1
  /\ opened' = c /\ badge' = [badge EXCEPT ![c] = 0]
  /\ reads' = reads \cup {Read(c, <<"move", moves>>)}
  /\ said' = IF view THEN Append(said, c) ELSE said
  /\ unsure' = {}
  /\ UNCHANGED <<count, asking, view, written, focus, total, pushes, happenings>>

(* The badge goes, the channel is marked as read and focused, and the      *)
(* channels are loaded again instead of any load that is still at work.    *)
OpenChannel(c) ==
  /\ c # opened /\ moves > 0 /\ moves' = moves - 1
  /\ opened' = c /\ badge' = [badge EXCEPT ![c] = 0]
  /\ reads' = reads \cup {Read(c, <<"move", moves>>)}
  /\ said' = IF view THEN Append(said, c) ELSE said
  /\ asking' = [step |-> "asked", counts |-> << >>] /\ unsure' = {}
  /\ UNCHANGED <<count, view, written, focus, total, pushes, happenings>>

ChannelsAreAnswered ==
  /\ asking.step = "asked"
  /\ asking' = [step |-> "answered", counts |-> count]
  /\ UNCHANGED <<count, opened, badge, reads, view, written, said, focus, total,
                 pushes, unsure, moves, happenings>>

ChannelsAreShown ==
  /\ asking.step = "answered"
  /\ badge' = asking.counts /\ asking' = NoAsking
  /\ UNCHANGED <<count, opened, reads, view, written, said, focus, total, pushes,
                 unsure, moves, happenings>>

ChannelsFail ==
  /\ asking.step # "none" /\ Happening
  /\ asking' = NoAsking /\ unsure' = TextChannels
  /\ UNCHANGED <<count, opened, badge, reads, view, written, said, focus, total,
                 pushes, moves>>

ReadIsStored(r) ==
  /\ r \in reads /\ reads' = reads \ {r}
  /\ count' = [count EXCEPT ![r.channel] = 0]
  /\ UNCHANGED <<opened, badge, asking, view, written, said, focus, total, pushes,
                 unsure, moves, happenings>>

(* Nobody is told.                                                         *)
ReadFails(r) ==
  /\ r \in reads /\ Happening
  /\ reads' = reads \ {r}
  /\ UNCHANGED <<count, opened, badge, asking, view, written, said, focus, total,
                 pushes, unsure, moves>>

-----------------------------------------------------------------------------
(* The sockets.                                                            *)

ViewConnects ==
  /\ ~view /\ view' = TRUE /\ written' = "view"
  /\ said' = Append(said, opened)
  /\ UNCHANGED <<count, opened, badge, asking, reads, focus, total, pushes, unsure,
                 moves, happenings>>

ShellConnects ==
  /\ Happening
  /\ written # "shell" /\ written' = "shell"
  /\ UNCHANGED <<count, opened, badge, asking, reads, view, said, focus, total,
                 pushes, unsure, moves>>

(* Whichever socket closes, the service forgets what the user looks at.    *)
ViewCloses ==
  /\ view /\ Happening
  /\ view' = FALSE /\ said' = << >> /\ focus' = "none"
  /\ written' = IF written = "view" THEN "none" ELSE written
  /\ pushes' = << >> /\ unsure' = unsure \cup {pushes[i].channel : i \in DOMAIN pushes}
  /\ UNCHANGED <<count, opened, badge, asking, reads, total, moves>>

ShellCloses ==
  /\ Happening
  /\ focus' = "none"
  /\ written' = IF written = "shell" THEN "none" ELSE written
  /\ UNCHANGED <<count, opened, badge, asking, reads, view, said, total, pushes,
                 unsure, moves>>

FocusArrives ==
  /\ said # << >> /\ said' = Tail(said)
  /\ focus' = Head(said)
  /\ UNCHANGED <<count, opened, badge, asking, reads, view, written, total, pushes,
                 unsure, moves, happenings>>

(* Somebody sends a message to c.  The service pushes it to a user that    *)
(* looks at c, and to another one how many it has counted.                 *)
MessageArrives(c) ==
  /\ Happening
  /\ count' = [count EXCEPT ![c] = @ + 1]
  /\ total' = IF written = "none" \/ focus = c THEN total ELSE [total EXCEPT ![c] = @ + 1]
  /\ IF written = "view"
     THEN /\ pushes' = Append(pushes, [channel |-> c, unread |-> IF focus = c THEN 0 ELSE total'[c]])
          /\ UNCHANGED unsure
     ELSE unsure' = unsure \cup {c} /\ UNCHANGED pushes
  /\ UNCHANGED <<opened, badge, asking, reads, view, written, said, focus, moves>>

(* DashboardView is told of a message, or of the unread ones.  What a load *)
(* at work knows of it is open.                                            *)
PushArrives ==
  /\ pushes # << >> /\ pushes' = Tail(pushes)
  /\ LET p == Head(pushes)
         new == p.unread = 0
     IN /\ badge' = [badge EXCEPT ![p.channel] = IF p.channel = opened THEN (IF new THEN @ ELSE 0)
                                                 ELSE IF new THEN @ + 1 ELSE p.unread]
        /\ reads' = IF new /\ p.channel = opened
                    THEN reads \cup {Read(opened, <<"push", happenings, Len(pushes)>>)} ELSE reads
        /\ unsure' = IF asking.step = "none" THEN unsure ELSE unsure \cup {p.channel}
  /\ UNCHANGED <<count, opened, asking, view, written, said, focus, total, moves,
                 happenings>>

BadgesNext ==
  \/ \E c \in TextChannels : OpenChannel(c)
  \/ ChannelsAreAnswered
  \/ ChannelsAreShown
  \/ ChannelsFail
  \/ \E r \in reads : ReadIsStored(r)
  \/ \E r \in reads : ReadFails(r)
  \/ ViewConnects
  \/ ShellConnects
  \/ ViewCloses
  \/ ShellCloses
  \/ FocusArrives
  \/ \E c \in TextChannels : MessageArrives(c)
  \/ PushArrives

BadgesSpec(n, m) == BadgesInit(n, m) /\ [][BadgesNext]_badgeVars

-----------------------------------------------------------------------------
(* At rest, every channel but the open one that has unread messages has a  *)
(* badge, whatever the service took the user to look at.  The exceptions   *)
(* since the channels were last asked for: an event went to the shell's    *)
(* socket or was lost, it came while that request was at work, or that     *)
(* request failed.                                                         *)
UnreadIsShown ==
  pushes = << >> /\ asking.step = "none" =>
    \A c \in TextChannels \ (unsure \cup {opened}) : count[c] > 0 => badge[c] > 0
=============================================================================
