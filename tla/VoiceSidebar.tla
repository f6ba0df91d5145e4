---------------------------- MODULE VoiceSidebar ----------------------------
(***************************************************************************)
(* Who the sidebar shows in each voice channel (voiceActivityByChannel),   *)
(* composed with the joins and leaves of Voice.  The picture is written by *)
(* four hands that know nothing of each other: the events of the           *)
(* notification socket, a poll of the backend every 30 seconds, the        *)
(* participants of the room the user is in, and the leave handler.         *)
(***************************************************************************)
EXTENDS Voice, Sequences, SequencesExt

CONSTANTS Servers,       \* the servers of the user
          ServerOf,      \* the server of each voice channel
          Me, Other,     \* the user, and somebody else
          MaxMoves,      \* bound on the moves of the other user
          MaxVisits      \* bound on the switches between servers

ASSUME SidebarAssumption == ServerOf \in [Channels -> Servers]

VARIABLES
  server,     \* activeServerId
  other,      \* the voice channel the other user is in, or NoChannel
  activity,   \* voiceActivityByChannel: the users shown in each channel
  events,     \* the updates on their way to the notification socket
  polls,      \* the answers to polls on their way: the server, who was where
  moves, visits

sidebarVars == <<server, other, activity, events, polls, moves, visits>>
allVars == <<vars, sidebarVars>>

(* LiveKit's participants of c, as the backend reports them.               *)
People(c, rooms, who) ==
  (IF who = c THEN {Other} ELSE {})
    \cup (IF \E a \in Presses : press[a].channel = c /\ rooms[a] = "live"
          THEN {Me} ELSE {})

SidebarInitAfter(n, m, v) ==
  /\ InitAfter(n)
  /\ server \in {ServerOf[c] : c \in Channels}
  /\ other = NoChannel
  /\ activity = [c \in Channels |-> {}]
  /\ events = <<>> /\ polls = {}
  /\ moves = m /\ visits = v

SidebarInit == SidebarInitAfter(0, 0, 0)

-----------------------------------------------------------------------------
(* The channels whose participants differ after the step: the backend      *)
(* sends an update for each.                                               *)
Changed == {c \in Channels : People(c, room, other) # People(c, room', other')}

Publish ==
  LET changed == SetToSeq(Changed)
  IN events' = events \o
       [i \in DOMAIN changed |->
          [channel |-> changed[i], people |-> People(changed[i], room', other')]]

(* syncCurrentRoomActivity: the channel shown gets the people of its room, *)
(* when the room comes up and at every change of its participants.  A      *)
(* leave empties the channel it left, whoever else is there.               *)
LeftNow == {press[a].of : a \in {b \in Presses :
              press[b].step = "closeShown" /\ press'[b].step # "closeShown"}}

SyncCurrentRoom ==
  activity' = [c \in Channels |->
     CASE \E r \in LeftNow : mounted /\ press[r].channel = c -> {}
       [] /\ \A r \in LeftNow : press[r].channel # c
          /\ mounted' /\ shown' # 0 /\ press[shown'].channel = c
          /\ shown' # shown \/ c \in Changed
          -> People(c, room', other')
       [] OTHER -> activity[c]]

(* The joins, the leaves and their handlers, with what they do to the      *)
(* sidebar.  A join is for a channel of the active server.                 *)
VoiceStep(step) ==
  /\ step
  /\ UNCHANGED <<server, other, polls, moves, visits>>
  /\ Publish
  /\ SyncCurrentRoom

Join(c) == ServerOf[c] = server /\ VoiceStep(JoinVoiceChannel(c))

(* The other user joins, leaves or changes channel.                        *)
OtherMoves(c) ==
  /\ moves < MaxMoves /\ moves' = moves + 1
  /\ other' = c /\ c # other
  /\ UNCHANGED vars
  /\ Publish
  /\ SyncCurrentRoom
  /\ UNCHANGED <<server, polls, visits>>

-----------------------------------------------------------------------------
(* Another server becomes active.  The effect that owns the socket runs    *)
(* again, because the handler it captured depends on the active server:    *)
(* the socket is closed with what is on its way, and opened anew.          *)
SelectServer(s) ==
  /\ mounted /\ s # server
  /\ visits < MaxVisits /\ visits' = visits + 1
  /\ server' = s
  /\ events' = <<>>
  /\ UNCHANGED <<vars, other, activity, polls, moves>>

(* The socket is lost with what is on its way, or was not open: nothing    *)
(* asks for the updates again when it reconnects.                          *)
UpdatesAreLost ==
  /\ events # <<>>
  /\ events' = <<>>
  /\ UNCHANGED <<vars, server, other, activity, polls, moves, visits>>

(* onSocketMessage: applyVoiceChannelActivityUpdate drops the update of a  *)
(* server that is not the active one.                                      *)
UpdateArrives ==
  /\ events # <<>>
  /\ events' = Tail(events)
  /\ activity' = LET e == Head(events)
                 IN IF mounted /\ ServerOf[e.channel] = server
                    THEN [activity EXCEPT ![e.channel] = e.people]
                    ELSE activity
  /\ UNCHANGED <<vars, server, other, polls, moves, visits>>

(* Mutant: the poll only fills in channels that show nobody.               *)
PollArrivesForTheEmpty(s) ==
  /\ \E p \in polls :
       /\ p.server = s
       /\ polls' = polls \ {p}
       /\ activity' = [c \in Channels |->
            IF mounted /\ ServerOf[c] = s /\ activity[c] = {}
            THEN p.seen[c] ELSE activity[c]]
  /\ UNCHANGED <<vars, server, other, events, moves, visits>>

(* refreshVoiceSidebarActivity, run when a server becomes active and every *)
(* 30 seconds: the backend answers for the voice channels of the server,   *)
(* and the answer is written whatever was written since and whichever      *)
(* server is active by then.                                               *)
PollIsAnswered ==
  /\ mounted
  /\ \A p \in polls : p.server # server
  /\ polls' = polls \cup
       {[server |-> server, seen |-> [c \in Channels |-> People(c, room, other)]]}
  /\ UNCHANGED <<vars, server, other, activity, events, moves, visits>>

PollArrives(s) ==
  /\ \E p \in polls :
       /\ p.server = s
       /\ polls' = polls \ {p}
       /\ activity' = [c \in Channels |->
            IF mounted /\ ServerOf[c] = s THEN p.seen[c] ELSE activity[c]]
  /\ UNCHANGED <<vars, server, other, events, moves, visits>>

-----------------------------------------------------------------------------
SidebarNext ==
  \/ \E c \in Channels : Join(c)
  \/ VoiceStep(LeaveVoiceChannel)
  \/ VoiceStep(Unmount)
  \/ \E a \in Presses : VoiceStep(Handler(a))
  \/ \E r \in Presses : VoiceStep(RoomEnds(r))
  \/ \E c \in Channels \cup {NoChannel} : OtherMoves(c)
  \/ \E s \in Servers : SelectServer(s)
  \/ UpdatesAreLost
  \/ UpdateArrives
  \/ PollIsAnswered
  \/ \E s \in Servers : PollArrives(s)

(* The timer runs, and requests and events are delivered in the end.       *)
SidebarFairness ==
  /\ \A a \in Presses : /\ WF_allVars(VoiceStep(Handler(a)))
                        /\ WF_allVars(VoiceStep(RoomCloses(a)))
  /\ WF_allVars(UpdateArrives)
  /\ WF_allVars(PollIsAnswered)
  /\ \A s \in Servers : WF_allVars(PollArrives(s))

SidebarSpec == SidebarInit /\ [][SidebarNext]_allVars /\ SidebarFairness

-----------------------------------------------------------------------------
(* Once nobody moves any more, the sidebar of the active server shows who  *)
(* is in its voice channels and keeps showing it: updates that were lost,  *)
(* dropped for another server or overwritten by a late poll, and the       *)
(* channel a leave emptied, are all repaired by a later poll.              *)
SidebarCatchesUp ==
  <>[](mounted => \A c \in Channels : ServerOf[c] = server =>
                     activity[c] = People(c, room, other))
=============================================================================
