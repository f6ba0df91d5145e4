------------------------------- MODULE Voice -------------------------------
(***************************************************************************)
(* Joining and leaving voice channels in the application shell             *)
(* (AppShell.tsx).  A join is a long asynchronous handler: it leaves the   *)
(* room the user is in, asks the backend for a token, and tries to connect *)
(* a LiveKit room to each of its targets.  A second join, a leave or the   *)
(* end of the shell may come between any two of its awaits.                *)
(*                                                                         *)
(* voiceJoinAttemptRef counts the joins and the leaves, so a press is      *)
(* named by the value the counter takes with it, and the room that a join  *)
(* creates is named by its press.  Between the end of an await and the     *)
(* next one no other handler runs: each action is one such stretch.        *)
(***************************************************************************)
EXTENDS Integers

CONSTANTS Channels,      \* the voice channels
          NoChannel,     \* joinVoiceInFlightRef.current = null
          MaxPresses,    \* bound on the presses of join and leave
          NumTargets     \* the addresses buildConnectTargets returns

ASSUME VoiceAssumption == /\ NoChannel \notin Channels
                          /\ MaxPresses \in Nat
                          /\ NumTargets \in Nat \ {0}

VARIABLES
  mounted,     \* the shell is on the page
  attempt,     \* voiceJoinAttemptRef.current
  connecting,  \* isVoiceConnecting
  inFlight,    \* joinVoiceInFlightRef.current: the channel of a join at work
  pending,     \* pendingVoiceRoomRef.current, 0 for null
  shown,       \* the room of voiceState, 0 for null
  press,       \* the handlers: what each press is doing
  room         \* LiveKit: the state of the room of each join

vars == <<mounted, attempt, connecting, inFlight, pending, shown, press, room>>

Presses == 1 .. MaxPresses

(* Where a handler waits, "idle" before its press and "done" after it.     *)
Steps == {"idle", "closePending", "closeShown", "token", "connect", "drop",
          "discard", "done"}

Press == [kind : {"none", "join", "leave"},
          channel : Channels \cup {NoChannel},
          step : Steps,
          of : 0 .. MaxPresses,        \* the room whose end it waits for
          targets : 0 .. NumTargets]   \* the addresses not tried yet

Unpressed == [kind |-> "none", channel |-> NoChannel, step |-> "idle",
              of |-> 0, targets |-> 0]

TypeOK ==
  /\ mounted \in BOOLEAN /\ connecting \in BOOLEAN
  /\ attempt \in 0 .. MaxPresses
  /\ inFlight \in Channels \cup {NoChannel}
  /\ pending \in 0 .. MaxPresses /\ shown \in 0 .. MaxPresses
  /\ press \in [Presses -> Press]
  /\ room \in [Presses -> {"none", "idle", "connecting", "live", "closing"}]

(* After n leaves that had nothing to leave.                               *)
InitAfter(n) ==
  /\ mounted = TRUE /\ attempt = n /\ connecting = FALSE
  /\ inFlight = NoChannel /\ pending = 0 /\ shown = 0
  /\ press = [a \in Presses |->
       IF a <= n THEN [Unpressed EXCEPT !.kind = "leave", !.step = "done"]
                 ELSE Unpressed]
  /\ room = [a \in Presses |-> "none"]

Init == InitAfter(0)

-----------------------------------------------------------------------------
(* What several handlers do.                                               *)

(* room.disconnect(): a room that is connecting or live begins to close.   *)
Disconnect(rooms, r) ==
  IF rooms[r] \in {"connecting", "live"} THEN [rooms EXCEPT ![r] = "closing"]
                                         ELSE rooms

Closed(r) == room[r] \in {"none", "idle"}

(* Mutant: a press never notices that another one has overtaken it.        *)
IsLatestAlways(a) == a \in Presses

(* What every step of a join asks after its await.                         *)
IsLatest(a) == attempt = a

(* Mutant: the spinner is forgotten.                                       *)
FinallyWithoutSpinner(a) ==
  /\ pending' = IF attempt = a THEN 0 ELSE pending
  /\ inFlight' = IF inFlight = press[a].channel THEN NoChannel ELSE inFlight
  /\ UNCHANGED connecting

(* The finally block of joinVoiceChannel: what a join still owns is        *)
(* released, the spinner only by the join that is the latest press.        *)
Finally(a) ==
  /\ pending' = IF IsLatest(a) THEN 0 ELSE pending
  /\ inFlight' = IF inFlight = press[a].channel THEN NoChannel ELSE inFlight
  /\ connecting' = IF IsLatest(a) /\ mounted THEN FALSE ELSE connecting

Goto(a, step) == press' = [press EXCEPT ![a].step = step]

Await(a, step, r) == press' = [press EXCEPT ![a].step = step, ![a].of = r]

(* Mutant: the room being connected is let go without hanging it up.       *)
LeaveFromForgetting(p, a) ==
  IF pending # 0 THEN /\ press' = [p EXCEPT ![a].step = "closePending",
                                            ![a].of = pending]
                      /\ pending' = 0 /\ UNCHANGED room
                 ELSE /\ press' = [p EXCEPT ![a].step = "done"]
                      /\ UNCHANGED <<pending, room>>

(* handleLeaveVoiceChannel, up to its first await: the room being          *)
(* connected goes first, the one shown after it.                           *)
LeaveFrom(p, a) ==
  CASE pending # 0 ->
         /\ press' = [p EXCEPT ![a].step = "closePending", ![a].of = pending]
         /\ pending' = 0
         /\ room' = Disconnect(room, pending)
    [] pending = 0 /\ shown # 0 ->
         /\ press' = [p EXCEPT ![a].step = "closeShown", ![a].of = shown]
         /\ room' = Disconnect(room, shown)
         /\ UNCHANGED pending
    [] OTHER ->
         /\ press' = [p EXCEPT ![a].step = "done"]
         /\ UNCHANGED <<pending, room>>

-----------------------------------------------------------------------------
(* The user.                                                               *)

(* Mutant: the join does not leave the room shown.                         *)
JoinBesideTheRoomShown(c) ==
  /\ mounted /\ attempt < MaxPresses /\ inFlight # c /\ ~connecting
  /\ attempt' = attempt + 1 /\ connecting' = TRUE /\ inFlight' = c
  /\ press' = [press EXCEPT ![attempt + 1] =
       [kind |-> "join", channel |-> c, step |-> "token", of |-> 0,
        targets |-> NumTargets]]
  /\ UNCHANGED <<mounted, pending, shown, room>>

(* joinVoiceChannel(c): nothing while the same join is at work, while any  *)
(* join is, or in the channel already shown.                               *)
JoinVoiceChannel(c) ==
  /\ mounted
  /\ attempt < MaxPresses
  /\ inFlight # c
  /\ shown # 0 => press[shown].channel # c
  /\ ~connecting
  /\ attempt' = attempt + 1
  /\ connecting' = TRUE
  /\ inFlight' = c
  /\ LET a == attempt + 1
         p == [press EXCEPT ![a] = [kind |-> "join", channel |-> c,
                                    step |-> "token", of |-> 0,
                                    targets |-> NumTargets]]
     IN IF shown # 0 THEN LeaveFrom(p, a)
                     ELSE press' = p /\ UNCHANGED <<pending, room>>
  /\ UNCHANGED <<mounted, shown>>

(* The buttons that leave: they overtake a join at work, whose number is   *)
(* no longer the latest.                                                   *)
LeaveVoiceChannel ==
  /\ mounted
  /\ attempt < MaxPresses
  /\ attempt' = attempt + 1
  /\ inFlight' = NoChannel
  /\ LeaveFrom([press EXCEPT ![attempt + 1].kind = "leave"], attempt + 1)
  /\ UNCHANGED <<mounted, connecting, shown>>

(* The shell leaves the page: it hangs up what its references hold, and    *)
(* its handlers run on.                                                    *)
Unmount ==
  /\ mounted
  /\ mounted' = FALSE
  /\ room' = [r \in Presses |-> IF r \in {pending, shown}
                                THEN Disconnect(room, r)[r] ELSE room[r]]
  /\ UNCHANGED <<attempt, connecting, inFlight, pending, shown, press>>

-----------------------------------------------------------------------------
(* The handlers go on when what they wait for is there.                    *)

(* The room being connected is closed: the leave reads the room shown.     *)
PendingIsClosed(a) ==
  /\ press[a].step = "closePending"
  /\ Closed(press[a].of)
  /\ IF shown # 0
     THEN /\ Await(a, "closeShown", shown)
          /\ room' = Disconnect(room, shown)
     ELSE Goto(a, "done") /\ UNCHANGED room
  /\ UNCHANGED <<mounted, attempt, connecting, inFlight, pending, shown>>

(* The room shown is closed.  A leave is over; the join that asked for it  *)
(* goes on to its token unless another press has overtaken it.             *)
ShownIsClosed(a) ==
  /\ press[a].step = "closeShown"
  /\ Closed(press[a].of)
  /\ shown' = IF mounted /\ shown = press[a].of THEN 0 ELSE shown
  /\ IF press[a].kind = "join" /\ IsLatest(a)
     THEN Goto(a, "token") /\ UNCHANGED <<pending, inFlight, connecting>>
     ELSE /\ Goto(a, "done")
          /\ IF press[a].kind = "join"
             THEN Finally(a)
             ELSE UNCHANGED <<pending, inFlight, connecting>>
  /\ UNCHANGED <<mounted, attempt, room>>

(* Mutant: the error of the token is not caught.                           *)
TokenFailsUncaught(a) ==
  /\ press[a].step = "token"
  /\ Goto(a, "done")
  /\ UNCHANGED <<mounted, attempt, connecting, inFlight, pending, shown, room>>

(* The backend's token: the join creates its room and tries an address.    *)
TokenArrives(a) ==
  /\ press[a].step = "token"
  /\ IF IsLatest(a)
     THEN /\ press' = [press EXCEPT ![a].step = "connect",
                                    ![a].targets = @ - 1]
          /\ pending' = a
          /\ room' = [room EXCEPT ![a] = "connecting"]
          /\ UNCHANGED <<inFlight, connecting>>
     ELSE /\ Goto(a, "done")
          /\ Finally(a)
          /\ UNCHANGED room
  /\ UNCHANGED <<mounted, attempt, shown>>

TokenFails(a) ==
  /\ press[a].step = "token"
  /\ Goto(a, "done")
  /\ Finally(a)
  /\ UNCHANGED <<mounted, attempt, shown, room>>

(* room.connect resolves: the room is shown, or hung up by a join that is  *)
(* not the latest press any more.                                          *)
RoomConnects(a) ==
  /\ press[a].step = "connect"
  /\ room[a] = "connecting"
  /\ IF IsLatest(a)
     THEN /\ Goto(a, "done")
          /\ room' = [room EXCEPT ![a] = "live"]
          /\ shown' = IF mounted THEN a ELSE shown
          /\ pending' = 0
          /\ inFlight' = IF inFlight = press[a].channel THEN NoChannel
                                                        ELSE inFlight
          /\ connecting' = IF mounted THEN FALSE ELSE connecting
     ELSE /\ Await(a, "discard", a)
          /\ room' = [room EXCEPT ![a] = "closing"]
          /\ UNCHANGED <<shown, pending, inFlight, connecting>>
  /\ UNCHANGED <<mounted, attempt>>

(* room.connect rejects, is aborted by a disconnect, or has not answered   *)
(* in 7 seconds: the room is hung up before the next address.              *)
ConnectFails(a) ==
  /\ press[a].step = "connect"
  /\ Await(a, "drop", a)
  /\ room' = Disconnect(room, a)
  /\ UNCHANGED <<mounted, attempt, connecting, inFlight, pending, shown>>

(* The loop over the addresses goes on, or the join gives up.              *)
NextTarget(a) ==
  /\ press[a].step = "drop"
  /\ Closed(a)
  /\ IF IsLatest(a) /\ press[a].targets > 0
     THEN /\ press' = [press EXCEPT ![a].step = "connect",
                                    ![a].targets = @ - 1]
          /\ room' = [room EXCEPT ![a] = "connecting"]
          /\ UNCHANGED <<pending, inFlight, connecting>>
     ELSE /\ Goto(a, "done")
          /\ Finally(a)
          /\ UNCHANGED room
  /\ UNCHANGED <<mounted, attempt, shown>>

Discarded(a) ==
  /\ press[a].step = "discard"
  /\ Closed(a)
  /\ Goto(a, "done")
  /\ Finally(a)
  /\ UNCHANGED <<mounted, attempt, shown, room>>

-----------------------------------------------------------------------------
(* LiveKit.                                                                *)

(* The end of a room that was closing, or the loss of a live one.          *)
RoomEnds(r) ==
  /\ room[r] \in {"closing", "live"}
  /\ room' = [room EXCEPT ![r] = "idle"]
  /\ shown' = IF mounted /\ shown = r THEN 0 ELSE shown
  /\ UNCHANGED <<mounted, attempt, connecting, inFlight, pending, press>>

RoomCloses(r) == room[r] = "closing" /\ RoomEnds(r)

Handler(a) ==
  \/ PendingIsClosed(a)
  \/ ShownIsClosed(a)
  \/ TokenArrives(a)
  \/ TokenFails(a)
  \/ RoomConnects(a)
  \/ ConnectFails(a)
  \/ NextTarget(a)
  \/ Discarded(a)

Next ==
  \/ \E c \in Channels : JoinVoiceChannel(c)
  \/ LeaveVoiceChannel
  \/ Unmount
  \/ \E a \in Presses : Handler(a)
  \/ \E r \in Presses : RoomEnds(r)

(* The browser ends every request and LiveKit every disconnect; withTimeout *)
(* ends a connect.                                                          *)
Fairness == \A a \in Presses : WF_vars(Handler(a)) /\ WF_vars(RoomCloses(a))

Spec == Init /\ [][Next]_vars

FairSpec == Spec /\ Fairness

-----------------------------------------------------------------------------
AtWork(a) == press[a].step \notin {"idle", "done"}

(* A room that is connecting or live while the shell is there is the one   *)
(* shown to the user, or the join that made it still holds it: whatever    *)
(* presses, failures and timeouts came between, none is left behind with   *)
(* the microphone open and nothing on the page to hang it up.              *)
NoRoomLeftBehind ==
  mounted => \A r \in Presses : room[r] \in {"connecting", "live"} =>
                \/ shown = r
                \/ pending = r /\ press[r].step = "connect" /\ attempt = r

(* The user is heard in one channel only: a join hangs up before it        *)
(* connects, so two rooms are never open together, even when joins and     *)
(* leaves overlap and after the shell is gone.                             *)
OneRoomOpen ==
  \A q, r \in Presses : {room[q], room[r]} \subseteq {"connecting", "live"}
                        => q = r

(* The spinner blocks every join.  It is on only for the join that is the  *)
(* latest press and at work, or because a leave overtook that join: the    *)
(* leave does not switch it off, and the join no longer may.               *)
SpinnerHasACause ==
  connecting /\ mounted =>
     \/ AtWork(attempt) /\ press[attempt].kind = "join"
     \/ press[attempt].kind = "leave"

(* The room that comes up is the one of the user's latest press: a join    *)
(* overtaken by a leave never shows its room afterwards.                   *)
LatestPressWins == [][shown' # shown /\ shown' # 0 => shown' = attempt']_vars

(* A join that no leave overtakes ends, by a room or by an error, and      *)
(* gives the spinner back.                                                 *)
Joining == mounted /\ connecting /\ press[attempt].kind = "join"

JoinEnds == []<>~Joining
=============================================================================
