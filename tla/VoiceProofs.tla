----------------------------- MODULE VoiceProofs -----------------------------
(* Proofs about Voice, for any number of channels, presses and addresses.    *)
EXTENDS Voice, TLAPS

-----------------------------------------------------------------------------
Open(r) == room[r] \in {"connecting", "live"}

\* What is to come has not begun, and what has begun is a join or a leave.
FutureIsBlank ==
  \A a \in Presses : /\ a > attempt => press[a].step = "idle" /\ room[a] = "none"
                     /\ a <= attempt => press[a].kind \in {"join", "leave"}

\* Which handler waits where, and that it has the room it waits for and the
\* addresses it will try.
StepsFit ==
  \A a \in Presses :
    /\ press[a].step \in {"token", "connect", "drop", "discard"} => press[a].kind = "join"
    /\ press[a].step = "closePending" => press[a].kind = "leave"
    /\ press[a].step \in {"closePending", "closeShown"} => press[a].of \in Presses
    /\ press[a].step = "token" => press[a].targets > 0
    /\ press[a].step = "closeShown" /\ press[a].kind = "join" => press[a].targets > 0

RoomsConnect == \A r \in Presses : room[r] = "connecting" => press[r].step = "connect"

\* The room that is being connected is the one of the latest press.
PendingIsLatest ==
  pending # 0 => pending = attempt /\ press[attempt].step \in {"connect", "drop"}
LatestIsPending ==
  \A a \in Presses :
    a = attempt /\ press[a].step \in {"connect", "drop"} => pending = a

\* A join that is the latest press and at work has the spinner on, and once
\* it asks for its token no room is shown.
SpinnerIsOn ==
  /\ \A a \in Presses :
       a = attempt /\ press[a].kind = "join" /\ AtWork(a) => connecting
  /\ connecting => attempt # 0
NothingShownBeside ==
  mounted => \A a \in Presses :
    a = attempt /\ press[a].step \in {"token", "connect", "drop"} => shown = 0

\* While a join waits for the end of the room shown, no other one comes up.
NoOtherShown ==
  mounted => \A a \in Presses :
    a = attempt /\ press[a].kind = "join" /\ press[a].step = "closeShown"
      => shown \in {0, press[a].of}

\* After the shell is gone, no room is open but the one of the latest press.
OnlyTheLatest == ~mounted => \A r \in Presses : Open(r) => r = attempt

VoiceInv ==
  /\ TypeOK
  /\ FutureIsBlank /\ StepsFit /\ RoomsConnect
  /\ PendingIsLatest /\ LatestIsPending /\ SpinnerIsOn
  /\ NothingShownBeside /\ NoOtherShown
  /\ NoRoomLeftBehind /\ OnlyTheLatest /\ SpinnerHasACause

-----------------------------------------------------------------------------
(* What a step does to a press and to a room.                                *)

Moves(a, step, kind, of, targets) ==
  /\ press' \in [Presses -> Press]
  /\ press'[a].step = step /\ press'[a].kind = kind
  /\ press'[a].of = of /\ press'[a].targets = targets
  /\ \A b \in Presses \ {a} : press'[b] = press[b]

Turns(r, s) ==
  /\ room' \in [Presses -> {"none", "idle", "connecting", "live", "closing"}]
  /\ room'[r] = s /\ \A q \in Presses \ {r} : room'[q] = room[q]

LEMMA GotoMoves ==
  ASSUME TypeOK, NEW a \in Presses, NEW step \in Steps, Goto(a, step)
  PROVE  Moves(a, step, press[a].kind, press[a].of, press[a].targets)
<1>1. [press[a] EXCEPT !.step = step] \in Press
  BY DEF TypeOK, Press
<1>2. QED
  BY <1>1 DEF TypeOK, Press, Goto, Moves

LEMMA AwaitMoves ==
  ASSUME TypeOK, NEW a \in Presses, NEW step \in Steps, NEW r \in 0 .. MaxPresses,
         Await(a, step, r)
  PROVE  Moves(a, step, press[a].kind, r, press[a].targets)
<1>1. [press[a] EXCEPT !.step = step, !.of = r] \in Press
  BY DEF TypeOK, Press
<1>2. press' = [press EXCEPT ![a] = [press[a] EXCEPT !.step = step, !.of = r]]
  BY DEF TypeOK, Await
<1>3. QED
  BY <1>1, <1>2 DEF TypeOK, Press, Moves

LEMMA ConnectMoves ==
  ASSUME TypeOK, NEW a \in Presses, press[a].targets > 0,
         press' = [press EXCEPT ![a].step = "connect", ![a].targets = @ - 1]
  PROVE  Moves(a, "connect", press[a].kind, press[a].of, press[a].targets - 1)
<1>1. [press[a] EXCEPT !.step = "connect", !.targets = @ - 1] \in Press
  BY VoiceAssumption DEF TypeOK, Press, Steps
<1>2. press' = [press EXCEPT ![a] = [press[a] EXCEPT !.step = "connect", !.targets = @ - 1]]
  BY DEF TypeOK
<1>3. QED
  BY <1>1, <1>2 DEF TypeOK, Press, Moves

LEMMA TurnRoom ==
  ASSUME TypeOK, NEW r \in Presses, NEW s \in {"none", "idle", "connecting", "live", "closing"},
         room' = [room EXCEPT ![r] = s]
  PROVE  Turns(r, s)
  BY DEF TypeOK, Turns

LEMMA DisconnectTurns ==
  ASSUME TypeOK, NEW r \in Presses, room' = Disconnect(room, r)
  PROVE  \E s \in {"none", "idle", "closing"} : Turns(r, s) /\ (room[r] = "none" => s = "none")
<1>1. CASE room[r] \in {"connecting", "live"}
  BY <1>1 DEF TypeOK, Disconnect, Turns
<1>2. CASE room[r] \notin {"connecting", "live"}
  BY <1>2 DEF TypeOK, Disconnect, Turns
<1>3. QED
  BY <1>1, <1>2

-----------------------------------------------------------------------------
(* The steps keep the invariant.                                             *)

LEMMA JoinVoiceChannelKeeps ==
  ASSUME VoiceInv, NEW c \in Channels, JoinVoiceChannel(c)
  PROVE  VoiceInv'
<1> TypeOK
  BY DEF VoiceInv
<1> USE VoiceAssumption
<1> DEFINE a == attempt + 1
           j == [kind |-> "join", channel |-> c, step |-> "token", of |-> 0,
                 targets |-> NumTargets]
           p == [press EXCEPT ![a] = j]
<1>1. /\ a \in Presses /\ j \in Press /\ p \in [Presses -> Press] /\ p[a] = j
      /\ \A b \in Presses \ {a} : p[b] = press[b]
  BY DEF TypeOK, Press, Presses, Steps, JoinVoiceChannel
<1>2. /\ mounted /\ ~connecting /\ attempt' = a /\ connecting'
      /\ inFlight' = c /\ UNCHANGED <<mounted, shown>>
  BY DEF JoinVoiceChannel
<1>3. pending = 0
  BY <1>2 DEF VoiceInv, TypeOK, PendingIsLatest, SpinnerIsOn, StepsFit, AtWork, Presses
<1>4. CASE shown = 0
  <2>1. Moves(a, "token", "join", 0, NumTargets)
    BY <1>4, <1>1 DEF JoinVoiceChannel, Moves
  <2>2. UNCHANGED <<pending, room>>
    BY <1>4 DEF JoinVoiceChannel
  <2>3. TypeOK'
    BY <1>4, <1>1, <1>2, <1>3, <2>1, <2>2 DEF TypeOK, Presses, Moves, Turns
  <2>4. FutureIsBlank'
    BY <1>4, <1>1, <1>2, <1>3, <2>1, <2>2 DEF VoiceInv, TypeOK, Presses,
           FutureIsBlank, Moves, Turns
  <2>5. StepsFit'
    BY <1>4, <1>1, <1>2, <1>3, <2>1, <2>2 DEF VoiceInv, TypeOK, Presses,
           FutureIsBlank, StepsFit, Moves, Turns
  <2>6. RoomsConnect'
    BY <1>4, <1>1, <1>2, <1>3, <2>1, <2>2 DEF VoiceInv, TypeOK, Presses,
           FutureIsBlank, StepsFit, RoomsConnect, Moves, Turns
  <2>7. PendingIsLatest' /\ LatestIsPending'
    BY <1>4, <1>1, <1>2, <1>3, <2>1, <2>2 DEF VoiceInv, TypeOK, Presses,
           FutureIsBlank, StepsFit, PendingIsLatest, LatestIsPending, SpinnerIsOn,
           Moves, Turns
  <2>8. SpinnerIsOn'
    BY <1>4, <1>1, <1>2, <1>3, <2>1, <2>2 DEF VoiceInv, TypeOK, Presses,
           FutureIsBlank, StepsFit, SpinnerIsOn, AtWork, Moves, Turns
  <2>9. SpinnerHasACause'
    BY <1>4, <1>1, <1>2, <1>3, <2>1, <2>2 DEF VoiceInv, TypeOK, Presses,
           FutureIsBlank, StepsFit, SpinnerIsOn, SpinnerHasACause, AtWork, Moves,
           Turns
  <2>10. NothingShownBeside'
    BY <1>4, <1>1, <1>2, <1>3, <2>1, <2>2 DEF VoiceInv, TypeOK, Presses,
           FutureIsBlank, StepsFit, NothingShownBeside, NoOtherShown, Moves, Turns
  <2>11. NoOtherShown'
    BY <1>4, <1>1, <1>2, <1>3, <2>1, <2>2 DEF VoiceInv, TypeOK, Presses,
           FutureIsBlank, StepsFit, NoOtherShown, Moves, Turns
  <2>12. NoRoomLeftBehind'
    BY <1>4, <1>1, <1>2, <1>3, <2>1, <2>2 DEF VoiceInv, TypeOK, Presses,
           FutureIsBlank, StepsFit, RoomsConnect, PendingIsLatest, LatestIsPending,
           SpinnerIsOn, NothingShownBeside, NoRoomLeftBehind, AtWork, Open, Moves,
           Turns
  <2>13. OnlyTheLatest'
    BY <1>4, <1>1, <1>2, <1>3, <2>1, <2>2 DEF VoiceInv, TypeOK, Presses,
           RoomsConnect, NoRoomLeftBehind, PendingIsLatest, OnlyTheLatest, Open,
           Moves, Turns
  <2>14. QED
    BY <2>3, <2>4, <2>5, <2>6, <2>7, <2>8, <2>9, <2>10, <2>11, <2>12, <2>13 DEF VoiceInv
<1>5. CASE shown # 0
  <2>1. /\ press' = [p EXCEPT ![a].step = "closeShown", ![a].of = shown]
        /\ room' = Disconnect(room, shown) /\ UNCHANGED pending
    BY <1>5, <1>3 DEF JoinVoiceChannel, LeaveFrom
  <2>2. Moves(a, "closeShown", "join", shown, NumTargets)
    BY <1>5, <1>1, <2>1 DEF TypeOK, Press, Steps, Moves
  <2>3. \E s \in {"none", "idle", "closing"} :
          Turns(shown, s) /\ (room[shown] = "none" => s = "none")
    BY <1>5, <2>1, DisconnectTurns DEF TypeOK, Presses
  <2>4. TypeOK'
    BY <1>5, <1>1, <1>2, <1>3, <2>1, <2>2, <2>3 DEF TypeOK, Presses, Moves, Turns
  <2>5. FutureIsBlank'
    BY <1>5, <1>1, <1>2, <1>3, <2>1, <2>2, <2>3 DEF VoiceInv, TypeOK, Presses,
           FutureIsBlank, Moves, Turns
  <2>6. StepsFit'
    BY <1>5, <1>1, <1>2, <1>3, <2>1, <2>2, <2>3 DEF VoiceInv, TypeOK, Presses,
           FutureIsBlank, StepsFit, Moves, Turns
  <2>7. RoomsConnect'
    BY <1>5, <1>1, <1>2, <1>3, <2>1, <2>2, <2>3 DEF VoiceInv, TypeOK, Presses,
           FutureIsBlank, StepsFit, RoomsConnect, Moves, Turns
  <2>8. PendingIsLatest' /\ LatestIsPending'
    BY <1>5, <1>1, <1>2, <1>3, <2>1, <2>2, <2>3 DEF VoiceInv, TypeOK, Presses,
           FutureIsBlank, StepsFit, PendingIsLatest, LatestIsPending, SpinnerIsOn,
           Moves, Turns
  <2>9. SpinnerIsOn'
    BY <1>5, <1>1, <1>2, <1>3, <2>1, <2>2, <2>3 DEF VoiceInv, TypeOK, Presses,
           FutureIsBlank, StepsFit, SpinnerIsOn, AtWork, Moves, Turns
  <2>10. SpinnerHasACause'
    BY <1>5, <1>1, <1>2, <1>3, <2>1, <2>2, <2>3 DEF VoiceInv, TypeOK, Presses,
           FutureIsBlank, StepsFit, SpinnerIsOn, SpinnerHasACause, AtWork, Moves,
           Turns
  <2>11. NothingShownBeside'
    BY <1>5, <1>1, <1>2, <1>3, <2>1, <2>2, <2>3 DEF VoiceInv, TypeOK, Presses,
           FutureIsBlank, StepsFit, NothingShownBeside, NoOtherShown, Moves, Turns
  <2>12. NoOtherShown'
    BY <1>5, <1>1, <1>2, <1>3, <2>1, <2>2, <2>3 DEF VoiceInv, TypeOK, Presses,
           FutureIsBlank, StepsFit, NoOtherShown, Moves, Turns
  <2>13. NoRoomLeftBehind'
    BY <1>5, <1>1, <1>2, <1>3, <2>1, <2>2, <2>3 DEF VoiceInv, TypeOK, Presses,
           FutureIsBlank, StepsFit, RoomsConnect, PendingIsLatest, LatestIsPending,
           SpinnerIsOn, NothingShownBeside, NoRoomLeftBehind, AtWork, Open, Moves,
           Turns
  <2>14. OnlyTheLatest'
    BY <1>5, <1>1, <1>2, <1>3, <2>1, <2>2, <2>3 DEF VoiceInv, TypeOK, Presses,
           RoomsConnect, NoRoomLeftBehind, PendingIsLatest, OnlyTheLatest, Open,
           Moves, Turns
  <2>15. QED
    BY <2>4, <2>5, <2>6, <2>7, <2>8, <2>9, <2>10, <2>11, <2>12, <2>13, <2>14 DEF VoiceInv
<1>6. QED
  BY <1>4, <1>5

LEMMA LeaveVoiceChannelKeeps ==
  ASSUME VoiceInv, LeaveVoiceChannel
  PROVE  VoiceInv'
<1> TypeOK
  BY DEF VoiceInv
<1> USE VoiceAssumption
<1> DEFINE a == attempt + 1
           p == [press EXCEPT ![a].kind = "leave"]
<1>1. /\ a \in Presses /\ p \in [Presses -> Press] /\ p[a].kind = "leave"
      /\ \A b \in Presses \ {a} : p[b] = press[b]
  <2>1. a \in Presses
    BY DEF TypeOK, Presses, LeaveVoiceChannel
  <2>2. [press[a] EXCEPT !.kind = "leave"] \in Press
    BY <2>1 DEF TypeOK, Press
  <2>3. QED
    BY <2>1, <2>2 DEF TypeOK, Press
<1>2. /\ mounted /\ attempt' = a /\ inFlight' = NoChannel
      /\ UNCHANGED <<mounted, connecting, shown>> /\ LeaveFrom(p, a)
  BY DEF LeaveVoiceChannel
<1> HIDE DEF p
<1>3. CASE pending # 0
  <2>1. /\ press' = [p EXCEPT ![a].step = "closePending", ![a].of = pending]
        /\ room' = Disconnect(room, pending) /\ pending' = 0
    BY <1>3, <1>2 DEF LeaveFrom
  <2>2. Moves(a, "closePending", "leave", pending, p[a].targets)
    BY <1>3, <1>1, <2>1 DEF TypeOK, Press, Steps, Moves
  <2>3. \E s \in {"none", "idle", "closing"} :
          Turns(pending, s) /\ (room[pending] = "none" => s = "none")
    BY <1>3, <2>1, DisconnectTurns DEF TypeOK, Presses
  <2>4. TypeOK'
    BY <1>3, <1>1, <1>2, <2>1, <2>2, <2>3 DEF TypeOK, Presses, Moves, Turns
  <2>5. FutureIsBlank'
    BY <1>3, <1>1, <1>2, <2>1, <2>2, <2>3 DEF VoiceInv, TypeOK, Presses,
           FutureIsBlank, Moves, Turns
  <2>6. StepsFit'
    BY <1>3, <1>1, <1>2, <2>1, <2>2, <2>3 DEF VoiceInv, TypeOK, Presses,
           FutureIsBlank, StepsFit, Moves, Turns
  <2>7. RoomsConnect'
    BY <1>3, <1>1, <1>2, <2>1, <2>2, <2>3 DEF VoiceInv, TypeOK, Presses,
           FutureIsBlank, StepsFit, RoomsConnect, Moves, Turns
  <2>8. PendingIsLatest' /\ LatestIsPending'
    BY <1>3, <1>1, <1>2, <2>1, <2>2, <2>3 DEF VoiceInv, TypeOK, Presses,
           FutureIsBlank, StepsFit, PendingIsLatest, LatestIsPending, SpinnerIsOn,
           Moves, Turns
  <2>9. SpinnerIsOn'
    BY <1>3, <1>1, <1>2, <2>1, <2>2, <2>3 DEF VoiceInv, TypeOK, Presses,
           FutureIsBlank, StepsFit, SpinnerIsOn, AtWork, Moves, Turns
  <2>10. SpinnerHasACause'
    BY <1>3, <1>1, <1>2, <2>1, <2>2, <2>3 DEF VoiceInv, TypeOK, Presses,
           FutureIsBlank, StepsFit, SpinnerIsOn, SpinnerHasACause, AtWork, Moves,
           Turns
  <2>11. NothingShownBeside'
    BY <1>3, <1>1, <1>2, <2>1, <2>2, <2>3 DEF VoiceInv, TypeOK, Presses,
           FutureIsBlank, StepsFit, NothingShownBeside, NoOtherShown, Moves, Turns
  <2>12. NoOtherShown'
    BY <1>3, <1>1, <1>2, <2>1, <2>2, <2>3 DEF VoiceInv, TypeOK, Presses,
           FutureIsBlank, StepsFit, NoOtherShown, Moves, Turns
  <2>13. NoRoomLeftBehind'
    BY <1>3, <1>1, <1>2, <2>1, <2>2, <2>3 DEF VoiceInv, TypeOK, Presses,
           FutureIsBlank, StepsFit, RoomsConnect, PendingIsLatest, LatestIsPending,
           SpinnerIsOn, NothingShownBeside, NoRoomLeftBehind, AtWork, Open, Moves,
           Turns
  <2>14. OnlyTheLatest'
    BY <1>3, <1>1, <1>2, <2>1, <2>2, <2>3 DEF VoiceInv, TypeOK, Presses,
           RoomsConnect, NoRoomLeftBehind, PendingIsLatest, OnlyTheLatest, Open,
           Moves, Turns
  <2>15. QED
    BY <2>4, <2>5, <2>6, <2>7, <2>8, <2>9, <2>10, <2>11, <2>12, <2>13, <2>14 DEF VoiceInv
<1>4. CASE pending = 0 /\ shown # 0
  <2>1. /\ press' = [p EXCEPT ![a].step = "closeShown", ![a].of = shown]
        /\ room' = Disconnect(room, shown) /\ UNCHANGED pending
    BY <1>4, <1>2 DEF LeaveFrom
  <2>2. Moves(a, "closeShown", "leave", shown, p[a].targets)
    BY <1>4, <1>1, <2>1 DEF TypeOK, Press, Steps, Moves
  <2>3. \E s \in {"none", "idle", "closing"} :
          Turns(shown, s) /\ (room[shown] = "none" => s = "none")
    BY <1>4, <2>1, DisconnectTurns DEF TypeOK, Presses
  <2>4. TypeOK'
    BY <1>4, <1>1, <1>2, <2>1, <2>2, <2>3 DEF TypeOK, Presses, Moves, Turns
  <2>5. FutureIsBlank'
    BY <1>4, <1>1, <1>2, <2>1, <2>2, <2>3 DEF VoiceInv, TypeOK, Presses,
           FutureIsBlank, Moves, Turns
  <2>6. StepsFit'
    BY <1>4, <1>1, <1>2, <2>1, <2>2, <2>3 DEF VoiceInv, TypeOK, Presses,
           FutureIsBlank, StepsFit, Moves, Turns
  <2>7. RoomsConnect'
    BY <1>4, <1>1, <1>2, <2>1, <2>2, <2>3 DEF VoiceInv, TypeOK, Presses,
           FutureIsBlank, StepsFit, RoomsConnect, Moves, Turns
  <2>8. PendingIsLatest' /\ LatestIsPending'
    BY <1>4, <1>1, <1>2, <2>1, <2>2, <2>3 DEF VoiceInv, TypeOK, Presses,
           FutureIsBlank, StepsFit, PendingIsLatest, LatestIsPending, SpinnerIsOn,
           Moves, Turns
  <2>9. SpinnerIsOn'
    BY <1>4, <1>1, <1>2, <2>1, <2>2, <2>3 DEF VoiceInv, TypeOK, Presses,
           FutureIsBlank, StepsFit, SpinnerIsOn, AtWork, Moves, Turns
  <2>10. SpinnerHasACause'
    BY <1>4, <1>1, <1>2, <2>1, <2>2, <2>3 DEF VoiceInv, TypeOK, Presses,
           FutureIsBlank, StepsFit, SpinnerIsOn, SpinnerHasACause, AtWork, Moves,
           Turns
  <2>11. NothingShownBeside'
    BY <1>4, <1>1, <1>2, <2>1, <2>2, <2>3 DEF VoiceInv, TypeOK, Presses,
           FutureIsBlank, StepsFit, NothingShownBeside, NoOtherShown, Moves, Turns
  <2>12. NoOtherShown'
    BY <1>4, <1>1, <1>2, <2>1, <2>2, <2>3 DEF VoiceInv, TypeOK, Presses,
           FutureIsBlank, StepsFit, NoOtherShown, Moves, Turns
  <2>13. NoRoomLeftBehind'
    BY <1>4, <1>1, <1>2, <2>1, <2>2, <2>3 DEF VoiceInv, TypeOK, Presses,
           FutureIsBlank, StepsFit, RoomsConnect, PendingIsLatest, LatestIsPending,
           SpinnerIsOn, NothingShownBeside, NoRoomLeftBehind, AtWork, Open, Moves,
           Turns
  <2>14. OnlyTheLatest'
    BY <1>4, <1>1, <1>2, <2>1, <2>2, <2>3 DEF VoiceInv, TypeOK, Presses,
           RoomsConnect, NoRoomLeftBehind, PendingIsLatest, OnlyTheLatest, Open,
           Moves, Turns
  <2>15. QED
    BY <2>4, <2>5, <2>6, <2>7, <2>8, <2>9, <2>10, <2>11, <2>12, <2>13, <2>14 DEF VoiceInv
<1>5. CASE pending = 0 /\ shown = 0
  <2>1. press' = [p EXCEPT ![a].step = "done"] /\ UNCHANGED <<pending, room>>
    BY <1>5, <1>2 DEF LeaveFrom
  <2>2. Moves(a, "done", "leave", p[a].of, p[a].targets)
    BY <1>5, <1>1, <2>1 DEF TypeOK, Press, Steps, Moves
  <2>3. TypeOK'
    BY <1>5, <1>1, <1>2, <2>1, <2>2 DEF TypeOK, Presses, Moves, Turns
  <2>4. FutureIsBlank'
    BY <1>5, <1>1, <1>2, <2>1, <2>2 DEF VoiceInv, TypeOK, Presses, FutureIsBlank,
           Moves, Turns
  <2>5. StepsFit'
    BY <1>5, <1>1, <1>2, <2>1, <2>2 DEF VoiceInv, TypeOK, Presses, FutureIsBlank,
           StepsFit, Moves, Turns
  <2>6. RoomsConnect'
    BY <1>5, <1>1, <1>2, <2>1, <2>2 DEF VoiceInv, TypeOK, Presses, FutureIsBlank,
           StepsFit, RoomsConnect, Moves, Turns
  <2>7. PendingIsLatest' /\ LatestIsPending'
    BY <1>5, <1>1, <1>2, <2>1, <2>2 DEF VoiceInv, TypeOK, Presses, FutureIsBlank,
           StepsFit, PendingIsLatest, LatestIsPending, SpinnerIsOn, Moves, Turns
  <2>8. SpinnerIsOn'
    BY <1>5, <1>1, <1>2, <2>1, <2>2 DEF VoiceInv, TypeOK, Presses, FutureIsBlank,
           StepsFit, SpinnerIsOn, AtWork, Moves, Turns
  <2>9. SpinnerHasACause'
    BY <1>5, <1>1, <1>2, <2>1, <2>2 DEF VoiceInv, TypeOK, Presses, FutureIsBlank,
           StepsFit, SpinnerIsOn, SpinnerHasACause, AtWork, Moves, Turns
  <2>10. NothingShownBeside'
    BY <1>5, <1>1, <1>2, <2>1, <2>2 DEF VoiceInv, TypeOK, Presses, FutureIsBlank,
           StepsFit, NothingShownBeside, NoOtherShown, Moves, Turns
  <2>11. NoOtherShown'
    BY <1>5, <1>1, <1>2, <2>1, <2>2 DEF VoiceInv, TypeOK, Presses, FutureIsBlank,
           StepsFit, NoOtherShown, Moves, Turns
  <2>12. NoRoomLeftBehind'
    BY <1>5, <1>1, <1>2, <2>1, <2>2 DEF VoiceInv, TypeOK, Presses, FutureIsBlank,
           StepsFit, RoomsConnect, PendingIsLatest, LatestIsPending, SpinnerIsOn,
           NothingShownBeside, NoRoomLeftBehind, AtWork, Open, Moves, Turns
  <2>13. OnlyTheLatest'
    BY <1>5, <1>1, <1>2, <2>1, <2>2 DEF VoiceInv, TypeOK, Presses, RoomsConnect,
           NoRoomLeftBehind, PendingIsLatest, OnlyTheLatest, Open, Moves, Turns
  <2>14. QED
    BY <2>3, <2>4, <2>5, <2>6, <2>7, <2>8, <2>9, <2>10, <2>11, <2>12, <2>13 DEF VoiceInv
<1>6. QED
  BY <1>3, <1>4, <1>5

LEMMA UnmountKeeps ==
  ASSUME VoiceInv, Unmount
  PROVE  VoiceInv'
<1> TypeOK
  BY DEF VoiceInv
<1> USE VoiceAssumption
<1>1. TypeOK'
  BY DEF VoiceInv, TypeOK, Presses, StepsFit, Press, Steps, Unmount, Disconnect
<1>2. FutureIsBlank'
  BY DEF VoiceInv, TypeOK, Presses, FutureIsBlank, StepsFit, Unmount, Disconnect
<1>3. StepsFit'
  BY DEF VoiceInv, TypeOK, Presses, StepsFit, FutureIsBlank, Unmount, Disconnect
<1>4. RoomsConnect'
  BY DEF VoiceInv, TypeOK, Presses, RoomsConnect, FutureIsBlank, StepsFit, Unmount,
         Disconnect
<1>5. PendingIsLatest'
  BY DEF VoiceInv, TypeOK, Presses, PendingIsLatest, SpinnerIsOn, StepsFit,
         LatestIsPending, AtWork, Unmount, Disconnect
<1>6. LatestIsPending'
  BY DEF VoiceInv, TypeOK, Presses, LatestIsPending, FutureIsBlank, PendingIsLatest,
         StepsFit, Unmount, Disconnect
<1>7. SpinnerIsOn'
  BY DEF VoiceInv, TypeOK, Presses, SpinnerIsOn, StepsFit, FutureIsBlank, AtWork,
         Unmount, Disconnect
<1>8. NothingShownBeside'
  BY DEF VoiceInv, TypeOK, Presses, NothingShownBeside, StepsFit, FutureIsBlank,
         Unmount, Disconnect
<1>9. NoOtherShown'
  BY DEF VoiceInv, TypeOK, Presses, NoOtherShown, StepsFit, FutureIsBlank, Unmount,
         Disconnect
<1>10. NoRoomLeftBehind'
  BY DEF VoiceInv, TypeOK, Presses, NoRoomLeftBehind, FutureIsBlank, StepsFit,
         RoomsConnect, PendingIsLatest, LatestIsPending, NothingShownBeside,
         SpinnerIsOn, AtWork, Unmount, Disconnect
<1>11. OnlyTheLatest'
  BY DEF VoiceInv, TypeOK, Presses, OnlyTheLatest, NoRoomLeftBehind, RoomsConnect,
         Open, Unmount, Disconnect
<1>12. SpinnerHasACause'
  BY DEF VoiceInv, TypeOK, Presses, SpinnerHasACause, StepsFit, FutureIsBlank,
         AtWork, Unmount, Disconnect
<1>13. QED
  BY <1>1, <1>2, <1>3, <1>4, <1>5, <1>6, <1>7, <1>8, <1>9, <1>10, <1>11, <1>12 DEF VoiceInv

LEMMA PendingIsClosedKeeps ==
  ASSUME VoiceInv, NEW a \in Presses, PendingIsClosed(a)
  PROVE  VoiceInv'
<1> TypeOK
  BY DEF VoiceInv
<1> USE VoiceAssumption
<1>1. /\ press[a].step = "closePending" /\ press[a].kind = "leave"
      /\ UNCHANGED <<mounted, attempt, connecting, inFlight, pending, shown>>
  BY DEF VoiceInv, StepsFit, PendingIsClosed
<1>2. CASE shown # 0
  <2>1. Await(a, "closeShown", shown) /\ room' = Disconnect(room, shown)
    BY <1>2 DEF PendingIsClosed
  <2>2. Moves(a, "closeShown", press[a].kind, shown, press[a].targets)
    BY <1>2, <2>1, AwaitMoves DEF TypeOK, Steps
  <2>3. \E s \in {"none", "idle", "closing"} :
          Turns(shown, s) /\ (room[shown] = "none" => s = "none")
    BY <1>2, <2>1, DisconnectTurns DEF TypeOK, Presses
  <2>4. TypeOK'
    BY <1>2, <1>1, <2>1, <2>2, <2>3 DEF TypeOK, Presses, Moves, Turns
  <2>5. FutureIsBlank'
    BY <1>2, <1>1, <2>1, <2>2, <2>3 DEF VoiceInv, TypeOK, Presses, FutureIsBlank,
           Moves, Turns
  <2>6. StepsFit'
    BY <1>2, <1>1, <2>1, <2>2, <2>3 DEF VoiceInv, TypeOK, Presses, FutureIsBlank,
           StepsFit, Moves, Turns
  <2>7. RoomsConnect'
    BY <1>2, <1>1, <2>1, <2>2, <2>3 DEF VoiceInv, TypeOK, Presses, FutureIsBlank,
           StepsFit, RoomsConnect, Moves, Turns
  <2>8. PendingIsLatest' /\ LatestIsPending'
    BY <1>2, <1>1, <2>1, <2>2, <2>3 DEF VoiceInv, TypeOK, Presses, FutureIsBlank,
           StepsFit, PendingIsLatest, LatestIsPending, SpinnerIsOn, Moves, Turns
  <2>9. SpinnerIsOn'
    BY <1>2, <1>1, <2>1, <2>2, <2>3 DEF VoiceInv, TypeOK, Presses, FutureIsBlank,
           StepsFit, SpinnerIsOn, AtWork, Moves, Turns
  <2>10. SpinnerHasACause'
    BY <1>2, <1>1, <2>1, <2>2, <2>3 DEF VoiceInv, TypeOK, Presses, FutureIsBlank,
           StepsFit, SpinnerIsOn, SpinnerHasACause, AtWork, Moves, Turns
  <2>11. NothingShownBeside'
    BY <1>2, <1>1, <2>1, <2>2, <2>3 DEF VoiceInv, TypeOK, Presses, FutureIsBlank,
           StepsFit, NothingShownBeside, NoOtherShown, Moves, Turns
  <2>12. NoOtherShown'
    BY <1>2, <1>1, <2>1, <2>2, <2>3 DEF VoiceInv, TypeOK, Presses, FutureIsBlank,
           StepsFit, NoOtherShown, Moves, Turns
  <2>13. NoRoomLeftBehind'
    BY <1>2, <1>1, <2>1, <2>2, <2>3 DEF VoiceInv, TypeOK, Presses, FutureIsBlank,
           StepsFit, RoomsConnect, PendingIsLatest, LatestIsPending, SpinnerIsOn,
           NothingShownBeside, NoRoomLeftBehind, AtWork, Open, Moves, Turns
  <2>14. OnlyTheLatest'
    BY <1>2, <1>1, <2>1, <2>2, <2>3 DEF VoiceInv, TypeOK, Presses, RoomsConnect,
           NoRoomLeftBehind, PendingIsLatest, OnlyTheLatest, Open, Moves, Turns
  <2>15. QED
    BY <2>4, <2>5, <2>6, <2>7, <2>8, <2>9, <2>10, <2>11, <2>12, <2>13, <2>14 DEF VoiceInv
<1>3. CASE shown = 0
  <2>1. Moves(a, "done", press[a].kind, press[a].of, press[a].targets)
    BY <1>3, GotoMoves DEF PendingIsClosed, Steps
  <2>2. UNCHANGED room
    BY <1>3 DEF PendingIsClosed
  <2>3. TypeOK'
    BY <1>3, <1>1, <2>1, <2>2 DEF TypeOK, Presses, Moves, Turns
  <2>4. FutureIsBlank'
    BY <1>3, <1>1, <2>1, <2>2 DEF VoiceInv, TypeOK, Presses, FutureIsBlank, Moves,
           Turns
  <2>5. StepsFit'
    BY <1>3, <1>1, <2>1, <2>2 DEF VoiceInv, TypeOK, Presses, FutureIsBlank,
           StepsFit, Moves, Turns
  <2>6. RoomsConnect'
    BY <1>3, <1>1, <2>1, <2>2 DEF VoiceInv, TypeOK, Presses, FutureIsBlank,
           StepsFit, RoomsConnect, Moves, Turns
  <2>7. PendingIsLatest' /\ LatestIsPending'
    BY <1>3, <1>1, <2>1, <2>2 DEF VoiceInv, TypeOK, Presses, FutureIsBlank,
           StepsFit, PendingIsLatest, LatestIsPending, SpinnerIsOn, Moves, Turns
  <2>8. SpinnerIsOn'
    BY <1>3, <1>1, <2>1, <2>2 DEF VoiceInv, TypeOK, Presses, FutureIsBlank,
           StepsFit, SpinnerIsOn, AtWork, Moves, Turns
  <2>9. SpinnerHasACause'
    BY <1>3, <1>1, <2>1, <2>2 DEF VoiceInv, TypeOK, Presses, FutureIsBlank,
           StepsFit, SpinnerIsOn, SpinnerHasACause, AtWork, Moves, Turns
  <2>10. NothingShownBeside'
    BY <1>3, <1>1, <2>1, <2>2 DEF VoiceInv, TypeOK, Presses, FutureIsBlank,
           StepsFit, NothingShownBeside, NoOtherShown, Moves, Turns
  <2>11. NoOtherShown'
    BY <1>3, <1>1, <2>1, <2>2 DEF VoiceInv, TypeOK, Presses, FutureIsBlank,
           StepsFit, NoOtherShown, Moves, Turns
  <2>12. NoRoomLeftBehind'
    BY <1>3, <1>1, <2>1, <2>2 DEF VoiceInv, TypeOK, Presses, FutureIsBlank,
           StepsFit, RoomsConnect, PendingIsLatest, LatestIsPending, SpinnerIsOn,
           NothingShownBeside, NoRoomLeftBehind, AtWork, Open, Moves, Turns
  <2>13. OnlyTheLatest'
    BY <1>3, <1>1, <2>1, <2>2 DEF VoiceInv, TypeOK, Presses, RoomsConnect,
           NoRoomLeftBehind, PendingIsLatest, OnlyTheLatest, Open, Moves, Turns
  <2>14. QED
    BY <2>3, <2>4, <2>5, <2>6, <2>7, <2>8, <2>9, <2>10, <2>11, <2>12, <2>13 DEF VoiceInv
<1>4. QED
  BY <1>2, <1>3

LEMMA ShownIsClosedKeeps ==
  ASSUME VoiceInv, NEW a \in Presses, ShownIsClosed(a)
  PROVE  VoiceInv'
<1> TypeOK
  BY DEF VoiceInv
<1> USE VoiceAssumption
<1>1. /\ press[a].step = "closeShown" /\ press[a].of \in Presses /\ ~Open(press[a].of)
      /\ shown' = IF mounted /\ shown = press[a].of THEN 0 ELSE shown
      /\ UNCHANGED <<mounted, attempt, room>>
  BY DEF VoiceInv, StepsFit, ShownIsClosed, Closed, Open
<1>2. CASE press[a].kind = "join" /\ IsLatest(a)
  <2>1. Moves(a, "token", press[a].kind, press[a].of, press[a].targets)
    BY <1>2, GotoMoves DEF ShownIsClosed, Steps
  <2>2. a = attempt /\ UNCHANGED <<pending, inFlight, connecting>>
    BY <1>2 DEF ShownIsClosed, IsLatest
  <2>3. TypeOK'
    BY <1>2, <1>1, <2>1, <2>2 DEF TypeOK, Presses, Moves, Turns
  <2>4. FutureIsBlank'
    BY <1>2, <1>1, <2>1, <2>2 DEF VoiceInv, TypeOK, Presses, FutureIsBlank, Moves,
           Turns
  <2>5. StepsFit'
    BY <1>2, <1>1, <2>1, <2>2 DEF VoiceInv, TypeOK, Presses, FutureIsBlank,
           StepsFit, Moves, Turns
  <2>6. RoomsConnect'
    BY <1>2, <1>1, <2>1, <2>2 DEF VoiceInv, TypeOK, Presses, FutureIsBlank,
           StepsFit, RoomsConnect, Moves, Turns
  <2>7. PendingIsLatest' /\ LatestIsPending'
    BY <1>2, <1>1, <2>1, <2>2 DEF VoiceInv, TypeOK, Presses, FutureIsBlank,
           StepsFit, PendingIsLatest, LatestIsPending, SpinnerIsOn, Moves, Turns
  <2>8. SpinnerIsOn'
    BY <1>2, <1>1, <2>1, <2>2 DEF VoiceInv, TypeOK, Presses, FutureIsBlank,
           StepsFit, SpinnerIsOn, AtWork, Moves, Turns
  <2>9. SpinnerHasACause'
    BY <1>2, <1>1, <2>1, <2>2 DEF VoiceInv, TypeOK, Presses, FutureIsBlank,
           StepsFit, SpinnerIsOn, SpinnerHasACause, AtWork, Moves, Turns
  <2>10. NothingShownBeside'
    BY <1>2, <1>1, <2>1, <2>2 DEF VoiceInv, TypeOK, Presses, FutureIsBlank,
           StepsFit, NothingShownBeside, NoOtherShown, Moves, Turns
  <2>11. NoOtherShown'
    BY <1>2, <1>1, <2>1, <2>2 DEF VoiceInv, TypeOK, Presses, FutureIsBlank,
           StepsFit, NoOtherShown, Moves, Turns
  <2>12. NoRoomLeftBehind'
    BY <1>2, <1>1, <2>1, <2>2 DEF VoiceInv, TypeOK, Presses, FutureIsBlank,
           StepsFit, RoomsConnect, PendingIsLatest, LatestIsPending, SpinnerIsOn,
           NothingShownBeside, NoRoomLeftBehind, AtWork, Open, Moves, Turns
  <2>13. OnlyTheLatest'
    BY <1>2, <1>1, <2>1, <2>2 DEF VoiceInv, TypeOK, Presses, RoomsConnect,
           NoRoomLeftBehind, PendingIsLatest, OnlyTheLatest, Open, Moves, Turns
  <2>14. QED
    BY <2>3, <2>4, <2>5, <2>6, <2>7, <2>8, <2>9, <2>10, <2>11, <2>12, <2>13 DEF VoiceInv
<1>3. CASE press[a].kind = "join" /\ ~IsLatest(a)
  <2>1. Moves(a, "done", press[a].kind, press[a].of, press[a].targets)
    BY <1>3, GotoMoves DEF ShownIsClosed, Steps
  <2>2. /\ a # attempt /\ UNCHANGED <<pending, connecting>>
        /\ inFlight' \in {inFlight, NoChannel}
    BY <1>3 DEF ShownIsClosed, Finally, IsLatest
  <2>3. TypeOK'
    BY <1>3, <1>1, <2>1, <2>2 DEF TypeOK, Presses, Moves, Turns
  <2>4. FutureIsBlank'
    BY <1>3, <1>1, <2>1, <2>2 DEF VoiceInv, TypeOK, Presses, FutureIsBlank, Moves,
           Turns
  <2>5. StepsFit'
    BY <1>3, <1>1, <2>1, <2>2 DEF VoiceInv, TypeOK, Presses, FutureIsBlank,
           StepsFit, Moves, Turns
  <2>6. RoomsConnect'
    BY <1>3, <1>1, <2>1, <2>2 DEF VoiceInv, TypeOK, Presses, FutureIsBlank,
           StepsFit, RoomsConnect, Moves, Turns
  <2>7. PendingIsLatest' /\ LatestIsPending'
    BY <1>3, <1>1, <2>1, <2>2 DEF VoiceInv, TypeOK, Presses, FutureIsBlank,
           StepsFit, PendingIsLatest, LatestIsPending, SpinnerIsOn, Moves, Turns
  <2>8. SpinnerIsOn'
    BY <1>3, <1>1, <2>1, <2>2 DEF VoiceInv, TypeOK, Presses, FutureIsBlank,
           StepsFit, SpinnerIsOn, AtWork, Moves, Turns
  <2>9. SpinnerHasACause'
    BY <1>3, <1>1, <2>1, <2>2 DEF VoiceInv, TypeOK, Presses, FutureIsBlank,
           StepsFit, SpinnerIsOn, SpinnerHasACause, AtWork, Moves, Turns
  <2>10. NothingShownBeside'
    BY <1>3, <1>1, <2>1, <2>2 DEF VoiceInv, TypeOK, Presses, FutureIsBlank,
           StepsFit, NothingShownBeside, NoOtherShown, Moves, Turns
  <2>11. NoOtherShown'
    BY <1>3, <1>1, <2>1, <2>2 DEF VoiceInv, TypeOK, Presses, FutureIsBlank,
           StepsFit, NoOtherShown, Moves, Turns
  <2>12. NoRoomLeftBehind'
    BY <1>3, <1>1, <2>1, <2>2 DEF VoiceInv, TypeOK, Presses, FutureIsBlank,
           StepsFit, RoomsConnect, PendingIsLatest, LatestIsPending, SpinnerIsOn,
           NothingShownBeside, NoRoomLeftBehind, AtWork, Open, Moves, Turns
  <2>13. OnlyTheLatest'
    BY <1>3, <1>1, <2>1, <2>2 DEF VoiceInv, TypeOK, Presses, RoomsConnect,
           NoRoomLeftBehind, PendingIsLatest, OnlyTheLatest, Open, Moves, Turns
  <2>14. QED
    BY <2>3, <2>4, <2>5, <2>6, <2>7, <2>8, <2>9, <2>10, <2>11, <2>12, <2>13 DEF VoiceInv
<1>4. CASE press[a].kind # "join"
  <2>1. Moves(a, "done", press[a].kind, press[a].of, press[a].targets)
    BY <1>4, GotoMoves DEF ShownIsClosed, Steps
  <2>2. UNCHANGED <<pending, inFlight, connecting>>
    BY <1>4 DEF ShownIsClosed
  <2>3. TypeOK'
    BY <1>4, <1>1, <2>1, <2>2 DEF TypeOK, Presses, Moves, Turns
  <2>4. FutureIsBlank'
    BY <1>4, <1>1, <2>1, <2>2 DEF VoiceInv, TypeOK, Presses, FutureIsBlank, Moves,
           Turns
  <2>5. StepsFit'
    BY <1>4, <1>1, <2>1, <2>2 DEF VoiceInv, TypeOK, Presses, FutureIsBlank,
           StepsFit, Moves, Turns
  <2>6. RoomsConnect'
    BY <1>4, <1>1, <2>1, <2>2 DEF VoiceInv, TypeOK, Presses, FutureIsBlank,
           StepsFit, RoomsConnect, Moves, Turns
  <2>7. PendingIsLatest' /\ LatestIsPending'
    BY <1>4, <1>1, <2>1, <2>2 DEF VoiceInv, TypeOK, Presses, FutureIsBlank,
           StepsFit, PendingIsLatest, LatestIsPending, SpinnerIsOn, Moves, Turns
  <2>8. SpinnerIsOn'
    BY <1>4, <1>1, <2>1, <2>2 DEF VoiceInv, TypeOK, Presses, FutureIsBlank,
           StepsFit, SpinnerIsOn, AtWork, Moves, Turns
  <2>9. SpinnerHasACause'
    BY <1>4, <1>1, <2>1, <2>2 DEF VoiceInv, TypeOK, Presses, FutureIsBlank,
           StepsFit, SpinnerIsOn, SpinnerHasACause, AtWork, Moves, Turns
  <2>10. NothingShownBeside'
    BY <1>4, <1>1, <2>1, <2>2 DEF VoiceInv, TypeOK, Presses, FutureIsBlank,
           StepsFit, NothingShownBeside, NoOtherShown, Moves, Turns
  <2>11. NoOtherShown'
    BY <1>4, <1>1, <2>1, <2>2 DEF VoiceInv, TypeOK, Presses, FutureIsBlank,
           StepsFit, NoOtherShown, Moves, Turns
  <2>12. NoRoomLeftBehind'
    BY <1>4, <1>1, <2>1, <2>2 DEF VoiceInv, TypeOK, Presses, FutureIsBlank,
           StepsFit, RoomsConnect, PendingIsLatest, LatestIsPending, SpinnerIsOn,
           NothingShownBeside, NoRoomLeftBehind, AtWork, Open, Moves, Turns
  <2>13. OnlyTheLatest'
    BY <1>4, <1>1, <2>1, <2>2 DEF VoiceInv, TypeOK, Presses, RoomsConnect,
           NoRoomLeftBehind, PendingIsLatest, OnlyTheLatest, Open, Moves, Turns
  <2>14. QED
    BY <2>3, <2>4, <2>5, <2>6, <2>7, <2>8, <2>9, <2>10, <2>11, <2>12, <2>13 DEF VoiceInv
<1>5. QED
  BY <1>2, <1>3, <1>4

LEMMA TokenArrivesKeeps ==
  ASSUME VoiceInv, NEW a \in Presses, TokenArrives(a)
  PROVE  VoiceInv'
<1> TypeOK
  BY DEF VoiceInv
<1> USE VoiceAssumption
<1>1. press[a].step = "token" /\ press[a].targets > 0 /\ UNCHANGED <<mounted, attempt, shown>>
  BY DEF VoiceInv, StepsFit, TokenArrives, Closed, Open
<1>2. CASE IsLatest(a)
  <2>1. Moves(a, "connect", press[a].kind, press[a].of, press[a].targets - 1)
    BY <1>2, <1>1, ConnectMoves DEF TokenArrives
  <2>2. Turns(a, "connecting")
    BY <1>2, TurnRoom DEF TokenArrives
  <2>3. a = attempt /\ pending' = a /\ UNCHANGED <<inFlight, connecting>>
    BY <1>2 DEF TokenArrives, IsLatest
  <2>4. TypeOK'
    BY <1>2, <1>1, <2>1, <2>2, <2>3 DEF TypeOK, Presses, Moves, Turns
  <2>5. FutureIsBlank'
    BY <1>2, <1>1, <2>1, <2>2, <2>3 DEF VoiceInv, TypeOK, Presses, FutureIsBlank,
           Moves, Turns
  <2>6. StepsFit'
    BY <1>2, <1>1, <2>1, <2>2, <2>3 DEF VoiceInv, TypeOK, Presses, FutureIsBlank,
           StepsFit, Moves, Turns
  <2>7. RoomsConnect'
    BY <1>2, <1>1, <2>1, <2>2, <2>3 DEF VoiceInv, TypeOK, Presses, FutureIsBlank,
           StepsFit, RoomsConnect, Moves, Turns
  <2>8. PendingIsLatest' /\ LatestIsPending'
    BY <1>2, <1>1, <2>1, <2>2, <2>3 DEF VoiceInv, TypeOK, Presses, FutureIsBlank,
           StepsFit, PendingIsLatest, LatestIsPending, SpinnerIsOn, Moves, Turns
  <2>9. SpinnerIsOn'
    BY <1>2, <1>1, <2>1, <2>2, <2>3 DEF VoiceInv, TypeOK, Presses, FutureIsBlank,
           StepsFit, SpinnerIsOn, AtWork, Moves, Turns
  <2>10. SpinnerHasACause'
    BY <1>2, <1>1, <2>1, <2>2, <2>3 DEF VoiceInv, TypeOK, Presses, FutureIsBlank,
           StepsFit, SpinnerIsOn, SpinnerHasACause, AtWork, Moves, Turns
  <2>11. NothingShownBeside'
    BY <1>2, <1>1, <2>1, <2>2, <2>3 DEF VoiceInv, TypeOK, Presses, FutureIsBlank,
           StepsFit, NothingShownBeside, NoOtherShown, Moves, Turns
  <2>12. NoOtherShown'
    BY <1>2, <1>1, <2>1, <2>2, <2>3 DEF VoiceInv, TypeOK, Presses, FutureIsBlank,
           StepsFit, NoOtherShown, Moves, Turns
  <2>13. NoRoomLeftBehind'
    BY <1>2, <1>1, <2>1, <2>2, <2>3 DEF VoiceInv, TypeOK, Presses, FutureIsBlank,
           StepsFit, RoomsConnect, PendingIsLatest, LatestIsPending, SpinnerIsOn,
           NothingShownBeside, NoRoomLeftBehind, AtWork, Open, Moves, Turns
  <2>14. OnlyTheLatest'
    BY <1>2, <1>1, <2>1, <2>2, <2>3 DEF VoiceInv, TypeOK, Presses, RoomsConnect,
           NoRoomLeftBehind, PendingIsLatest, OnlyTheLatest, Open, Moves, Turns
  <2>15. QED
    BY <2>4, <2>5, <2>6, <2>7, <2>8, <2>9, <2>10, <2>11, <2>12, <2>13, <2>14 DEF VoiceInv
<1>3. CASE ~IsLatest(a)
  <2>1. Moves(a, "done", press[a].kind, press[a].of, press[a].targets)
    BY <1>3, GotoMoves DEF TokenArrives, Steps
  <2>2. /\ a # attempt /\ UNCHANGED <<pending, connecting, room>>
        /\ inFlight' \in {inFlight, NoChannel}
    BY <1>3 DEF TokenArrives, Finally, IsLatest
  <2>3. TypeOK'
    BY <1>3, <1>1, <2>1, <2>2 DEF TypeOK, Presses, Moves, Turns
  <2>4. FutureIsBlank'
    BY <1>3, <1>1, <2>1, <2>2 DEF VoiceInv, TypeOK, Presses, FutureIsBlank, Moves,
           Turns
  <2>5. StepsFit'
    BY <1>3, <1>1, <2>1, <2>2 DEF VoiceInv, TypeOK, Presses, FutureIsBlank,
           StepsFit, Moves, Turns
  <2>6. RoomsConnect'
    BY <1>3, <1>1, <2>1, <2>2 DEF VoiceInv, TypeOK, Presses, FutureIsBlank,
           StepsFit, RoomsConnect, Moves, Turns
  <2>7. PendingIsLatest' /\ LatestIsPending'
    BY <1>3, <1>1, <2>1, <2>2 DEF VoiceInv, TypeOK, Presses, FutureIsBlank,
           StepsFit, PendingIsLatest, LatestIsPending, SpinnerIsOn, Moves, Turns
  <2>8. SpinnerIsOn'
    BY <1>3, <1>1, <2>1, <2>2 DEF VoiceInv, TypeOK, Presses, FutureIsBlank,
           StepsFit, SpinnerIsOn, AtWork, Moves, Turns
  <2>9. SpinnerHasACause'
    BY <1>3, <1>1, <2>1, <2>2 DEF VoiceInv, TypeOK, Presses, FutureIsBlank,
           StepsFit, SpinnerIsOn, SpinnerHasACause, AtWork, Moves, Turns
  <2>10. NothingShownBeside'
    BY <1>3, <1>1, <2>1, <2>2 DEF VoiceInv, TypeOK, Presses, FutureIsBlank,
           StepsFit, NothingShownBeside, NoOtherShown, Moves, Turns
  <2>11. NoOtherShown'
    BY <1>3, <1>1, <2>1, <2>2 DEF VoiceInv, TypeOK, Presses, FutureIsBlank,
           StepsFit, NoOtherShown, Moves, Turns
  <2>12. NoRoomLeftBehind'
    BY <1>3, <1>1, <2>1, <2>2 DEF VoiceInv, TypeOK, Presses, FutureIsBlank,
           StepsFit, RoomsConnect, PendingIsLatest, LatestIsPending, SpinnerIsOn,
           NothingShownBeside, NoRoomLeftBehind, AtWork, Open, Moves, Turns
  <2>13. OnlyTheLatest'
    BY <1>3, <1>1, <2>1, <2>2 DEF VoiceInv, TypeOK, Presses, RoomsConnect,
           NoRoomLeftBehind, PendingIsLatest, OnlyTheLatest, Open, Moves, Turns
  <2>14. QED
    BY <2>3, <2>4, <2>5, <2>6, <2>7, <2>8, <2>9, <2>10, <2>11, <2>12, <2>13 DEF VoiceInv
<1>4. QED
  BY <1>2, <1>3

LEMMA TokenFailsKeeps ==
  ASSUME VoiceInv, NEW a \in Presses, TokenFails(a)
  PROVE  VoiceInv'
<1> TypeOK
  BY DEF VoiceInv
<1> USE VoiceAssumption
<1>1. press[a].step = "token" /\ UNCHANGED <<mounted, attempt, shown, room>>
  BY DEF VoiceInv, StepsFit, TokenFails, Closed, Open
<1>2. CASE IsLatest(a)
  <2>1. Moves(a, "done", press[a].kind, press[a].of, press[a].targets)
    BY <1>2, GotoMoves DEF TokenFails, Steps
  <2>2. /\ a = attempt /\ pending' = 0 /\ connecting' = (connecting /\ ~mounted)
        /\ inFlight' \in {inFlight, NoChannel} /\ UNCHANGED room
    BY <1>2 DEF TypeOK, TokenFails, Finally, IsLatest
  <2>3. TypeOK'
    BY <1>2, <1>1, <2>1, <2>2 DEF TypeOK, Presses, Moves, Turns
  <2>4. FutureIsBlank'
    BY <1>2, <1>1, <2>1, <2>2 DEF VoiceInv, TypeOK, Presses, FutureIsBlank, Moves,
           Turns
  <2>5. StepsFit'
    BY <1>2, <1>1, <2>1, <2>2 DEF VoiceInv, TypeOK, Presses, FutureIsBlank,
           StepsFit, Moves, Turns
  <2>6. RoomsConnect'
    BY <1>2, <1>1, <2>1, <2>2 DEF VoiceInv, TypeOK, Presses, FutureIsBlank,
           StepsFit, RoomsConnect, Moves, Turns
  <2>7. PendingIsLatest' /\ LatestIsPending'
    BY <1>2, <1>1, <2>1, <2>2 DEF VoiceInv, TypeOK, Presses, FutureIsBlank,
           StepsFit, PendingIsLatest, LatestIsPending, SpinnerIsOn, Moves, Turns
  <2>8. SpinnerIsOn'
    BY <1>2, <1>1, <2>1, <2>2 DEF VoiceInv, TypeOK, Presses, FutureIsBlank,
           StepsFit, SpinnerIsOn, AtWork, Moves, Turns
  <2>9. SpinnerHasACause'
    BY <1>2, <1>1, <2>1, <2>2 DEF VoiceInv, TypeOK, Presses, FutureIsBlank,
           StepsFit, SpinnerIsOn, SpinnerHasACause, AtWork, Moves, Turns
  <2>10. NothingShownBeside'
    BY <1>2, <1>1, <2>1, <2>2 DEF VoiceInv, TypeOK, Presses, FutureIsBlank,
           StepsFit, NothingShownBeside, NoOtherShown, Moves, Turns
  <2>11. NoOtherShown'
    BY <1>2, <1>1, <2>1, <2>2 DEF VoiceInv, TypeOK, Presses, FutureIsBlank,
           StepsFit, NoOtherShown, Moves, Turns
  <2>12. NoRoomLeftBehind'
    BY <1>2, <1>1, <2>1, <2>2 DEF VoiceInv, TypeOK, Presses, FutureIsBlank,
           StepsFit, RoomsConnect, PendingIsLatest, LatestIsPending, SpinnerIsOn,
           NothingShownBeside, NoRoomLeftBehind, AtWork, Open, Moves, Turns
  <2>13. OnlyTheLatest'
    BY <1>2, <1>1, <2>1, <2>2 DEF VoiceInv, TypeOK, Presses, RoomsConnect,
           NoRoomLeftBehind, PendingIsLatest, OnlyTheLatest, Open, Moves, Turns
  <2>14. QED
    BY <2>3, <2>4, <2>5, <2>6, <2>7, <2>8, <2>9, <2>10, <2>11, <2>12, <2>13 DEF VoiceInv
<1>3. CASE ~IsLatest(a)
  <2>1. Moves(a, "done", press[a].kind, press[a].of, press[a].targets)
    BY <1>3, GotoMoves DEF TokenFails, Steps
  <2>2. /\ a # attempt /\ UNCHANGED <<pending, connecting, room>>
        /\ inFlight' \in {inFlight, NoChannel}
    BY <1>3 DEF TokenFails, Finally, IsLatest
  <2>3. TypeOK'
    BY <1>3, <1>1, <2>1, <2>2 DEF TypeOK, Presses, Moves, Turns
  <2>4. FutureIsBlank'
    BY <1>3, <1>1, <2>1, <2>2 DEF VoiceInv, TypeOK, Presses, FutureIsBlank, Moves,
           Turns
  <2>5. StepsFit'
    BY <1>3, <1>1, <2>1, <2>2 DEF VoiceInv, TypeOK, Presses, FutureIsBlank,
           StepsFit, Moves, Turns
  <2>6. RoomsConnect'
    BY <1>3, <1>1, <2>1, <2>2 DEF VoiceInv, TypeOK, Presses, FutureIsBlank,
           StepsFit, RoomsConnect, Moves, Turns
  <2>7. PendingIsLatest' /\ LatestIsPending'
    BY <1>3, <1>1, <2>1, <2>2 DEF VoiceInv, TypeOK, Presses, FutureIsBlank,
           StepsFit, PendingIsLatest, LatestIsPending, SpinnerIsOn, Moves, Turns
  <2>8. SpinnerIsOn'
    BY <1>3, <1>1, <2>1, <2>2 DEF VoiceInv, TypeOK, Presses, FutureIsBlank,
           StepsFit, SpinnerIsOn, AtWork, Moves, Turns
  <2>9. SpinnerHasACause'
    BY <1>3, <1>1, <2>1, <2>2 DEF VoiceInv, TypeOK, Presses, FutureIsBlank,
           StepsFit, SpinnerIsOn, SpinnerHasACause, AtWork, Moves, Turns
  <2>10. NothingShownBeside'
    BY <1>3, <1>1, <2>1, <2>2 DEF VoiceInv, TypeOK, Presses, FutureIsBlank,
           StepsFit, NothingShownBeside, NoOtherShown, Moves, Turns
  <2>11. NoOtherShown'
    BY <1>3, <1>1, <2>1, <2>2 DEF VoiceInv, TypeOK, Presses, FutureIsBlank,
           StepsFit, NoOtherShown, Moves, Turns
  <2>12. NoRoomLeftBehind'
    BY <1>3, <1>1, <2>1, <2>2 DEF VoiceInv, TypeOK, Presses, FutureIsBlank,
           StepsFit, RoomsConnect, PendingIsLatest, LatestIsPending, SpinnerIsOn,
           NothingShownBeside, NoRoomLeftBehind, AtWork, Open, Moves, Turns
  <2>13. OnlyTheLatest'
    BY <1>3, <1>1, <2>1, <2>2 DEF VoiceInv, TypeOK, Presses, RoomsConnect,
           NoRoomLeftBehind, PendingIsLatest, OnlyTheLatest, Open, Moves, Turns
  <2>14. QED
    BY <2>3, <2>4, <2>5, <2>6, <2>7, <2>8, <2>9, <2>10, <2>11, <2>12, <2>13 DEF VoiceInv
<1>4. QED
  BY <1>2, <1>3

LEMMA RoomConnectsKeeps ==
  ASSUME VoiceInv, NEW a \in Presses, RoomConnects(a)
  PROVE  VoiceInv'
<1> TypeOK
  BY DEF VoiceInv
<1> USE VoiceAssumption
<1>1. press[a].step = "connect" /\ room[a] = "connecting" /\ UNCHANGED <<mounted, attempt>>
  BY DEF VoiceInv, StepsFit, RoomConnects, Closed, Open
<1>2. CASE IsLatest(a)
  <2>1. Moves(a, "done", press[a].kind, press[a].of, press[a].targets)
    BY <1>2, GotoMoves DEF RoomConnects, Steps
  <2>2. Turns(a, "live")
    BY <1>2, TurnRoom DEF RoomConnects
  <2>3. /\ a = attempt /\ pending' = 0 /\ connecting' = (connecting /\ ~mounted)
        /\ inFlight' \in {inFlight, NoChannel} /\ shown' = IF mounted THEN a ELSE shown
    BY <1>2 DEF TypeOK, RoomConnects, IsLatest
  <2>4. TypeOK'
    BY <1>2, <1>1, <2>1, <2>2, <2>3 DEF TypeOK, Presses, Moves, Turns
  <2>5. FutureIsBlank'
    BY <1>2, <1>1, <2>1, <2>2, <2>3 DEF VoiceInv, TypeOK, Presses, FutureIsBlank,
           Moves, Turns
  <2>6. StepsFit'
    BY <1>2, <1>1, <2>1, <2>2, <2>3 DEF VoiceInv, TypeOK, Presses, FutureIsBlank,
           StepsFit, Moves, Turns
  <2>7. RoomsConnect'
    BY <1>2, <1>1, <2>1, <2>2, <2>3 DEF VoiceInv, TypeOK, Presses, FutureIsBlank,
           StepsFit, RoomsConnect, Moves, Turns
  <2>8. PendingIsLatest' /\ LatestIsPending'
    BY <1>2, <1>1, <2>1, <2>2, <2>3 DEF VoiceInv, TypeOK, Presses, FutureIsBlank,
           StepsFit, PendingIsLatest, LatestIsPending, SpinnerIsOn, Moves, Turns
  <2>9. SpinnerIsOn'
    BY <1>2, <1>1, <2>1, <2>2, <2>3 DEF VoiceInv, TypeOK, Presses, FutureIsBlank,
           StepsFit, SpinnerIsOn, AtWork, Moves, Turns
  <2>10. SpinnerHasACause'
    BY <1>2, <1>1, <2>1, <2>2, <2>3 DEF VoiceInv, TypeOK, Presses, FutureIsBlank,
           StepsFit, SpinnerIsOn, SpinnerHasACause, AtWork, Moves, Turns
  <2>11. NothingShownBeside'
    BY <1>2, <1>1, <2>1, <2>2, <2>3 DEF VoiceInv, TypeOK, Presses, FutureIsBlank,
           StepsFit, NothingShownBeside, NoOtherShown, Moves, Turns
  <2>12. NoOtherShown'
    BY <1>2, <1>1, <2>1, <2>2, <2>3 DEF VoiceInv, TypeOK, Presses, FutureIsBlank,
           StepsFit, NoOtherShown, Moves, Turns
  <2>13. NoRoomLeftBehind'
    BY <1>2, <1>1, <2>1, <2>2, <2>3 DEF VoiceInv, TypeOK, Presses, FutureIsBlank,
           StepsFit, RoomsConnect, PendingIsLatest, LatestIsPending, SpinnerIsOn,
           NothingShownBeside, NoRoomLeftBehind, AtWork, Open, Moves, Turns
  <2>14. OnlyTheLatest'
    BY <1>2, <1>1, <2>1, <2>2, <2>3 DEF VoiceInv, TypeOK, Presses, RoomsConnect,
           NoRoomLeftBehind, PendingIsLatest, OnlyTheLatest, Open, Moves, Turns
  <2>15. QED
    BY <2>4, <2>5, <2>6, <2>7, <2>8, <2>9, <2>10, <2>11, <2>12, <2>13, <2>14 DEF VoiceInv
<1>3. CASE ~IsLatest(a)
  <2>1. Moves(a, "discard", press[a].kind, a, press[a].targets)
    BY <1>3, AwaitMoves DEF RoomConnects, Steps, Presses
  <2>2. Turns(a, "closing")
    BY <1>3, TurnRoom DEF RoomConnects
  <2>3. a # attempt /\ UNCHANGED <<pending, connecting, inFlight, shown>>
    BY <1>3 DEF RoomConnects, IsLatest
  <2>4. TypeOK'
    BY <1>3, <1>1, <2>1, <2>2, <2>3 DEF TypeOK, Presses, Moves, Turns
  <2>5. FutureIsBlank'
    BY <1>3, <1>1, <2>1, <2>2, <2>3 DEF VoiceInv, TypeOK, Presses, FutureIsBlank,
           Moves, Turns
  <2>6. StepsFit'
    BY <1>3, <1>1, <2>1, <2>2, <2>3 DEF VoiceInv, TypeOK, Presses, FutureIsBlank,
           StepsFit, Moves, Turns
  <2>7. RoomsConnect'
    BY <1>3, <1>1, <2>1, <2>2, <2>3 DEF VoiceInv, TypeOK, Presses, FutureIsBlank,
           StepsFit, RoomsConnect, Moves, Turns
  <2>8. PendingIsLatest' /\ LatestIsPending'
    BY <1>3, <1>1, <2>1, <2>2, <2>3 DEF VoiceInv, TypeOK, Presses, FutureIsBlank,
           StepsFit, PendingIsLatest, LatestIsPending, SpinnerIsOn, Moves, Turns
  <2>9. SpinnerIsOn'
    BY <1>3, <1>1, <2>1, <2>2, <2>3 DEF VoiceInv, TypeOK, Presses, FutureIsBlank,
           StepsFit, SpinnerIsOn, AtWork, Moves, Turns
  <2>10. SpinnerHasACause'
    BY <1>3, <1>1, <2>1, <2>2, <2>3 DEF VoiceInv, TypeOK, Presses, FutureIsBlank,
           StepsFit, SpinnerIsOn, SpinnerHasACause, AtWork, Moves, Turns
  <2>11. NothingShownBeside'
    BY <1>3, <1>1, <2>1, <2>2, <2>3 DEF VoiceInv, TypeOK, Presses, FutureIsBlank,
           StepsFit, NothingShownBeside, NoOtherShown, Moves, Turns
  <2>12. NoOtherShown'
    BY <1>3, <1>1, <2>1, <2>2, <2>3 DEF VoiceInv, TypeOK, Presses, FutureIsBlank,
           StepsFit, NoOtherShown, Moves, Turns
  <2>13. NoRoomLeftBehind'
    BY <1>3, <1>1, <2>1, <2>2, <2>3 DEF VoiceInv, TypeOK, Presses, FutureIsBlank,
           StepsFit, RoomsConnect, PendingIsLatest, LatestIsPending, SpinnerIsOn,
           NothingShownBeside, NoRoomLeftBehind, AtWork, Open, Moves, Turns
  <2>14. OnlyTheLatest'
    BY <1>3, <1>1, <2>1, <2>2, <2>3 DEF VoiceInv, TypeOK, Presses, RoomsConnect,
           NoRoomLeftBehind, PendingIsLatest, OnlyTheLatest, Open, Moves, Turns
  <2>15. QED
    BY <2>4, <2>5, <2>6, <2>7, <2>8, <2>9, <2>10, <2>11, <2>12, <2>13, <2>14 DEF VoiceInv
<1>4. QED
  BY <1>2, <1>3

LEMMA ConnectFailsKeeps ==
  ASSUME VoiceInv, NEW a \in Presses, ConnectFails(a)
  PROVE  VoiceInv'
<1> TypeOK
  BY DEF VoiceInv
<1> USE VoiceAssumption
<1>1. press[a].step = "connect" /\ UNCHANGED <<mounted, attempt, connecting, inFlight, pending, shown>>
  BY DEF VoiceInv, StepsFit, ConnectFails, Closed, Open
<1>2. Moves(a, "drop", press[a].kind, a, press[a].targets)
  BY AwaitMoves DEF ConnectFails, Steps, Presses
<1>3. \E s \in {"none", "idle", "closing"} :
        Turns(a, s) /\ (room[a] = "none" => s = "none")
  BY DisconnectTurns DEF ConnectFails
<1>4. TypeOK'
  BY <1>1, <1>2, <1>3 DEF TypeOK, Presses, Moves, Turns
<1>5. FutureIsBlank'
  BY <1>1, <1>2, <1>3 DEF VoiceInv, TypeOK, Presses, FutureIsBlank, Moves, Turns
<1>6. StepsFit'
  BY <1>1, <1>2, <1>3 DEF VoiceInv, TypeOK, Presses, FutureIsBlank, StepsFit, Moves,
         Turns
<1>7. RoomsConnect'
  BY <1>1, <1>2, <1>3 DEF VoiceInv, TypeOK, Presses, FutureIsBlank, StepsFit,
         RoomsConnect, Moves, Turns
<1>8. PendingIsLatest' /\ LatestIsPending'
  BY <1>1, <1>2, <1>3 DEF VoiceInv, TypeOK, Presses, FutureIsBlank, StepsFit,
         PendingIsLatest, LatestIsPending, SpinnerIsOn, Moves, Turns
<1>9. SpinnerIsOn'
  BY <1>1, <1>2, <1>3 DEF VoiceInv, TypeOK, Presses, FutureIsBlank, StepsFit,
         SpinnerIsOn, AtWork, Moves, Turns
<1>10. SpinnerHasACause'
  BY <1>1, <1>2, <1>3 DEF VoiceInv, TypeOK, Presses, FutureIsBlank, StepsFit,
         SpinnerIsOn, SpinnerHasACause, AtWork, Moves, Turns
<1>11. NothingShownBeside'
  BY <1>1, <1>2, <1>3 DEF VoiceInv, TypeOK, Presses, FutureIsBlank, StepsFit,
         NothingShownBeside, NoOtherShown, Moves, Turns
<1>12. NoOtherShown'
  BY <1>1, <1>2, <1>3 DEF VoiceInv, TypeOK, Presses, FutureIsBlank, StepsFit,
         NoOtherShown, Moves, Turns
<1>13. NoRoomLeftBehind'
  BY <1>1, <1>2, <1>3 DEF VoiceInv, TypeOK, Presses, FutureIsBlank, StepsFit,
         RoomsConnect, PendingIsLatest, LatestIsPending, SpinnerIsOn,
         NothingShownBeside, NoRoomLeftBehind, AtWork, Open, Moves, Turns
<1>14. OnlyTheLatest'
  BY <1>1, <1>2, <1>3 DEF VoiceInv, TypeOK, Presses, RoomsConnect, NoRoomLeftBehind,
         PendingIsLatest, OnlyTheLatest, Open, Moves, Turns
<1>15. QED
  BY <1>4, <1>5, <1>6, <1>7, <1>8, <1>9, <1>10, <1>11, <1>12, <1>13, <1>14 DEF VoiceInv

LEMMA NextTargetKeeps ==
  ASSUME VoiceInv, NEW a \in Presses, NextTarget(a)
  PROVE  VoiceInv'
<1> TypeOK
  BY DEF VoiceInv
<1> USE VoiceAssumption
<1>1. press[a].step = "drop" /\ ~Open(a) /\ UNCHANGED <<mounted, attempt, shown>>
  BY DEF VoiceInv, StepsFit, NextTarget, Closed, Open
<1>2. CASE IsLatest(a) /\ press[a].targets > 0
  <2>1. Moves(a, "connect", press[a].kind, press[a].of, press[a].targets - 1)
    BY <1>2, ConnectMoves DEF NextTarget
  <2>2. Turns(a, "connecting")
    BY <1>2, TurnRoom DEF NextTarget
  <2>3. a = attempt /\ UNCHANGED <<pending, inFlight, connecting>>
    BY <1>2 DEF NextTarget, IsLatest
  <2>4. TypeOK'
    BY <1>2, <1>1, <2>1, <2>2, <2>3 DEF TypeOK, Presses, Moves, Turns
  <2>5. FutureIsBlank'
    BY <1>2, <1>1, <2>1, <2>2, <2>3 DEF VoiceInv, TypeOK, Presses, FutureIsBlank,
           Moves, Turns
  <2>6. StepsFit'
    BY <1>2, <1>1, <2>1, <2>2, <2>3 DEF VoiceInv, TypeOK, Presses, FutureIsBlank,
           StepsFit, Moves, Turns
  <2>7. RoomsConnect'
    BY <1>2, <1>1, <2>1, <2>2, <2>3 DEF VoiceInv, TypeOK, Presses, FutureIsBlank,
           StepsFit, RoomsConnect, Moves, Turns
  <2>8. PendingIsLatest' /\ LatestIsPending'
    BY <1>2, <1>1, <2>1, <2>2, <2>3 DEF VoiceInv, TypeOK, Presses, FutureIsBlank,
           StepsFit, PendingIsLatest, LatestIsPending, SpinnerIsOn, Moves, Turns
  <2>9. SpinnerIsOn'
    BY <1>2, <1>1, <2>1, <2>2, <2>3 DEF VoiceInv, TypeOK, Presses, FutureIsBlank,
           StepsFit, SpinnerIsOn, AtWork, Moves, Turns
  <2>10. SpinnerHasACause'
    BY <1>2, <1>1, <2>1, <2>2, <2>3 DEF VoiceInv, TypeOK, Presses, FutureIsBlank,
           StepsFit, SpinnerIsOn, SpinnerHasACause, AtWork, Moves, Turns
  <2>11. NothingShownBeside'
    BY <1>2, <1>1, <2>1, <2>2, <2>3 DEF VoiceInv, TypeOK, Presses, FutureIsBlank,
           StepsFit, NothingShownBeside, NoOtherShown, Moves, Turns
  <2>12. NoOtherShown'
    BY <1>2, <1>1, <2>1, <2>2, <2>3 DEF VoiceInv, TypeOK, Presses, FutureIsBlank,
           StepsFit, NoOtherShown, Moves, Turns
  <2>13. NoRoomLeftBehind'
    BY <1>2, <1>1, <2>1, <2>2, <2>3 DEF VoiceInv, TypeOK, Presses, FutureIsBlank,
           StepsFit, RoomsConnect, PendingIsLatest, LatestIsPending, SpinnerIsOn,
           NothingShownBeside, NoRoomLeftBehind, AtWork, Open, Moves, Turns
  <2>14. OnlyTheLatest'
    BY <1>2, <1>1, <2>1, <2>2, <2>3 DEF VoiceInv, TypeOK, Presses, RoomsConnect,
           NoRoomLeftBehind, PendingIsLatest, OnlyTheLatest, Open, Moves, Turns
  <2>15. QED
    BY <2>4, <2>5, <2>6, <2>7, <2>8, <2>9, <2>10, <2>11, <2>12, <2>13, <2>14 DEF VoiceInv
<1>3. CASE IsLatest(a) /\ ~(press[a].targets > 0)
  <2>1. Moves(a, "done", press[a].kind, press[a].of, press[a].targets)
    BY <1>3, GotoMoves DEF NextTarget, Steps
  <2>2. /\ a = attempt /\ pending' = 0 /\ connecting' = (connecting /\ ~mounted)
        /\ inFlight' \in {inFlight, NoChannel} /\ UNCHANGED room
    BY <1>3 DEF TypeOK, NextTarget, Finally, IsLatest
  <2>3. TypeOK'
    BY <1>3, <1>1, <2>1, <2>2 DEF TypeOK, Presses, Moves, Turns
  <2>4. FutureIsBlank'
    BY <1>3, <1>1, <2>1, <2>2 DEF VoiceInv, TypeOK, Presses, FutureIsBlank, Moves,
           Turns
  <2>5. StepsFit'
    BY <1>3, <1>1, <2>1, <2>2 DEF VoiceInv, TypeOK, Presses, FutureIsBlank,
           StepsFit, Moves, Turns
  <2>6. RoomsConnect'
    BY <1>3, <1>1, <2>1, <2>2 DEF VoiceInv, TypeOK, Presses, FutureIsBlank,
           StepsFit, RoomsConnect, Moves, Turns
  <2>7. PendingIsLatest' /\ LatestIsPending'
    BY <1>3, <1>1, <2>1, <2>2 DEF VoiceInv, TypeOK, Presses, FutureIsBlank,
           StepsFit, PendingIsLatest, LatestIsPending, SpinnerIsOn, Moves, Turns
  <2>8. SpinnerIsOn'
    BY <1>3, <1>1, <2>1, <2>2 DEF VoiceInv, TypeOK, Presses, FutureIsBlank,
           StepsFit, SpinnerIsOn, AtWork, Moves, Turns
  <2>9. SpinnerHasACause'
    BY <1>3, <1>1, <2>1, <2>2 DEF VoiceInv, TypeOK, Presses, FutureIsBlank,
           StepsFit, SpinnerIsOn, SpinnerHasACause, AtWork, Moves, Turns
  <2>10. NothingShownBeside'
    BY <1>3, <1>1, <2>1, <2>2 DEF VoiceInv, TypeOK, Presses, FutureIsBlank,
           StepsFit, NothingShownBeside, NoOtherShown, Moves, Turns
  <2>11. NoOtherShown'
    BY <1>3, <1>1, <2>1, <2>2 DEF VoiceInv, TypeOK, Presses, FutureIsBlank,
           StepsFit, NoOtherShown, Moves, Turns
  <2>12. NoRoomLeftBehind'
    BY <1>3, <1>1, <2>1, <2>2 DEF VoiceInv, TypeOK, Presses, FutureIsBlank,
           StepsFit, RoomsConnect, PendingIsLatest, LatestIsPending, SpinnerIsOn,
           NothingShownBeside, NoRoomLeftBehind, AtWork, Open, Moves, Turns
  <2>13. OnlyTheLatest'
    BY <1>3, <1>1, <2>1, <2>2 DEF VoiceInv, TypeOK, Presses, RoomsConnect,
           NoRoomLeftBehind, PendingIsLatest, OnlyTheLatest, Open, Moves, Turns
  <2>14. QED
    BY <2>3, <2>4, <2>5, <2>6, <2>7, <2>8, <2>9, <2>10, <2>11, <2>12, <2>13 DEF VoiceInv
<1>4. CASE ~IsLatest(a)
  <2>1. Moves(a, "done", press[a].kind, press[a].of, press[a].targets)
    BY <1>4, GotoMoves DEF NextTarget, Steps
  <2>2. /\ a # attempt /\ UNCHANGED <<pending, connecting, room>>
        /\ inFlight' \in {inFlight, NoChannel}
    BY <1>4 DEF NextTarget, Finally, IsLatest
  <2>3. TypeOK'
    BY <1>4, <1>1, <2>1, <2>2 DEF TypeOK, Presses, Moves, Turns
  <2>4. FutureIsBlank'
    BY <1>4, <1>1, <2>1, <2>2 DEF VoiceInv, TypeOK, Presses, FutureIsBlank, Moves,
           Turns
  <2>5. StepsFit'
    BY <1>4, <1>1, <2>1, <2>2 DEF VoiceInv, TypeOK, Presses, FutureIsBlank,
           StepsFit, Moves, Turns
  <2>6. RoomsConnect'
    BY <1>4, <1>1, <2>1, <2>2 DEF VoiceInv, TypeOK, Presses, FutureIsBlank,
           StepsFit, RoomsConnect, Moves, Turns
  <2>7. PendingIsLatest' /\ LatestIsPending'
    BY <1>4, <1>1, <2>1, <2>2 DEF VoiceInv, TypeOK, Presses, FutureIsBlank,
           StepsFit, PendingIsLatest, LatestIsPending, SpinnerIsOn, Moves, Turns
  <2>8. SpinnerIsOn'
    BY <1>4, <1>1, <2>1, <2>2 DEF VoiceInv, TypeOK, Presses, FutureIsBlank,
           StepsFit, SpinnerIsOn, AtWork, Moves, Turns
  <2>9. SpinnerHasACause'
    BY <1>4, <1>1, <2>1, <2>2 DEF VoiceInv, TypeOK, Presses, FutureIsBlank,
           StepsFit, SpinnerIsOn, SpinnerHasACause, AtWork, Moves, Turns
  <2>10. NothingShownBeside'
    BY <1>4, <1>1, <2>1, <2>2 DEF VoiceInv, TypeOK, Presses, FutureIsBlank,
           StepsFit, NothingShownBeside, NoOtherShown, Moves, Turns
  <2>11. NoOtherShown'
    BY <1>4, <1>1, <2>1, <2>2 DEF VoiceInv, TypeOK, Presses, FutureIsBlank,
           StepsFit, NoOtherShown, Moves, Turns
  <2>12. NoRoomLeftBehind'
    BY <1>4, <1>1, <2>1, <2>2 DEF VoiceInv, TypeOK, Presses, FutureIsBlank,
           StepsFit, RoomsConnect, PendingIsLatest, LatestIsPending, SpinnerIsOn,
           NothingShownBeside, NoRoomLeftBehind, AtWork, Open, Moves, Turns
  <2>13. OnlyTheLatest'
    BY <1>4, <1>1, <2>1, <2>2 DEF VoiceInv, TypeOK, Presses, RoomsConnect,
           NoRoomLeftBehind, PendingIsLatest, OnlyTheLatest, Open, Moves, Turns
  <2>14. QED
    BY <2>3, <2>4, <2>5, <2>6, <2>7, <2>8, <2>9, <2>10, <2>11, <2>12, <2>13 DEF VoiceInv
<1>5. QED
  BY <1>2, <1>3, <1>4

LEMMA DiscardedKeeps ==
  ASSUME VoiceInv, NEW a \in Presses, Discarded(a)
  PROVE  VoiceInv'
<1> TypeOK
  BY DEF VoiceInv
<1> USE VoiceAssumption
<1>1. press[a].step = "discard" /\ UNCHANGED <<mounted, attempt, shown, room>>
  BY DEF VoiceInv, StepsFit, Discarded, Closed, Open
<1>2. CASE IsLatest(a)
  <2>1. Moves(a, "done", press[a].kind, press[a].of, press[a].targets)
    BY <1>2, GotoMoves DEF Discarded, Steps
  <2>2. /\ a = attempt /\ pending' = 0 /\ connecting' = (connecting /\ ~mounted)
        /\ inFlight' \in {inFlight, NoChannel} /\ UNCHANGED room
    BY <1>2 DEF TypeOK, Discarded, Finally, IsLatest
  <2>3. TypeOK'
    BY <1>2, <1>1, <2>1, <2>2 DEF TypeOK, Presses, Moves, Turns
  <2>4. FutureIsBlank'
    BY <1>2, <1>1, <2>1, <2>2 DEF VoiceInv, TypeOK, Presses, FutureIsBlank, Moves,
           Turns
  <2>5. StepsFit'
    BY <1>2, <1>1, <2>1, <2>2 DEF VoiceInv, TypeOK, Presses, FutureIsBlank,
           StepsFit, Moves, Turns
  <2>6. RoomsConnect'
    BY <1>2, <1>1, <2>1, <2>2 DEF VoiceInv, TypeOK, Presses, FutureIsBlank,
           StepsFit, RoomsConnect, Moves, Turns
  <2>7. PendingIsLatest' /\ LatestIsPending'
    BY <1>2, <1>1, <2>1, <2>2 DEF VoiceInv, TypeOK, Presses, FutureIsBlank,
           StepsFit, PendingIsLatest, LatestIsPending, SpinnerIsOn, Moves, Turns
  <2>8. SpinnerIsOn'
    BY <1>2, <1>1, <2>1, <2>2 DEF VoiceInv, TypeOK, Presses, FutureIsBlank,
           StepsFit, SpinnerIsOn, AtWork, Moves, Turns
  <2>9. SpinnerHasACause'
    BY <1>2, <1>1, <2>1, <2>2 DEF VoiceInv, TypeOK, Presses, FutureIsBlank,
           StepsFit, SpinnerIsOn, SpinnerHasACause, AtWork, Moves, Turns
  <2>10. NothingShownBeside'
    BY <1>2, <1>1, <2>1, <2>2 DEF VoiceInv, TypeOK, Presses, FutureIsBlank,
           StepsFit, NothingShownBeside, NoOtherShown, Moves, Turns
  <2>11. NoOtherShown'
    BY <1>2, <1>1, <2>1, <2>2 DEF VoiceInv, TypeOK, Presses, FutureIsBlank,
           StepsFit, NoOtherShown, Moves, Turns
  <2>12. NoRoomLeftBehind'
    BY <1>2, <1>1, <2>1, <2>2 DEF VoiceInv, TypeOK, Presses, FutureIsBlank,
           StepsFit, RoomsConnect, PendingIsLatest, LatestIsPending, SpinnerIsOn,
           NothingShownBeside, NoRoomLeftBehind, AtWork, Open, Moves, Turns
  <2>13. OnlyTheLatest'
    BY <1>2, <1>1, <2>1, <2>2 DEF VoiceInv, TypeOK, Presses, RoomsConnect,
           NoRoomLeftBehind, PendingIsLatest, OnlyTheLatest, Open, Moves, Turns
  <2>14. QED
    BY <2>3, <2>4, <2>5, <2>6, <2>7, <2>8, <2>9, <2>10, <2>11, <2>12, <2>13 DEF VoiceInv
<1>3. CASE ~IsLatest(a)
  <2>1. Moves(a, "done", press[a].kind, press[a].of, press[a].targets)
    BY <1>3, GotoMoves DEF Discarded, Steps
  <2>2. /\ a # attempt /\ UNCHANGED <<pending, connecting, room>>
        /\ inFlight' \in {inFlight, NoChannel}
    BY <1>3 DEF Discarded, Finally, IsLatest
  <2>3. TypeOK'
    BY <1>3, <1>1, <2>1, <2>2 DEF TypeOK, Presses, Moves, Turns
  <2>4. FutureIsBlank'
    BY <1>3, <1>1, <2>1, <2>2 DEF VoiceInv, TypeOK, Presses, FutureIsBlank, Moves,
           Turns
  <2>5. StepsFit'
    BY <1>3, <1>1, <2>1, <2>2 DEF VoiceInv, TypeOK, Presses, FutureIsBlank,
           StepsFit, Moves, Turns
  <2>6. RoomsConnect'
    BY <1>3, <1>1, <2>1, <2>2 DEF VoiceInv, TypeOK, Presses, FutureIsBlank,
           StepsFit, RoomsConnect, Moves, Turns
  <2>7. PendingIsLatest' /\ LatestIsPending'
    BY <1>3, <1>1, <2>1, <2>2 DEF VoiceInv, TypeOK, Presses, FutureIsBlank,
           StepsFit, PendingIsLatest, LatestIsPending, SpinnerIsOn, Moves, Turns
  <2>8. SpinnerIsOn'
    BY <1>3, <1>1, <2>1, <2>2 DEF VoiceInv, TypeOK, Presses, FutureIsBlank,
           StepsFit, SpinnerIsOn, AtWork, Moves, Turns
  <2>9. SpinnerHasACause'
    BY <1>3, <1>1, <2>1, <2>2 DEF VoiceInv, TypeOK, Presses, FutureIsBlank,
           StepsFit, SpinnerIsOn, SpinnerHasACause, AtWork, Moves, Turns
  <2>10. NothingShownBeside'
    BY <1>3, <1>1, <2>1, <2>2 DEF VoiceInv, TypeOK, Presses, FutureIsBlank,
           StepsFit, NothingShownBeside, NoOtherShown, Moves, Turns
  <2>11. NoOtherShown'
    BY <1>3, <1>1, <2>1, <2>2 DEF VoiceInv, TypeOK, Presses, FutureIsBlank,
           StepsFit, NoOtherShown, Moves, Turns
  <2>12. NoRoomLeftBehind'
    BY <1>3, <1>1, <2>1, <2>2 DEF VoiceInv, TypeOK, Presses, FutureIsBlank,
           StepsFit, RoomsConnect, PendingIsLatest, LatestIsPending, SpinnerIsOn,
           NothingShownBeside, NoRoomLeftBehind, AtWork, Open, Moves, Turns
  <2>13. OnlyTheLatest'
    BY <1>3, <1>1, <2>1, <2>2 DEF VoiceInv, TypeOK, Presses, RoomsConnect,
           NoRoomLeftBehind, PendingIsLatest, OnlyTheLatest, Open, Moves, Turns
  <2>14. QED
    BY <2>3, <2>4, <2>5, <2>6, <2>7, <2>8, <2>9, <2>10, <2>11, <2>12, <2>13 DEF VoiceInv
<1>4. QED
  BY <1>2, <1>3

LEMMA RoomEndsKeeps ==
  ASSUME VoiceInv, NEW r \in Presses, RoomEnds(r)
  PROVE  VoiceInv'
<1> TypeOK
  BY DEF VoiceInv
<1> USE VoiceAssumption
<1>1. TypeOK'
  BY DEF VoiceInv, TypeOK, Presses, StepsFit, Press, Steps, RoomEnds
<1>2. FutureIsBlank'
  BY DEF VoiceInv, TypeOK, Presses, FutureIsBlank, StepsFit, RoomEnds
<1>3. StepsFit'
  BY DEF VoiceInv, TypeOK, Presses, StepsFit, FutureIsBlank, RoomEnds
<1>4. RoomsConnect'
  BY DEF VoiceInv, TypeOK, Presses, RoomsConnect, FutureIsBlank, StepsFit, RoomEnds
<1>5. PendingIsLatest'
  BY DEF VoiceInv, TypeOK, Presses, PendingIsLatest, SpinnerIsOn, StepsFit,
         LatestIsPending, AtWork, RoomEnds
<1>6. LatestIsPending'
  BY DEF VoiceInv, TypeOK, Presses, LatestIsPending, FutureIsBlank, PendingIsLatest,
         StepsFit, RoomEnds
<1>7. SpinnerIsOn'
  BY DEF VoiceInv, TypeOK, Presses, SpinnerIsOn, StepsFit, FutureIsBlank, AtWork,
         RoomEnds
<1>8. NothingShownBeside'
  BY DEF VoiceInv, TypeOK, Presses, NothingShownBeside, StepsFit, FutureIsBlank,
         RoomEnds
<1>9. NoOtherShown'
  BY DEF VoiceInv, TypeOK, Presses, NoOtherShown, StepsFit, FutureIsBlank, RoomEnds
<1>10. NoRoomLeftBehind'
  BY DEF VoiceInv, TypeOK, Presses, NoRoomLeftBehind, FutureIsBlank, StepsFit,
         RoomsConnect, PendingIsLatest, LatestIsPending, NothingShownBeside,
         SpinnerIsOn, AtWork, RoomEnds
<1>11. OnlyTheLatest'
  BY DEF VoiceInv, TypeOK, Presses, OnlyTheLatest, NoRoomLeftBehind, RoomsConnect,
         Open, RoomEnds
<1>12. SpinnerHasACause'
  BY DEF VoiceInv, TypeOK, Presses, SpinnerHasACause, StepsFit, FutureIsBlank,
         AtWork, RoomEnds
<1>13. QED
  BY <1>1, <1>2, <1>3, <1>4, <1>5, <1>6, <1>7, <1>8, <1>9, <1>10, <1>11, <1>12 DEF VoiceInv

LEMMA StartKeeps == Init => VoiceInv
<1> SUFFICES ASSUME Init PROVE VoiceInv
  OBVIOUS
<1> USE VoiceAssumption
<1>1. Unpressed \in Press
  BY DEF Unpressed, Press, Steps
<1>2. \A a \in Presses : press[a] = Unpressed /\ room[a] = "none"
  BY DEF Init, InitAfter, Presses
<1>3. TypeOK
  <2>1. press \in [Presses -> Press]
    <3>1. press = [a \in Presses |-> Unpressed]
      BY DEF Init, InitAfter, Presses
    <3>2. QED
      BY <1>1, <3>1
  <2>2. room \in [Presses -> {"none", "idle", "connecting", "live", "closing"}]
    BY DEF Init, InitAfter
  <2>3. mounted \in BOOLEAN /\ connecting \in BOOLEAN /\ inFlight \in Channels \cup {NoChannel}
    BY DEF Init, InitAfter
  <2>4. attempt \in 0 .. MaxPresses /\ pending \in 0 .. MaxPresses /\ shown \in 0 .. MaxPresses
    BY DEF Init, InitAfter
  <2>5. QED
    BY <2>1, <2>2, <2>3, <2>4, Zenon DEF TypeOK
<1>4. attempt = 0 /\ pending = 0 /\ shown = 0 /\ ~connecting
  BY DEF Init, InitAfter
<1>5. \A a \in Presses : a > 0 /\ press[a].step = "idle"
  BY <1>2 DEF Unpressed, Presses
<1>6. QED
  BY <1>2, <1>3, <1>4, <1>5 DEF VoiceInv, FutureIsBlank, StepsFit, RoomsConnect,
     PendingIsLatest, LatestIsPending, SpinnerIsOn, NothingShownBeside, NoOtherShown,
     NoRoomLeftBehind, OnlyTheLatest, SpinnerHasACause, Open, Presses

LEMMA StepKeeps == VoiceInv /\ [Next]_vars => VoiceInv'
<1> SUFFICES ASSUME VoiceInv, [Next]_vars PROVE VoiceInv'
  OBVIOUS
<1>1. CASE \E c \in Channels : JoinVoiceChannel(c)
  BY <1>1, JoinVoiceChannelKeeps
<1>2. CASE LeaveVoiceChannel
  BY <1>2, LeaveVoiceChannelKeeps
<1>3. CASE Unmount
  BY <1>3, UnmountKeeps
<1>4. ASSUME NEW a \in Presses, Handler(a) PROVE VoiceInv'
  BY <1>4, PendingIsClosedKeeps, ShownIsClosedKeeps, TokenArrivesKeeps, TokenFailsKeeps,
     RoomConnectsKeeps, ConnectFailsKeeps, NextTargetKeeps, DiscardedKeeps DEF Handler
<1>5. CASE \E r \in Presses : RoomEnds(r)
  BY <1>5, RoomEndsKeeps
<1>6. CASE UNCHANGED vars
  BY <1>6 DEF vars, VoiceInv, TypeOK, FutureIsBlank, StepsFit, RoomsConnect,
     PendingIsLatest, LatestIsPending, SpinnerIsOn, NothingShownBeside, NoOtherShown,
     NoRoomLeftBehind, OnlyTheLatest, SpinnerHasACause, Open, AtWork
<1>7. QED
  BY <1>1, <1>2, <1>3, <1>4, <1>5, <1>6 DEF Next

LEMMA VoiceInvariant == Spec => []VoiceInv
  BY StartKeeps, StepKeeps, PTL DEF Spec

-----------------------------------------------------------------------------
(* What the application shell promises.                                      *)

\* No room stays open with nothing on the page to hang it up, whatever joins,
\* leaves, failures and timeouts overlap (joinVoiceChannel and
\* handleLeaveVoiceChannel in AppShell.tsx).
THEOREM NobodyIsLeftBehind == Spec => []NoRoomLeftBehind
<1>1. VoiceInv => NoRoomLeftBehind
  BY DEF VoiceInv
<1>2. QED
  BY <1>1, VoiceInvariant, PTL

\* Two rooms are never open together: each is the one shown or the one of the
\* latest press, and while the latest press connects no room is shown.
THEOREM OneRoomAtATime == Spec => []OneRoomOpen
<1>1. VoiceInv => OneRoomOpen
  <2> SUFFICES ASSUME VoiceInv, NEW q \in Presses, NEW r \in Presses, Open(q), Open(r)
               PROVE  q = r
    BY DEF OneRoomOpen, Open
  <2>1. CASE mounted
    <3>1. ASSUME NEW p \in Presses, Open(p)
          PROVE  shown = p \/ (attempt = p /\ shown = 0)
      BY <2>1, <3>1 DEF VoiceInv, NoRoomLeftBehind, NothingShownBeside, Open
    <3>2. QED
      BY <3>1 DEF Presses
  <2>2. CASE ~mounted
    BY <2>2 DEF VoiceInv, OnlyTheLatest
  <2>3. QED
    BY <2>1, <2>2
<1>2. QED
  BY <1>1, VoiceInvariant, PTL

\* The spinner that blocks every join is on only for the latest press.
THEOREM SpinnerIsExplained == Spec => []SpinnerHasACause
<1>1. VoiceInv => SpinnerHasACause
  BY DEF VoiceInv
<1>2. QED
  BY <1>1, VoiceInvariant, PTL

\* A join that was overtaken never shows its room: only RoomConnects shows
\* one, and it asks first whether it is still the latest press.
THEOREM TheLatestPressWins == Spec => LatestPressWins
<1> DEFINE A == shown' # shown /\ shown' # 0 => shown' = attempt'
<1>1. ASSUME NEW a \in Presses, Handler(a) PROVE A
  BY <1>1 DEF Handler, PendingIsClosed, ShownIsClosed, TokenArrives, TokenFails,
     RoomConnects, ConnectFails, NextTarget, Discarded, IsLatest
<1>2. Next => A
  BY <1>1 DEF Next, JoinVoiceChannel, LeaveVoiceChannel, Unmount, RoomEnds
<1>3. [Next]_vars => [A]_vars
  BY <1>2
<1>4. QED
  BY <1>3, PTL DEF Spec, LatestPressWins

==============================================================================
