------------------------------ MODULE MCVoice ------------------------------
(* Two voice channels of one server and a second server without any.  One  *)
(* initial state keeps all presses for the joins and leaves, the other     *)
(* gives one of them up for the moves of the other user and the visit to   *)
(* the second server.                                                      *)
EXTENDS VoiceSidebar

CONSTANTS c1, c2, s1, s2

MCChannels == {c1, c2}
MCServers == {s1, s2}
MCServerOf == [c \in MCChannels |-> s1]

MCSpec ==
  /\ SidebarInitAfter(0, MaxMoves, MaxVisits) \/ SidebarInitAfter(1, 0, 0)
  /\ [][SidebarNext]_allVars
  /\ SidebarFairness
=============================================================================
