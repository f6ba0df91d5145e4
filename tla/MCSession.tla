----------------------------- MODULE MCSession -----------------------------
(* Two tabs, two invites, three addresses opened and two logins: enough    *)
(* for one tab to log in or out, or to overwrite the other's invite, at    *)
(* any point of the other's hydration.  In other behaviours nobody logs in *)
(* or out, and a session that is there shows two channels and their        *)
(* badges.                                                                 *)
EXTENDS Session, Badges

CONSTANTS t1, t2, x, y
MCTabs == {t1, t2}
MCCodes == {x, y}

VARIABLE used    \* "session" or "badges"

MCInit ==
  /\ Init
  /\ \/ used = "session" /\ BadgesInit(0, 0)
     \/ used = "badges" /\ BadgesInit(2, 3)

MCNext ==
  /\ UNCHANGED used
  /\ \/ used = "session" /\ Next /\ UNCHANGED badgeVars
     \/ used = "badges" /\ BadgesNext /\ UNCHANGED vars

MCSpec == MCInit /\ [][MCNext]_<<vars, badgeVars, used>> /\ Fairness
=============================================================================
