---------------------------- MODULE TournamentForm ----------------------------
(***************************************************************************)
(* Creating a tournament: the dialog of three steps, of which each is      *)
(* checked when it is left and never again, and the two lists the new      *)
(* tournament belongs in, the sidebar's and the one of the page.           *)
(*                                                                         *)
(* A field of the form is TRUE or FALSE: what it holds is acceptable, or   *)
(* it is not; text stands for the name and the game.                       *)
(***************************************************************************)
EXTENDS Integers, FiniteSets

CONSTANT Guilds    \* the servers

ASSUME TournamentFormAssumption == "board" \notin Guilds

VARIABLES
  made,       \* backend: the tournaments of each server
  at,         \* the address: a server, and its "list" of tournaments or "other"
  wizard,     \* the dialog: open, step and form
  submitting, \* isSubmitting
  posts,      \* the submissions on their way
  sent,       \* those the network has not lost: servers and tournaments
  sidebar,    \* tournamentsByServer
  board,      \* items of the list page
  lists,      \* the requests for the lists
  doubled,    \* the lists that were asked for twice at a time, or failed
  turns, faults  \* how often the user, and the network, may act

formVars == <<made, at, wizard, submitting, posts, sent, sidebar, board, lists,
              doubled, turns, faults>>

Blanks == [open |-> FALSE, step |-> 1, text |-> FALSE,
           team |-> FALSE, size |-> FALSE, max |-> FALSE]

Asked(g, what) == [id |-> turns, guild |-> g, what |-> what, step |-> "asked", items |-> {}]

FormInit(n, m) ==
  /\ made = [g \in Guilds |-> {}] /\ \E g \in Guilds : at = [guild |-> g, path |-> "other"]
  /\ wizard = Blanks /\ submitting = FALSE /\ posts = {} /\ sent = {}
  /\ sidebar = [g \in Guilds |-> {}] /\ board = {}
  /\ turns = n /\ faults = m
  /\ lists = {} /\ doubled = {}

Turn == turns > 0 /\ turns' = turns - 1
Fault == faults > 0 /\ faults' = faults - 1

-----------------------------------------------------------------------------
(* The lists.                                                              *)

ListOf(l) == IF l.what = "board" THEN "board" ELSE l.guild

(* The shell asks for the list of a server it changes to, the list page    *)
(* for that of the server of its address.  New requests join ls.           *)
Visit(g, path, ls) ==
  LET asks == ls \cup (IF g # at.guild THEN {Asked(g, "sidebar")} ELSE {})
                 \cup (IF path = "list" THEN {Asked(g, "board")} ELSE {})
      going == {l \in lists : l.what = "board" => path = "list"}
  IN /\ at' = [guild |-> g, path |-> path]
     /\ lists' = going \cup asks
     /\ doubled' = (doubled \ {ListOf(l) : l \in asks})
                     \cup ({ListOf(l) : l \in asks} \cap {ListOf(l) : l \in going})
     /\ board' = IF path = "list" /\ at.path = "list" THEN board ELSE {}

Browse(g, path) ==
  /\ Turn
  /\ [guild |-> g, path |-> path] # at
  /\ Visit(g, path, {})
  /\ UNCHANGED <<made, wizard, submitting, posts, sent, sidebar, faults>>

ListIsAnswered(l) ==
  /\ l \in lists /\ l.step = "asked"
  /\ lists' = (lists \ {l}) \cup {[l EXCEPT !.step = "answered", !.items = made[l.guild]]}
  /\ UNCHANGED <<made, at, wizard, submitting, posts, sent, sidebar, board,
                 doubled, turns, faults>>

(* The sidebar keeps a list for each server, the page one for all of them. *)
SidebarArrives(l) ==
  /\ l \in lists /\ l.step = "answered" /\ l.what = "sidebar"
  /\ lists' = lists \ {l}
  /\ sidebar' = [sidebar EXCEPT ![l.guild] = l.items]
  /\ UNCHANGED <<made, at, wizard, submitting, posts, sent, board, doubled, turns, faults>>

BoardArrives(l) ==
  /\ l \in lists /\ l.step = "answered" /\ l.what = "board"
  /\ lists' = lists \ {l}
  /\ board' = l.items
  /\ UNCHANGED <<made, at, wizard, submitting, posts, sent, sidebar, doubled, turns, faults>>

(* The sidebar shows no tournament then, the page those it had.            *)
ListFails(l) ==
  /\ l \in lists /\ Fault
  /\ lists' = lists \ {l}
  /\ sidebar' = IF l.what = "sidebar" THEN [sidebar EXCEPT ![l.guild] = {}] ELSE sidebar
  /\ doubled' = doubled \cup {ListOf(l)}
  /\ UNCHANGED <<made, at, wizard, submitting, posts, sent, board, turns>>

-----------------------------------------------------------------------------
(* The dialog.                                                             *)

OpenWizard ==
  /\ ~wizard.open
  /\ wizard' = [Blanks EXCEPT !.open = TRUE] /\ submitting' = FALSE
  /\ UNCHANGED <<made, at, posts, sent, sidebar, board, lists, doubled, turns, faults>>

Fill(step, f, ok) ==
  /\ wizard.open /\ wizard.step = step
  /\ wizard' = [wizard EXCEPT ![f] = ok]
  /\ UNCHANGED <<made, at, submitting, posts, sent, sidebar, board, lists, doubled,
                 turns, faults>>

FillText(ok) == Fill(1, "text", ok)
PickType(team) == Fill(2, "team", team)
FillTeamSize(ok) == wizard.team /\ Fill(2, "size", ok)
FillMax(ok) == Fill(2, "max", ok)

(* Mutant: the size of a team is not looked at.                            *)
CanGoNextWithoutSize(w) ==
  CASE w.step = 1 -> w.text
    [] w.step = 2 -> w.max
    [] OTHER -> TRUE

(* What the step that is shown needs.                                      *)
CanGoNext(w) ==
  CASE w.step = 1 -> w.text
    [] w.step = 2 -> w.max /\ (w.team => w.size)
    [] OTHER -> TRUE

NextStep ==
  /\ wizard.open /\ wizard.step < 3 /\ CanGoNext(wizard)
  /\ wizard' = [wizard EXCEPT !.step = @ + 1]
  /\ UNCHANGED <<made, at, submitting, posts, sent, sidebar, board, lists, doubled,
                 turns, faults>>

StepBack ==
  /\ wizard.open /\ wizard.step > 1
  /\ wizard' = [wizard EXCEPT !.step = @ - 1]
  /\ UNCHANGED <<made, at, submitting, posts, sent, sidebar, board, lists, doubled,
                 turns, faults>>

(* Escape; what was submitted goes on.                                     *)
CloseWizard ==
  /\ wizard.open /\ wizard' = Blanks
  /\ UNCHANGED <<made, at, submitting, posts, sent, sidebar, board, lists, doubled,
                 turns, faults>>

(* What the backend asks of a tournament: all of it at once.               *)
Acceptable(w) == w.text /\ w.max /\ (w.team => w.size)

Submit ==
  /\ Turn
  /\ wizard.open /\ wizard.step = 3 /\ ~submitting /\ CanGoNext(wizard)
  /\ submitting' = TRUE
  /\ posts' = posts \cup {[id |-> turns, guild |-> at.guild, ok |-> Acceptable(wizard),
                           step |-> "asked"]}
  /\ sent' = sent \cup {<<at.guild, turns>>}
  /\ UNCHANGED <<made, at, wizard, sidebar, board, lists, doubled, faults>>

PostIsAnswered(p) ==
  /\ p \in posts /\ p.step = "asked"
  /\ posts' = (posts \ {p}) \cup {[p EXCEPT !.step = IF p.ok THEN "made" ELSE "refused"]}
  /\ made' = IF p.ok THEN [made EXCEPT ![p.guild] = @ \cup {p.id}] ELSE made
  /\ UNCHANGED <<at, wizard, submitting, sent, sidebar, board, lists, doubled, turns, faults>>

(* The shell asks for the list, goes to the page of the tournament, from   *)
(* wherever the user is by then, and the dialog is closed.                 *)
PostReturns(p) ==
  /\ p \in posts /\ p.step = "made"
  /\ posts' = posts \ {p}
  /\ Visit(p.guild, "other", {[Asked(p.guild, "sidebar") EXCEPT !.id = p.id]})
  /\ wizard' = Blanks /\ submitting' = FALSE
  /\ UNCHANGED <<made, sent, sidebar, turns, faults>>

(* It was refused; or the network failed, before or after it was made.     *)
PostFails(p) ==
  /\ p \in posts
  /\ posts' = posts \ {p} /\ submitting' = FALSE
  /\ IF p.step = "refused" THEN UNCHANGED <<sent, faults>>
     ELSE Fault /\ sent' = sent \ {<<p.guild, p.id>>}
  /\ UNCHANGED <<made, at, wizard, sidebar, board, lists, doubled, turns>>

FormNext ==
  \/ \E g \in Guilds, path \in {"list", "other"} : Browse(g, path)
  \/ \E l \in lists : ListIsAnswered(l)
  \/ \E l \in lists : SidebarArrives(l)
  \/ \E l \in lists : BoardArrives(l)
  \/ \E l \in lists : ListFails(l)
  \/ OpenWizard
  \/ \E ok \in BOOLEAN : FillText(ok)
  \/ \E team \in BOOLEAN : PickType(team)
  \/ \E ok \in BOOLEAN : FillTeamSize(ok)
  \/ \E ok \in BOOLEAN : FillMax(ok)
  \/ NextStep
  \/ StepBack
  \/ CloseWizard
  \/ Submit
  \/ \E p \in posts : PostIsAnswered(p)
  \/ \E p \in posts : PostReturns(p)
  \/ \E p \in posts : PostFails(p)

FormSpec(n, m) == FormInit(n, m) /\ [][FormNext]_formVars

-----------------------------------------------------------------------------
(* No submission comes to nothing: although the steps are checked one by   *)
(* one and may be visited again, the backend refuses none of them, and at  *)
(* rest the tournament is in the sidebar, and in the list page of its      *)
(* server.  The exceptions are lists that were asked for twice at a time,  *)
(* for the older answer may come last, and what the network lost.          *)
SubmissionsAreListed ==
  posts = {} /\ lists = {} =>
    \A s \in sent :
      /\ s[1] \notin doubled => s[2] \in sidebar[s[1]]
      /\ at = [guild |-> s[1], path |-> "list"] /\ "board" \notin doubled => s[2] \in board
=============================================================================
