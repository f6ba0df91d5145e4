--------------------------- MODULE TournamentPage ---------------------------
(***************************************************************************)
(* The page of one tournament (TournamentDetailPage.tsx) and its edit      *)
(* dialog (TournamentCreateEditDialog.tsx).  The page loads what it shows  *)
(* when its address changes, when the user refreshes it and after every    *)
(* action; the loads overlap and are applied in the order they arrive.     *)
(***************************************************************************)
EXTENDS Integers, Sequences, FiniteSets

CONSTANTS Tournaments,
          Managed     \* those the user may manage

ASSUME TournamentPageAssumption == Managed \subseteq Tournaments

Order == <<"draft", "registration", "check_in", "in_progress", "completed">>
Follows(s, to) == \E i \in 1 .. Len(Order) - 1 : Order[i] = s /\ Order[i + 1] = to

VARIABLES
  store,   \* backend: status, the user's entry, and how often the user acted
  page,    \* the tournament of the address
  detail,  \* what was loaded last: a tournament and its row
  loads,   \* the loads on their way
  loading, error, busy,  \* loading, error and isActionLoading
  sends,   \* the actions on their way
  form,    \* the edit dialog: open, and the tournament it was filled from
  match,   \* the match dialog: open, and the tournament of the match
  crossed, \* the last load was started beside another, or for another page
  clicks, others  \* how often the user, and others or the network, may act

shown == <<detail, loading, error>>
pageVars == <<store, page, shown, loads, busy, sends, form, match, crossed,
              clicks, others>>

NoRow == [status |-> "none", entry |-> "none", acts |-> 0]
Nothing == [of |-> "none", row |-> NoRow]
Closed == [open |-> FALSE, of |-> "none"]

PageInit(n, m) ==
  /\ store \in [Tournaments -> {[status |-> s, entry |-> "none", acts |-> 0] :
                                  s \in {"draft", "registration", "in_progress"}}]
  /\ page \in Tournaments
  /\ detail = Nothing
  /\ loads = {[id |-> 0, of |-> page, frees |-> FALSE, answer |-> Nothing]}
  /\ loading = TRUE /\ error = FALSE /\ busy = FALSE
  /\ sends = {} /\ form = Closed /\ match = Closed /\ crossed = FALSE
  /\ clicks = n /\ others = m

-----------------------------------------------------------------------------
(* The loads.                                                              *)

(* Mutant: reload keeps the tournament it was first made for.              *)
StartReloadOfShown(id, t, frees) ==
  /\ loads' = loads \cup {[id |-> id, of |-> IF detail = Nothing THEN t ELSE detail.of,
                           frees |-> frees, answer |-> Nothing]}
  /\ loading' = TRUE
  /\ crossed' = (loads # {} \/ t # page')

(* reload of tournament t, for an action that is over afterwards or not.   *)
StartReload(id, t, frees) ==
  /\ loads' = loads \cup {[id |-> id, of |-> t, frees |-> frees, answer |-> Nothing]}
  /\ loading' = TRUE
  /\ crossed' = (loads # {} \/ t # page')

LoadIsAnswered(l) ==
  /\ l \in loads /\ l.answer = Nothing
  /\ loads' = (loads \ {l}) \cup {[l EXCEPT !.answer = [of |-> l.of, row |-> store[l.of]]]}
  /\ UNCHANGED <<store, page, shown, busy, sends, form, match, crossed, clicks, others>>

Loaded(l) ==
  /\ loads' = loads \ {l}
  /\ loading' = FALSE
  /\ busy' = IF l.frees THEN FALSE ELSE busy

(* Mutant: the form is filled when it is opened and never again.           *)
LoadArrivesBesideForm(l) ==
  /\ l \in loads /\ l.answer # Nothing
  /\ Loaded(l)
  /\ detail' = l.answer /\ error' = FALSE
  /\ UNCHANGED <<store, page, sends, form, match, crossed, clicks, others>>

(* It is shown whatever the page is by now.  An edit dialog is filled      *)
(* afresh from it.                                                         *)
LoadArrives(l) ==
  /\ l \in loads /\ l.answer # Nothing
  /\ Loaded(l)
  /\ detail' = l.answer /\ error' = FALSE
  /\ form' = IF form.open THEN [form EXCEPT !.of = l.of] ELSE form
  /\ UNCHANGED <<store, page, sends, match, crossed, clicks, others>>

LoadFails(l) ==
  /\ l \in loads
  /\ others > 0 /\ others' = others - 1
  /\ Loaded(l)
  /\ error' = TRUE
  /\ UNCHANGED <<store, page, detail, sends, form, match, crossed, clicks>>

-----------------------------------------------------------------------------
(* The user.                                                               *)

Shows(t) == ~loading /\ ~error /\ detail.of = t
Click == clicks > 0 /\ clicks' = clicks - 1

(* Another tournament, from the sidebar or by the browser's back button.   *)
GoTo(t) ==
  /\ Click
  /\ t # page /\ page' = t
  /\ StartReload(clicks, t, FALSE)
  /\ UNCHANGED <<store, detail, error, busy, sends, form, match, others>>

Refresh ==
  /\ Click
  /\ \E t \in Tournaments : Shows(t)
  /\ UNCHANGED page
  /\ StartReload(clicks, page, FALSE)
  /\ UNCHANGED <<store, detail, error, busy, sends, form, match, others>>

(* The request of an action: what it asks of which tournament, and the     *)
(* page whose reload follows.                                              *)
Send(kind, to, of) ==
  /\ Click
  /\ sends' = sends \cup {[id |-> clicks, kind |-> kind, to |-> to, target |-> detail.of,
                           of |-> of, page |-> page, step |-> "asked"]}
  /\ UNCHANGED <<store, page, shown, loads, form, match, crossed, others>>

(* runStatus: the buttons offer the status that follows.                   *)
RunStatus ==
  /\ \E t \in Managed : Shows(t)
  /\ ~busy /\ busy' = TRUE
  /\ \E s \in {Order[i] : i \in DOMAIN Order} :
       Follows(detail.row.status, s) /\ Send("status", s, detail.of)

(* toggleRegister: what it asks for depends on the entry it shows.         *)
ToggleRegister ==
  /\ \E t \in Tournaments \ Managed : Shows(t)
  /\ detail.row.status = "registration"
  /\ ~busy /\ busy' = TRUE
  /\ Send("entry", IF detail.row.entry = "none" THEN "registered" ELSE "none", detail.of)

CheckIn ==
  /\ \E t \in Tournaments \ Managed : Shows(t)
  /\ detail.row.status = "check_in" /\ detail.row.entry # "none"
  /\ ~busy /\ busy' = TRUE
  /\ Send("entry", "checked_in", detail.of)

OpenEdit ==
  /\ \E t \in Managed : Shows(t)
  /\ detail.row.status = "draft" /\ ~form.open /\ ~match.open
  /\ form' = [open |-> TRUE, of |-> detail.of]
  /\ UNCHANGED <<store, page, shown, loads, busy, sends, match, crossed, clicks, others>>

SubmitEdit ==
  /\ form.open /\ \E t \in Tournaments : Shows(t)
  /\ Send("edit", "same", form.of)
  /\ UNCHANGED busy

OpenMatch ==
  /\ \E t \in Tournaments : Shows(t)
  /\ detail.row.status = "in_progress" /\ ~form.open /\ ~match.open
  /\ match' = [open |-> TRUE, of |-> detail.of]
  /\ UNCHANGED <<store, page, shown, loads, busy, sends, form, crossed, clicks, others>>

(* submitMatch: the match is the one that was opened, the tournament the   *)
(* one that is shown.                                                      *)
SubmitMatch ==
  /\ match.open /\ \E t \in Tournaments : Shows(t)
  /\ Send("result", "same", match.of)
  /\ UNCHANGED busy

CloseDialogs ==
  /\ form.open \/ match.open
  /\ \E t \in Tournaments : Shows(t)
  /\ form' = Closed /\ match' = Closed
  /\ UNCHANGED <<store, page, shown, loads, busy, sends, crossed, clicks, others>>

-----------------------------------------------------------------------------
(* What the backend makes of the request, and then the response.           *)

Accepts(s) ==
  LET row == store[s.target]
  IN CASE s.kind = "status" -> Follows(row.status, s.to)
       [] s.kind = "entry" /\ s.to = "registered" ->
            row.status = "registration" /\ row.entry = "none"
       [] s.kind = "entry" /\ s.to = "none" ->
            row.status = "registration" /\ row.entry # "none"
       [] s.kind = "entry" -> row.status = "check_in" /\ row.entry # "none"
       [] s.kind = "edit" -> row.status \notin {"in_progress", "completed"}
       [] OTHER -> s.of = s.target /\ row.status = "in_progress"

Accepted(s) ==
  LET row == [store[s.target] EXCEPT !.acts = @ + 1]
  IN CASE s.kind = "status" -> [row EXCEPT !.status = s.to]
       [] s.kind = "entry" -> [row EXCEPT !.entry = s.to]
       [] OTHER -> row

SendIsAnswered(s) ==
  /\ s \in sends /\ s.step = "asked"
  /\ sends' = (sends \ {s}) \cup {[s EXCEPT !.step = IF Accepts(s) THEN "ok" ELSE "refused"]}
  /\ store' = IF Accepts(s) THEN [store EXCEPT ![s.target] = Accepted(s)] ELSE store
  /\ UNCHANGED <<page, shown, loads, busy, form, match, crossed, clicks, others>>

(* It was done: the dialog it came from closes, and the page is loaded.    *)
SendReturns(s) ==
  /\ s \in sends /\ s.step = "ok"
  /\ sends' = sends \ {s}
  /\ form' = IF s.kind = "edit" THEN Closed ELSE form
  /\ match' = IF s.kind = "result" THEN Closed ELSE match
  /\ UNCHANGED page
  /\ StartReload(s.id, s.page, s.kind \in {"status", "entry"})
  /\ UNCHANGED <<store, detail, error, busy, clicks, others>>

(* It was refused, or the answer is lost: an error, and no load.           *)
SendFails(s) ==
  /\ s \in sends
  /\ s.step = "refused" => UNCHANGED <<others, crossed>>
  /\ s.step # "refused" => /\ others > 0 /\ others' = others - 1
                           /\ crossed' = TRUE
  /\ sends' = sends \ {s}
  /\ busy' = IF s.kind \in {"status", "entry"} THEN FALSE ELSE busy
  /\ UNCHANGED <<store, page, shown, loads, form, match, clicks>>

(* Somebody else moves a tournament on.                                    *)
Elsewhere ==
  /\ others > 0 /\ others' = others - 1
  /\ \E t \in Tournaments, s \in {Order[i] : i \in DOMAIN Order} :
       /\ Follows(store[t].status, s)
       /\ store' = [store EXCEPT ![t].status = s]
  /\ UNCHANGED <<page, shown, loads, busy, sends, form, match, crossed, clicks>>

PageNext ==
  \/ \E l \in loads : LoadIsAnswered(l)
  \/ \E l \in loads : LoadArrives(l)
  \/ \E l \in loads : LoadFails(l)
  \/ \E t \in Tournaments : GoTo(t)
  \/ Refresh
  \/ RunStatus
  \/ ToggleRegister
  \/ CheckIn
  \/ OpenEdit
  \/ SubmitEdit
  \/ OpenMatch
  \/ SubmitMatch
  \/ CloseDialogs
  \/ \E s \in sends : SendIsAnswered(s)
  \/ \E s \in sends : SendReturns(s)
  \/ \E s \in sends : SendFails(s)
  \/ Elsewhere

PageSpec(n, m) == PageInit(n, m) /\ [][PageNext]_pageVars

-----------------------------------------------------------------------------
(* When nothing is on its way, the page shows the tournament of its        *)
(* address, with everything the user has done to it.  Excepted are loads   *)
(* that were on their way together, for they arrive in any order, and the  *)
(* load of an action whose page was left before it was done.               *)
PageIsCurrent ==
  loads = {} /\ sends = {} /\ ~error /\ ~crossed =>
    /\ detail.of = page
    /\ detail.row.acts = store[page].acts /\ detail.row.entry = store[page].entry

(* The edit dialog never saves the form of one tournament to another one,  *)
(* although it stays open while the page moves on.                         *)
FormGoesHome == \A s \in sends : s.kind = "edit" => s.of = s.target
=============================================================================
