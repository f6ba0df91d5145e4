------------------------------ MODULE Session ------------------------------
(***************************************************************************)
(* The session of the web client and the invite links that travel through  *)
(* it: the login page, the guard of the protected routes, the invite page  *)
(* and the first effects of the shell.  Several tabs of one browser share  *)
(* its localStorage, while each keeps an auth store of its own in memory.  *)
(*                                                                         *)
(* A token is named by the number of the login that issued it, and so is   *)
(* its user: every login is taken to be another user's, 0 stands for null. *)
(* An action is one task of a tab; tabs interleave between tasks.          *)
(***************************************************************************)
EXTENDS Integers

CONSTANTS Tabs, Codes,
          None,        \* no invite code
          MaxLogins,   \* bound on the logins
          MaxVisits    \* bound on the addresses the user opens

ASSUME SessionAssumption == /\ None \notin Codes
                            /\ MaxLogins \in Nat /\ MaxVisits \in Nat

VARIABLES
  authToken,  \* localStorage 'auth-token'
  persisted,  \* localStorage 'auth-store': what the auth store persists
  redirect,   \* localStorage POST_AUTH_REDIRECT_KEY: an invite's path
  pending,    \* localStorage PENDING_INVITE_CODE_KEY
  logins,     \* the tokens issued so far are 1 .. logins
  expired,    \* the tokens the backend answers with 401
  page,       \* the route of each tab
  code,       \* the code in the address of each tab
  phase,      \* how far the guard of that route has come
  store,      \* useAuthStore of each tab
  modal,      \* the code the invite modal of each tab was opened with
  form,       \* AuthView's mode, and the request its form waits for
  orphan,     \* a login goes on in the tab whose form was switched away
  followed,   \* the invites the user opened and has not seen yet
  visits

storage == <<authToken, persisted, redirect, pending>>
backend == <<logins, expired>>
forms == <<form, orphan>>
tabs == <<page, code, phase, store, modal, forms>>
vars == <<storage, backend, tabs, followed, visits>>

Tokens == 1 .. MaxLogins
NoSession == [token |-> 0, user |-> 0]
BlankForm == [mode |-> "login", asking |-> FALSE]
Sessions == [token : 0 .. MaxLogins, user : 0 .. MaxLogins]

TypeOK ==
  /\ authToken \in 0 .. MaxLogins /\ persisted \in Sessions
  /\ redirect \in Codes \cup {None} /\ pending \in Codes \cup {None}
  /\ logins \in 0 .. MaxLogins /\ expired \subseteq 1 .. logins
  /\ page \in [Tabs -> {"closed", "auth", "invite", "app"}]
  /\ code \in [Tabs -> Codes \cup {None}]
  /\ phase \in [Tabs -> {"idle", "loading", "hydrating", "hydrated", "shell"}]
  /\ store \in [Tabs -> Sessions]
  /\ modal \in [Tabs -> Codes \cup {None}]
  /\ form \in [Tabs -> [mode : {"login", "register"}, asking : BOOLEAN]]
  /\ orphan \in [Tabs -> BOOLEAN]
  /\ followed \subseteq Codes
  /\ visits \in 0 .. MaxVisits

Init ==
  /\ authToken = 0 /\ persisted = NoSession
  /\ redirect = None /\ pending = None
  /\ logins = 0 /\ expired = {}
  /\ page = [t \in Tabs |-> "closed"]
  /\ code = [t \in Tabs |-> None]
  /\ phase = [t \in Tabs |-> "idle"]
  /\ store = [t \in Tabs |-> NoSession]
  /\ modal = [t \in Tabs |-> None]
  /\ form = [t \in Tabs |-> BlankForm]
  /\ orphan = [t \in Tabs |-> FALSE]
  /\ followed = {} /\ visits = 0

-----------------------------------------------------------------------------
(* hydrateSession, up to its request, from what the store held: a token in *)
(* localStorage replaces the one of the store and has to be asked about.   *)
Hydrate(t, kept) ==
  IF authToken = 0
  THEN /\ phase' = [phase EXCEPT ![t] = "hydrated"]
       /\ store' = [store EXCEPT ![t] = kept]
       /\ UNCHANGED persisted
  ELSE LET s == [kept EXCEPT !.token = authToken]
       IN /\ phase' = [phase EXCEPT ![t] = "hydrating"]
          /\ store' = [store EXCEPT ![t] = s]
          /\ persisted' = s

(* A document is loaded at route p: the store comes back from what is      *)
(* persisted, and the guard of a protected or an invite route hydrates.    *)
Load(t, p, c) ==
  /\ page' = [page EXCEPT ![t] = p]
  /\ code' = [code EXCEPT ![t] = c]
  /\ modal' = [modal EXCEPT ![t] = None]
  /\ form' = [form EXCEPT ![t] = BlankForm]
  /\ orphan' = [orphan EXCEPT ![t] = FALSE]
  /\ IF p = "auth" THEN /\ phase' = [phase EXCEPT ![t] = "idle"]
                        /\ store' = [store EXCEPT ![t] = persisted]
                        /\ UNCHANGED persisted
                   ELSE Hydrate(t, persisted)

(* The router moves the tab to another route within the document.          *)
Goto(t, p) ==
  /\ page' = [page EXCEPT ![t] = p]
  /\ code' = [code EXCEPT ![t] = None]
  /\ modal' = [modal EXCEPT ![t] = None]

(* clearSession, handleUnauthorized and handleLogout forget the session of *)
(* the tab and what localStorage knows of any session.                     *)
ClearSession(t) ==
  /\ authToken' = 0
  /\ persisted' = NoSession
  /\ store' = [store EXCEPT ![t] = NoSession]

(* The tab leaves its session for the login page by loading it.            *)
LeaveForLogin(t) ==
  /\ ClearSession(t)
  /\ Goto(t, "auth")
  /\ phase' = [phase EXCEPT ![t] = "idle"]

-----------------------------------------------------------------------------
(* The user opens an address in a tab, a new one or one at any point of    *)
(* its work.  An invite that is only in the address left is given up.      *)
Open(t, p, c) ==
  /\ visits < MaxVisits /\ visits' = visits + 1
  /\ Load(t, p, c)
  /\ followed' = (IF page[t] = "invite" THEN followed \ {code[t]} ELSE followed)
                   \cup ({c} \ {None})
  /\ UNCHANGED <<authToken, redirect, pending, backend>>

OpenInvite(t, c) == Open(t, "invite", c)
OpenPage(t, p) == Open(t, p, None)

-----------------------------------------------------------------------------
(* The answers to getCurrentUser.                                          *)

(* Mutant: the user that is persisted is taken for the token's.            *)
HydrateAnswersTokenOnly(t) ==
  /\ phase[t] = "hydrating"
  /\ store[t].token \notin expired
  /\ phase' = [phase EXCEPT ![t] = "hydrated"]
  /\ UNCHANGED <<storage, backend, page, code, store, modal, forms, followed,
                 visits>>

HydrateAnswers(t) ==
  /\ phase[t] = "hydrating"
  /\ store[t].token \notin expired
  /\ phase' = [phase EXCEPT ![t] = "hydrated"]
  /\ store' = [store EXCEPT ![t].user = store[t].token]
  /\ persisted' = store'[t]
  /\ UNCHANGED <<authToken, redirect, pending, backend, page, code, modal,
                 forms, followed, visits>>

(* The request fails, for whatever reason: the session is cleared.         *)
HydrateFails(t) ==
  /\ phase[t] = "hydrating"
  /\ ClearSession(t)
  /\ phase' = [phase EXCEPT ![t] = "hydrated"]
  /\ UNCHANGED <<redirect, pending, backend, page, code, modal, forms,
                 followed, visits>>

(* A 401 also loads the login page, whether or not the page has rendered   *)
(* before its document goes: when it has not, the invite page had no       *)
(* chance to remember its code.                                            *)
HydrateUnauthorized(t) ==
  /\ phase[t] = "hydrating"
  /\ store[t].token \in expired
  /\ LeaveForLogin(t)
  /\ \/ /\ redirect' = IF page[t] = "invite" THEN code[t] ELSE redirect
        /\ followed' = IF page[t] = "invite"
                       THEN followed \ ({redirect} \ {code[t]}) ELSE followed
     \/ /\ followed' = followed \ {code[t]}
        /\ UNCHANGED redirect
  /\ UNCHANGED <<pending, backend, forms, visits>>

(* Mutant: a visitor without a session is not sent on.                     *)
PassInviteOfMembers(t) ==
  /\ page[t] = "invite" /\ phase[t] = "hydrated" /\ store[t].token # 0
  /\ pending' = code[t]
  /\ followed' = followed \ ({pending} \ {code[t]})
  /\ Goto(t, "app")
  /\ Hydrate(t, store[t])
  /\ UNCHANGED <<authToken, redirect, backend, forms, visits>>

(* The effect of InviteEntryPage: the code waits in localStorage for the   *)
(* login, or for the shell, whose guard hydrates once more.                *)
PassInvite(t) ==
  /\ page[t] = "invite" /\ phase[t] = "hydrated"
  /\ IF store[t].token = 0
     THEN /\ redirect' = code[t]
          /\ followed' = followed \ ({redirect} \ {code[t]})
          /\ Goto(t, "auth")
          /\ phase' = [phase EXCEPT ![t] = "idle"]
          /\ UNCHANGED <<pending, store, persisted>>
     ELSE /\ pending' = code[t]
          /\ followed' = followed \ ({pending} \ {code[t]})
          /\ Goto(t, "app")
          /\ Hydrate(t, store[t])
          /\ UNCHANGED redirect
  /\ UNCHANGED <<authToken, backend, forms, visits>>

(* Mutant: the pending invite is removed, but the modal is not opened.     *)
EnterAppWithoutModal(t) ==
  /\ page[t] = "app" /\ phase[t] = "hydrated"
  /\ phase' = [phase EXCEPT ![t] = "shell"]
  /\ pending' = None
  /\ UNCHANGED <<authToken, persisted, redirect, backend, store, modal,
                 forms, followed, visits, page, code>>

(* The effect of the shell that opens the modal for a pending invite.      *)
TakeUpInvite(t) ==
  /\ modal' = [modal EXCEPT ![t] = pending]
  /\ pending' = None
  /\ followed' = followed \ {pending}

(* PrivateRoute lets the shell mount, which takes up a pending invite at   *)
(* once, or sends the tab to the login page.                               *)
EnterApp(t) ==
  /\ page[t] = "app" /\ phase[t] = "hydrated"
  /\ IF store[t].token = 0
     THEN /\ Goto(t, "auth")
          /\ phase' = [phase EXCEPT ![t] = "idle"]
          /\ UNCHANGED <<pending, followed>>
     ELSE /\ phase' = [phase EXCEPT ![t] = "shell"]
          /\ TakeUpInvite(t)
          /\ UNCHANGED <<page, code>>
  /\ UNCHANGED <<authToken, persisted, redirect, backend, store, forms,
                 visits>>

-----------------------------------------------------------------------------
(* The user switches between the two forms, also while one waits for its   *)
(* request: a login then goes on without its form.                         *)
SwitchForm(t) ==
  /\ page[t] = "auth" /\ phase[t] = "idle"
  /\ LET old == form[t]
     IN /\ old.asking /\ old.mode = "login" => ~orphan[t]
        /\ form' = [form EXCEPT ![t] =
             [mode |-> IF old.mode = "login" THEN "register" ELSE "login",
              asking |-> FALSE]]
        /\ orphan' = [orphan EXCEPT ![t] =
             @ \/ (old.asking /\ old.mode = "login")]
  /\ UNCHANGED <<storage, backend, page, code, phase, store, modal, followed,
                 visits>>

(* A form that is filled in is sent, and not again before its answer.      *)
Submit(t, m) ==
  /\ page[t] = "auth" /\ phase[t] = "idle"
  /\ form[t] = [mode |-> m, asking |-> FALSE]
  /\ form' = [form EXCEPT ![t].asking = TRUE]
  /\ UNCHANGED <<storage, backend, page, code, phase, store, modal, orphan,
                 followed, visits>>

SubmitLogin(t) == Submit(t, "login")
SubmitRegistration(t) == Submit(t, "register")

(* register: a new account brings the login form.                          *)
Registered(t) ==
  /\ form[t] = [mode |-> "register", asking |-> TRUE]
  /\ form' = [form EXCEPT ![t] = BlankForm]
  /\ UNCHANGED <<storage, backend, page, code, phase, store, modal, orphan,
                 followed, visits>>

(* Any other answer than success or 401 only shows an error in the form.   *)
FormFails(t) ==
  /\ \/ /\ form[t].asking
        /\ form' = [form EXCEPT ![t].asking = FALSE]
        /\ UNCHANGED orphan
     \/ /\ orphan[t]
        /\ orphan' = [orphan EXCEPT ![t] = FALSE]
        /\ UNCHANGED form
  /\ UNCHANGED <<storage, backend, page, code, phase, store, modal, followed,
                 visits>>

(* What useLogin stores of a login that succeeded.                         *)
NewSession(t) ==
  /\ logins < MaxLogins /\ logins' = logins + 1
  /\ authToken' = logins'
  /\ LET s == [token |-> logins', user |-> logins']
     IN /\ persisted' = s
        /\ store' = [store EXCEPT ![t] = s]

(* With its form still there, a login goes on in handleAuthSuccess: the    *)
(* invite that was waiting for it is loaded, or else the shell.            *)
LogIn(t) ==
  /\ form[t] = [mode |-> "login", asking |-> TRUE]
  /\ NewSession(t)
  /\ redirect' = None
  /\ page' = [page EXCEPT ![t] = IF redirect # None THEN "invite" ELSE "app"]
  /\ code' = [code EXCEPT ![t] = redirect]
  /\ phase' = [phase EXCEPT ![t] = "loading"]
  /\ form' = [form EXCEPT ![t] = BlankForm]
  /\ orphan' = [orphan EXCEPT ![t] = FALSE]
  /\ UNCHANGED <<pending, expired, modal, followed, visits>>

(* Without it, the tab has a session and stays where it is.                *)
LogInUnseen(t) ==
  /\ orphan[t]
  /\ NewSession(t)
  /\ orphan' = [orphan EXCEPT ![t] = FALSE]
  /\ UNCHANGED <<redirect, pending, expired, page, code, phase, modal, form,
                 followed, visits>>

(* The document that handleAuthSuccess asked for is there.                 *)
Arrive(t) ==
  /\ phase[t] = "loading"
  /\ Load(t, page[t], code[t])
  /\ UNCHANGED <<authToken, redirect, pending, backend, followed, visits>>

(* Bad credentials are a 401 too, and the axios client forgets the session *)
(* on every 401, whoever's it is.                                          *)
LogInRefused(t) ==
  /\ ClearSession(t)
  /\ \/ /\ form[t] = [mode |-> "login", asking |-> TRUE]
        /\ form' = [form EXCEPT ![t] = BlankForm]
        /\ UNCHANGED orphan
     \/ /\ orphan[t]
        /\ orphan' = [orphan EXCEPT ![t] = FALSE]
        /\ UNCHANGED form
  /\ UNCHANGED <<redirect, pending, backend, page, code, phase, modal,
                 followed, visits>>

LogOut(t) ==
  /\ phase[t] = "shell"
  /\ LeaveForLogin(t)
  /\ UNCHANGED <<redirect, pending, backend, forms, followed, visits>>

(* The token of a request: the store's, or else what localStorage has of   *)
(* one; the axios client knows only the latter's first key.                *)
FetchToken(t) ==
  CASE store[t].token # 0 -> store[t].token
    [] store[t].token = 0 /\ authToken # 0 -> authToken
    [] OTHER -> persisted.token
AxiosToken == authToken

(* Any request of the shell may be answered with a 401.  The second login  *)
(* that fetch would try finds no credentials: nothing ever stores them.    *)
RequestUnauthorized(t) ==
  /\ phase[t] = "shell"
  /\ {FetchToken(t), AxiosToken} \cap (expired \cup {0}) # {}
  /\ LeaveForLogin(t)
  /\ UNCHANGED <<redirect, pending, backend, forms, followed, visits>>

(* The profile dialog writes the user back to the store, and with it the   *)
(* whole session of this tab to localStorage.                              *)
SaveProfile(t) ==
  /\ phase[t] = "shell"
  /\ persisted' = store[t]
  /\ UNCHANGED <<authToken, redirect, pending, backend, tabs, followed, visits>>

CloseModal(t) ==
  /\ phase[t] = "shell" /\ modal[t] # None
  /\ modal' = [modal EXCEPT ![t] = None]
  /\ UNCHANGED <<storage, backend, page, code, phase, store, forms, followed,
                 visits>>

(* The backend stops accepting a token.                                    *)
Expire(k) ==
  /\ k <= logins /\ k \notin expired
  /\ expired' = expired \cup {k}
  /\ UNCHANGED <<storage, logins, tabs, followed, visits>>

HydrateEnds(t) == HydrateAnswers(t) \/ HydrateFails(t) \/ HydrateUnauthorized(t)

Next ==
  \/ \E t \in Tabs, c \in Codes : OpenInvite(t, c)
  \/ \E t \in Tabs, p \in {"app", "auth"} : OpenPage(t, p)
  \/ \E t \in Tabs : HydrateEnds(t)
  \/ \E t \in Tabs : PassInvite(t)
  \/ \E t \in Tabs : EnterApp(t)
  \/ \E t \in Tabs : SwitchForm(t)
  \/ \E t \in Tabs : SubmitLogin(t)
  \/ \E t \in Tabs : SubmitRegistration(t)
  \/ \E t \in Tabs : Registered(t)
  \/ \E t \in Tabs : FormFails(t)
  \/ \E t \in Tabs : LogIn(t)
  \/ \E t \in Tabs : LogInUnseen(t)
  \/ \E t \in Tabs : Arrive(t)
  \/ \E t \in Tabs : LogInRefused(t)
  \/ \E t \in Tabs : LogOut(t)
  \/ \E t \in Tabs : RequestUnauthorized(t)
  \/ \E t \in Tabs : SaveProfile(t)
  \/ \E t \in Tabs : CloseModal(t)
  \/ \E k \in Tokens : Expire(k)

(* Requests end and effects run; what the user does is up to the user.     *)
Fairness == \A t \in Tabs : /\ WF_vars(HydrateEnds(t))
                            /\ WF_vars(Arrive(t))
                            /\ WF_vars(PassInvite(t))
                            /\ WF_vars(EnterApp(t))

Spec == Init /\ [][Next]_vars

FairSpec == Spec /\ Fairness

-----------------------------------------------------------------------------
(* An invite link that was opened is never lost on its way through login,  *)
(* logout and failures: until its modal is open, the code is in an address *)
(* or in localStorage.  What may end that is in the actions: the user goes *)
(* elsewhere, another invite takes its place in localStorage, or a 401     *)
(* unloads the invite page before it has remembered its code.              *)
InviteKept ==
  \A c \in followed :
     c \in {redirect, pending} \/ \E t \in Tabs : page[t] = "invite" /\ code[t] = c

(* The shell shows the user whose token its requests carry, although tabs  *)
(* overwrite each other's token and persisted store at any moment.         *)
UserOfToken ==
  \A t \in Tabs : phase[t] = "shell" => /\ store[t].token # 0
                                        /\ store[t].user = store[t].token

(* No tab is left with the blank or spinning page of a guard: whatever the *)
(* answer to its request, it comes to the login page or to the shell, and  *)
(* the two do not send it back and forth.                                  *)
PagesSettle == \A t \in Tabs : <>[](phase[t] \in {"idle", "shell"})
=============================================================================
