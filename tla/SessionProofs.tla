--------------------------- MODULE SessionProofs ---------------------------
(* Proofs about Session, for any number of tabs, logins and invites, and     *)
(* about Badges, for any number of channels, messages and failures.          *)
EXTENDS Session, Badges, TLAPS

-----------------------------------------------------------------------------
Pages == {"closed", "auth", "invite", "app"}
Phases == {"idle", "loading", "hydrating", "hydrated", "shell"}
Forms == [mode : {"login", "register"}, asking : BOOLEAN]

\* What the pieces of the actions write is typed.
LEMMA HydrateType ==
  ASSUME TypeOK, NEW t \in Tabs, NEW kept \in Sessions, Hydrate(t, kept)
  PROVE  phase' \in [Tabs -> Phases] /\ store' \in [Tabs -> Sessions] /\ persisted' \in Sessions
<1>1. CASE authToken = 0
  BY <1>1 DEF TypeOK, Hydrate, Phases
<1>2. CASE authToken # 0
  <2> DEFINE s == [kept EXCEPT !.token = authToken]
  <2>1. s \in Sessions
    BY DEF TypeOK, Sessions
  <2>2. QED
    BY <1>2, <2>1 DEF TypeOK, Hydrate, Phases
<1>3. QED
  BY <1>1, <1>2

LEMMA LoadType ==
  ASSUME TypeOK, NEW t \in Tabs, NEW p \in Pages, NEW c \in Codes \cup {None}, Load(t, p, c)
  PROVE  /\ page' \in [Tabs -> Pages] /\ code' \in [Tabs -> Codes \cup {None}]
         /\ phase' \in [Tabs -> Phases] /\ store' \in [Tabs -> Sessions]
         /\ persisted' \in Sessions /\ modal' \in [Tabs -> Codes \cup {None}]
         /\ form' \in [Tabs -> Forms] /\ orphan' \in [Tabs -> BOOLEAN]
<1>1. /\ page' \in [Tabs -> Pages] /\ code' \in [Tabs -> Codes \cup {None}]
      /\ modal' \in [Tabs -> Codes \cup {None}]
  BY DEF TypeOK, Load, Pages
<1>2. form' \in [Tabs -> Forms] /\ orphan' \in [Tabs -> BOOLEAN]
  BY DEF TypeOK, Load, Forms, BlankForm
<1>3. phase' \in [Tabs -> Phases] /\ store' \in [Tabs -> Sessions] /\ persisted' \in Sessions
  <2>1. CASE p = "auth"
    BY <2>1 DEF TypeOK, Load, Phases
  <2>2. CASE p # "auth"
    BY <2>2, HydrateType DEF TypeOK, Load
  <2>3. QED
    BY <2>1, <2>2
<1>4. QED
  BY <1>1, <1>2, <1>3

LEMMA GotoType ==
  ASSUME TypeOK, NEW t \in Tabs, NEW p \in Pages, Goto(t, p)
  PROVE  /\ page' \in [Tabs -> Pages] /\ code' \in [Tabs -> Codes \cup {None}]
         /\ modal' \in [Tabs -> Codes \cup {None}]
  BY DEF TypeOK, Goto, Pages

LEMMA ClearSessionType ==
  ASSUME TypeOK, NEW t \in Tabs, ClearSession(t)
  PROVE  /\ authToken' \in 0 .. MaxLogins /\ persisted' \in Sessions
         /\ store' \in [Tabs -> Sessions]
<1>1. NoSession \in Sessions /\ 0 \in 0 .. MaxLogins
  BY SessionAssumption DEF NoSession, Sessions
<1>2. QED
  BY <1>1 DEF TypeOK, ClearSession

LEMMA FormChangeType ==
  ASSUME TypeOK, NEW t \in Tabs, NEW a \in BOOLEAN
  PROVE  [form EXCEPT ![t].asking = a] \in [Tabs -> Forms]
<1>1. form \in [Tabs -> Forms]
  BY DEF TypeOK, Forms
<1>2. [form[t] EXCEPT !.asking = a] \in Forms
  BY <1>1 DEF Forms
<1>3. QED
  BY <1>1, <1>2

LEMMA TypeStep ==
  ASSUME TypeOK, [Next]_vars
  PROVE  TypeOK'
<1>1. CASE \E t \in Tabs, c \in Codes : OpenInvite(t, c)
  <2>1. PICK t \in Tabs, c \in Codes : OpenInvite(t, c)
    BY <1>1
  <2>2. "invite" \in Pages /\ c \in Codes \cup {None} /\ Load(t, "invite", c)
    BY <2>1 DEF OpenInvite, Open, Pages
  <2>3. /\ page' \in [Tabs -> Pages] /\ code' \in [Tabs -> Codes \cup {None}]
        /\ phase' \in [Tabs -> Phases] /\ store' \in [Tabs -> Sessions]
        /\ persisted' \in Sessions /\ modal' \in [Tabs -> Codes \cup {None}]
        /\ form' \in [Tabs -> Forms] /\ orphan' \in [Tabs -> BOOLEAN]
    BY <2>2, LoadType
  <2>4. /\ followed' \subseteq Codes /\ visits' \in 0 .. MaxVisits
        /\ UNCHANGED <<authToken, redirect, pending, logins, expired>>
    BY <2>1, SessionAssumption DEF TypeOK, OpenInvite, Open, backend
  <2>5. QED
    BY <2>3, <2>4 DEF TypeOK, Pages, Phases, Forms
<1>2. CASE \E t \in Tabs, p \in {"app", "auth"} : OpenPage(t, p)
  <2>1. PICK t \in Tabs, p \in {"app", "auth"} : OpenPage(t, p)
    BY <1>2
  <2>2. p \in Pages /\ Load(t, p, None)
    BY <2>1 DEF OpenPage, Open, Pages
  <2>3. /\ page' \in [Tabs -> Pages] /\ code' \in [Tabs -> Codes \cup {None}]
        /\ phase' \in [Tabs -> Phases] /\ store' \in [Tabs -> Sessions]
        /\ persisted' \in Sessions /\ modal' \in [Tabs -> Codes \cup {None}]
        /\ form' \in [Tabs -> Forms] /\ orphan' \in [Tabs -> BOOLEAN]
    BY <2>2, LoadType
  <2>4. /\ followed' \subseteq Codes /\ visits' \in 0 .. MaxVisits
        /\ UNCHANGED <<authToken, redirect, pending, logins, expired>>
    BY <2>1, SessionAssumption DEF TypeOK, OpenPage, Open, backend
  <2>5. QED
    BY <2>3, <2>4 DEF TypeOK, Pages, Phases, Forms
<1>3. CASE \E t \in Tabs : HydrateAnswers(t)
  BY <1>3, SessionAssumption DEF TypeOK, Sessions, Tokens, HydrateAnswers,
      storage, backend, tabs, forms, BlankForm, NoSession
<1>4. CASE \E t \in Tabs : HydrateFails(t)
  BY <1>4, SessionAssumption DEF TypeOK, Sessions, Tokens, HydrateFails,
      ClearSession, storage, backend, tabs, forms, BlankForm, NoSession
<1>5. CASE \E t \in Tabs : HydrateUnauthorized(t)
  BY <1>5, SessionAssumption DEF TypeOK, Sessions, Tokens, HydrateUnauthorized,
      LeaveForLogin, ClearSession, Goto, storage, backend, tabs, forms, BlankForm,
      NoSession
<1>6. CASE \E t \in Tabs : PassInvite(t)
  <2>1. PICK t \in Tabs : PassInvite(t)
    BY <1>6
  <2>2. CASE store[t].token = 0
    <3>1. "auth" \in Pages /\ Goto(t, "auth")
      BY <2>1, <2>2 DEF PassInvite, Pages
    <3>2. QED
      BY <2>1, <2>2, <3>1, GotoType DEF TypeOK, PassInvite, backend, forms, Pages
  <2>3. CASE store[t].token # 0
    <3>1. /\ "app" \in Pages /\ Goto(t, "app") /\ Hydrate(t, store[t])
          /\ store[t] \in Sessions
      BY <2>1, <2>3 DEF TypeOK, PassInvite, Pages
    <3>2. QED
      BY <2>1, <2>3, <3>1, GotoType, HydrateType
      DEF TypeOK, PassInvite, backend, forms, Pages, Phases
  <2>4. QED
    BY <2>2, <2>3
<1>7. CASE \E t \in Tabs : EnterApp(t)
  <2>1. PICK t \in Tabs : EnterApp(t)
    BY <1>7
  <2>2. CASE store[t].token = 0
    <3>1. "auth" \in Pages /\ Goto(t, "auth")
      BY <2>1, <2>2 DEF EnterApp, Pages
    <3>2. QED
      BY <2>1, <2>2, <3>1, GotoType DEF TypeOK, EnterApp, backend, forms, Pages
  <2>3. CASE store[t].token # 0
    BY <2>1, <2>3 DEF TypeOK, EnterApp, TakeUpInvite, backend, forms
  <2>4. QED
    BY <2>2, <2>3
<1>8. CASE \E t \in Tabs : SwitchForm(t)
  BY <1>8, SessionAssumption DEF TypeOK, Sessions, Tokens, SwitchForm, storage,
      backend, tabs, forms, BlankForm, NoSession
<1>9. CASE \E t \in Tabs : SubmitLogin(t) \/ SubmitRegistration(t)
  <2>1. PICK t \in Tabs : form' = [form EXCEPT ![t].asking = TRUE]
    BY <1>9 DEF SubmitLogin, SubmitRegistration, Submit
  <2>2. QED
    BY <1>9, <2>1, FormChangeType
    DEF TypeOK, SubmitLogin, SubmitRegistration, Submit, storage, backend, Forms
<1>10. CASE \E t \in Tabs : Registered(t)
  BY <1>10, SessionAssumption DEF TypeOK, Sessions, Tokens, Registered, storage,
      backend, tabs, forms, BlankForm, NoSession
<1>11. CASE \E t \in Tabs : FormFails(t)
  <2>1. PICK t \in Tabs : FormFails(t)
    BY <1>11
  <2>2. form' \in [Tabs -> Forms] /\ orphan' \in [Tabs -> BOOLEAN]
    <3>1. CASE form' = [form EXCEPT ![t].asking = FALSE] /\ UNCHANGED orphan
      BY <3>1, FormChangeType DEF TypeOK
    <3>2. CASE orphan' = [orphan EXCEPT ![t] = FALSE] /\ UNCHANGED form
      BY <3>2 DEF TypeOK, Forms
    <3>3. QED
      BY <2>1, <3>1, <3>2 DEF FormFails
  <2>3. QED
    BY <2>1, <2>2 DEF TypeOK, FormFails, storage, backend, Forms
<1>12. CASE \E t \in Tabs : LogIn(t)
  BY <1>12, SessionAssumption DEF TypeOK, Sessions, Tokens, LogIn, NewSession,
      storage, backend, tabs, forms, BlankForm, NoSession
<1>13. CASE \E t \in Tabs : LogInUnseen(t)
  BY <1>13, SessionAssumption DEF TypeOK, Sessions, Tokens, LogInUnseen,
      NewSession, storage, backend, tabs, forms, BlankForm, NoSession
<1>14. CASE \E t \in Tabs : Arrive(t)
  <2>1. PICK t \in Tabs : Arrive(t)
    BY <1>14
  <2>2. /\ page[t] \in Pages /\ code[t] \in Codes \cup {None}
        /\ Load(t, page[t], code[t])
    BY <2>1 DEF TypeOK, Arrive, Pages
  <2>3. QED
    BY <2>1, <2>2, LoadType DEF TypeOK, Arrive, backend, Pages, Phases, Forms
<1>15. CASE \E t \in Tabs : LogInRefused(t)
  <2>1. PICK t \in Tabs : LogInRefused(t)
    BY <1>15
  <2>2. form' \in [Tabs -> Forms] /\ orphan' \in [Tabs -> BOOLEAN]
    <3>1. CASE form' = [form EXCEPT ![t] = BlankForm] /\ UNCHANGED orphan
      BY <3>1 DEF TypeOK, BlankForm, Forms
    <3>2. CASE orphan' = [orphan EXCEPT ![t] = FALSE] /\ UNCHANGED form
      BY <3>2 DEF TypeOK, Forms
    <3>3. QED
      BY <2>1, <3>1, <3>2 DEF LogInRefused
  <2>3. ClearSession(t)
    BY <2>1 DEF LogInRefused
  <2>4. QED
    BY <2>1, <2>2, <2>3, ClearSessionType DEF TypeOK, LogInRefused, backend, Forms
<1>16. CASE \E t \in Tabs : LogOut(t) \/ RequestUnauthorized(t)
  <2>1. PICK t \in Tabs : LogOut(t) \/ RequestUnauthorized(t)
    BY <1>16
  <2>2. /\ "auth" \in Pages /\ Goto(t, "auth") /\ ClearSession(t)
        /\ phase' = [phase EXCEPT ![t] = "idle"]
    BY <2>1 DEF LogOut, RequestUnauthorized, LeaveForLogin, Pages
  <2>3. QED
    BY <2>1, <2>2, GotoType, ClearSessionType
    DEF TypeOK, LogOut, RequestUnauthorized, backend, forms, Pages
<1>17. CASE \E t \in Tabs : SaveProfile(t)
  BY <1>17, SessionAssumption DEF TypeOK, Sessions, Tokens, SaveProfile, storage,
      backend, tabs, forms, BlankForm, NoSession
<1>18. CASE \E t \in Tabs : CloseModal(t)
  BY <1>18, SessionAssumption DEF TypeOK, Sessions, Tokens, CloseModal, storage,
      backend, tabs, forms, BlankForm, NoSession
<1>19. CASE \E k \in Tokens : Expire(k)
  BY <1>19, SessionAssumption DEF TypeOK, Sessions, Tokens, Expire, storage,
      backend, tabs, forms, BlankForm, NoSession
<1>20. CASE UNCHANGED vars
  BY <1>20, SessionAssumption DEF TypeOK, Sessions, Tokens, vars, storage,
      backend, tabs, forms, BlankForm, NoSession
<1>21. QED
  BY <1>1, <1>2, <1>3, <1>4, <1>5, <1>6, <1>7, <1>8, <1>9, <1>10, <1>11, <1>12, <1>13, <1>14, <1>15, <1>16, <1>17, <1>18, <1>19, <1>20 DEF Next, HydrateEnds

-----------------------------------------------------------------------------
(* The guards of the pages.                                                  *)

\* Forms are only sent from the login page, and only the guard of its page
\* shows an invite.
FormsWaitIdle ==
  \A t \in Tabs : form[t].asking \/ orphan[t] => phase[t] = "idle"
InvitesAreGuarded ==
  \A t \in Tabs : page[t] = "invite" => phase[t] \in {"loading", "hydrating", "hydrated"}

\* A guard lets through what it has asked about; what is persisted is another
\* user's only while a token is there to be asked about.
GuardsAsk ==
  \A t \in Tabs : phase[t] = "hydrated" => store[t].user = store[t].token
PersistedIsAsked == authToken = 0 => persisted.user = persisted.token

GuardInv ==
  FormsWaitIdle /\ InvitesAreGuarded /\ GuardsAsk /\ PersistedIsAsked /\ UserOfToken

\* A guard that starts has nothing to ask about, or asks.
LEMMA HydrateGuards ==
  ASSUME TypeOK, PersistedIsAsked, NEW t \in Tabs, NEW kept \in Sessions,
         authToken = 0 => kept.user = kept.token, Hydrate(t, kept), UNCHANGED authToken
  PROVE  /\ phase'[t] \in {"hydrating", "hydrated"}
         /\ phase'[t] = "hydrated" => store'[t].user = store'[t].token
         /\ \A u \in Tabs \ {t} : phase'[u] = phase[u] /\ store'[u] = store[u]
         /\ PersistedIsAsked'
<1>1. CASE authToken = 0
  BY <1>1 DEF TypeOK, Hydrate, PersistedIsAsked
<1>2. CASE authToken # 0
  BY <1>2 DEF TypeOK, Hydrate, PersistedIsAsked
<1>3. QED
  BY <1>1, <1>2

LEMMA LoadGuards ==
  ASSUME TypeOK, GuardInv, NEW t \in Tabs, NEW p \in Pages, NEW c, Load(t, p, c),
         UNCHANGED authToken
  PROVE  GuardInv'
<1>1. /\ phase'[t] # "shell" /\ (phase'[t] = "hydrated" => store'[t].user = store'[t].token)
      /\ p # "auth" => phase'[t] \in {"hydrating", "hydrated"}
      /\ \A u \in Tabs \ {t} : phase'[u] = phase[u] /\ store'[u] = store[u]
      /\ PersistedIsAsked'
  <2>1. CASE p = "auth"
    BY <2>1 DEF TypeOK, GuardInv, PersistedIsAsked, Load
  <2>2. CASE p # "auth"
    BY <2>2, HydrateGuards DEF TypeOK, GuardInv, PersistedIsAsked, Load
  <2>3. QED
    BY <2>1, <2>2
<1>2. /\ page'[t] = p /\ ~form'[t].asking /\ ~orphan'[t]
      /\ \A u \in Tabs \ {t} : /\ page'[u] = page[u] /\ form'[u] = form[u]
                              /\ orphan'[u] = orphan[u]
  BY DEF TypeOK, Load, BlankForm
<1>3. FormsWaitIdle' /\ InvitesAreGuarded'
  BY <1>1, <1>2 DEF GuardInv, FormsWaitIdle, InvitesAreGuarded
<1>4. GuardsAsk' /\ UserOfToken'
  BY <1>1 DEF GuardInv, GuardsAsk, UserOfToken
<1>5. QED
  BY <1>1, <1>3, <1>4 DEF GuardInv

\* A tab that comes to the login page has no guard to satisfy.
LEMMA ToLoginGuards ==
  ASSUME TypeOK, GuardInv, NEW t \in Tabs, Goto(t, "auth"),
         phase' = [phase EXCEPT ![t] = "idle"], UNCHANGED forms,
         \/ ClearSession(t)
         \/ UNCHANGED <<store, authToken, persisted>>
  PROVE  GuardInv'
<1>1. /\ phase'[t] = "idle" /\ page'[t] = "auth"
      /\ \A u \in Tabs \ {t} : /\ phase'[u] = phase[u] /\ store'[u] = store[u]
                              /\ page'[u] = page[u]
  BY DEF TypeOK, Goto, ClearSession
<1>2. PersistedIsAsked'
  BY DEF GuardInv, PersistedIsAsked, ClearSession, NoSession
<1>3. FormsWaitIdle' /\ InvitesAreGuarded'
  BY <1>1 DEF GuardInv, FormsWaitIdle, InvitesAreGuarded, forms
<1>4. GuardsAsk' /\ UserOfToken'
  BY <1>1 DEF GuardInv, GuardsAsk, UserOfToken
<1>5. QED
  BY <1>2, <1>3, <1>4 DEF GuardInv

LEMMA GuardStep ==
  ASSUME TypeOK, GuardInv, [Next]_vars
  PROVE  GuardInv'
<1>1. CASE \E t \in Tabs, c \in Codes : OpenInvite(t, c)
  BY <1>1, LoadGuards DEF OpenInvite, Open, Pages
<1>2. CASE \E t \in Tabs, p \in {"app", "auth"} : OpenPage(t, p)
  BY <1>2, LoadGuards DEF OpenPage, Open, Pages
<1>3. CASE \E t \in Tabs : HydrateAnswers(t)
  BY <1>3, SessionAssumption DEF TypeOK, Sessions, GuardInv, FormsWaitIdle,
      InvitesAreGuarded, GuardsAsk, PersistedIsAsked, UserOfToken, HydrateAnswers,
      storage, backend, tabs, forms, BlankForm, NoSession
<1>4. CASE \E t \in Tabs : HydrateFails(t)
  BY <1>4, SessionAssumption DEF TypeOK, Sessions, GuardInv, FormsWaitIdle,
      InvitesAreGuarded, GuardsAsk, PersistedIsAsked, UserOfToken, HydrateFails,
      ClearSession, storage, backend, tabs, forms, BlankForm, NoSession
<1>5. CASE \E t \in Tabs : HydrateUnauthorized(t)
  BY <1>5, SessionAssumption DEF TypeOK, Sessions, GuardInv, FormsWaitIdle,
      InvitesAreGuarded, GuardsAsk, PersistedIsAsked, UserOfToken,
      HydrateUnauthorized, LeaveForLogin, ClearSession, Goto, storage, backend,
      tabs, forms, BlankForm, NoSession
<1>6. CASE \E t \in Tabs : PassInvite(t)
  <2>1. PICK t \in Tabs : PassInvite(t)
    BY <1>6
  <2>2. CASE store[t].token = 0
    BY <2>1, <2>2, ToLoginGuards DEF PassInvite
  <2>3. CASE store[t].token # 0
    <3>1. /\ store[t] \in Sessions /\ store[t].user = store[t].token
          /\ Hydrate(t, store[t]) /\ Goto(t, "app") /\ UNCHANGED <<authToken, forms>>
      BY <2>1, <2>3 DEF TypeOK, GuardInv, GuardsAsk, PassInvite
    <3>2. /\ phase'[t] \in {"hydrating", "hydrated"}
          /\ phase'[t] = "hydrated" => store'[t].user = store'[t].token
          /\ \A u \in Tabs \ {t} : phase'[u] = phase[u] /\ store'[u] = store[u]
          /\ PersistedIsAsked'
      BY <3>1, HydrateGuards DEF GuardInv
    <3>3. page'[t] = "app" /\ \A u \in Tabs \ {t} : page'[u] = page[u]
      BY <3>1 DEF TypeOK, Goto
    <3>4. FormsWaitIdle' /\ InvitesAreGuarded'
      BY <2>1, <3>1, <3>2, <3>3
      DEF GuardInv, FormsWaitIdle, InvitesAreGuarded, PassInvite, forms
    <3>5. GuardsAsk' /\ UserOfToken'
      BY <3>2 DEF GuardInv, GuardsAsk, UserOfToken
    <3>6. QED
      BY <3>2, <3>4, <3>5 DEF GuardInv
  <2>4. QED
    BY <2>2, <2>3
<1>7. CASE \E t \in Tabs : EnterApp(t)
  <2>1. PICK t \in Tabs : EnterApp(t)
    BY <1>7
  <2>2. CASE store[t].token = 0
    BY <2>1, <2>2, ToLoginGuards DEF EnterApp
  <2>3. CASE store[t].token # 0
    BY <2>1, <2>3
    DEF TypeOK, GuardInv, FormsWaitIdle, InvitesAreGuarded, GuardsAsk, PersistedIsAsked,
        UserOfToken, EnterApp, forms
  <2>4. QED
    BY <2>2, <2>3
<1>8. CASE \E t \in Tabs : SwitchForm(t)
  BY <1>8, SessionAssumption DEF TypeOK, Sessions, GuardInv, FormsWaitIdle,
      InvitesAreGuarded, GuardsAsk, PersistedIsAsked, UserOfToken, SwitchForm,
      storage, backend, tabs, forms, BlankForm, NoSession
<1>9. CASE \E t \in Tabs : SubmitLogin(t) \/ SubmitRegistration(t)
  BY <1>9, SessionAssumption DEF TypeOK, Sessions, GuardInv, FormsWaitIdle,
      InvitesAreGuarded, GuardsAsk, PersistedIsAsked, UserOfToken, SubmitLogin,
      SubmitRegistration, Submit, storage, backend, tabs, forms, BlankForm,
      NoSession
<1>10. CASE \E t \in Tabs : Registered(t)
  BY <1>10, SessionAssumption DEF TypeOK, Sessions, GuardInv, FormsWaitIdle,
      InvitesAreGuarded, GuardsAsk, PersistedIsAsked, UserOfToken, Registered,
      storage, backend, tabs, forms, BlankForm, NoSession
<1>11. CASE \E t \in Tabs : FormFails(t)
  BY <1>11, SessionAssumption DEF TypeOK, Sessions, GuardInv, FormsWaitIdle,
      InvitesAreGuarded, GuardsAsk, PersistedIsAsked, UserOfToken, FormFails,
      storage, backend, tabs, forms, BlankForm, NoSession
<1>12. CASE \E t \in Tabs : LogIn(t)
  BY <1>12, SessionAssumption DEF TypeOK, Sessions, GuardInv, FormsWaitIdle,
      InvitesAreGuarded, GuardsAsk, PersistedIsAsked, UserOfToken, LogIn,
      NewSession, storage, backend, tabs, forms, BlankForm, NoSession
<1>13. CASE \E t \in Tabs : LogInUnseen(t)
  BY <1>13, SessionAssumption DEF TypeOK, Sessions, GuardInv, FormsWaitIdle,
      InvitesAreGuarded, GuardsAsk, PersistedIsAsked, UserOfToken, LogInUnseen,
      NewSession, storage, backend, tabs, forms, BlankForm, NoSession
<1>14. CASE \E t \in Tabs : Arrive(t)
  <2>1. PICK t \in Tabs : Arrive(t)
    BY <1>14
  <2>2. page[t] \in Pages
    BY DEF TypeOK, Pages
  <2>3. QED
    BY <2>1, <2>2, LoadGuards DEF Arrive
<1>15. CASE \E t \in Tabs : LogInRefused(t)
  BY <1>15, SessionAssumption DEF TypeOK, Sessions, GuardInv, FormsWaitIdle,
      InvitesAreGuarded, GuardsAsk, PersistedIsAsked, UserOfToken, LogInRefused,
      ClearSession, storage, backend, tabs, forms, BlankForm, NoSession
<1>16. CASE \E t \in Tabs : LogOut(t) \/ RequestUnauthorized(t)
  BY <1>16, ToLoginGuards DEF LogOut, RequestUnauthorized, LeaveForLogin
<1>17. CASE \E t \in Tabs : SaveProfile(t)
  BY <1>17, SessionAssumption DEF TypeOK, Sessions, GuardInv, FormsWaitIdle,
      InvitesAreGuarded, GuardsAsk, PersistedIsAsked, UserOfToken, SaveProfile,
      storage, backend, tabs, forms, BlankForm, NoSession
<1>18. CASE \E t \in Tabs : CloseModal(t)
  BY <1>18, SessionAssumption DEF TypeOK, Sessions, GuardInv, FormsWaitIdle,
      InvitesAreGuarded, GuardsAsk, PersistedIsAsked, UserOfToken, CloseModal,
      storage, backend, tabs, forms, BlankForm, NoSession
<1>19. CASE \E k \in Tokens : Expire(k)
  BY <1>19, SessionAssumption DEF TypeOK, Sessions, GuardInv, FormsWaitIdle,
      InvitesAreGuarded, GuardsAsk, PersistedIsAsked, UserOfToken, Expire, storage,
      backend, tabs, forms, BlankForm, NoSession
<1>20. CASE UNCHANGED vars
  BY <1>20, SessionAssumption DEF TypeOK, Sessions, GuardInv, FormsWaitIdle,
      InvitesAreGuarded, GuardsAsk, PersistedIsAsked, UserOfToken, vars, storage,
      backend, tabs, forms, BlankForm, NoSession
<1>21. QED
  BY <1>1, <1>2, <1>3, <1>4, <1>5, <1>6, <1>7, <1>8, <1>9, <1>10, <1>11, <1>12, <1>13, <1>14, <1>15, <1>16, <1>17, <1>18, <1>19, <1>20 DEF Next, HydrateEnds

-----------------------------------------------------------------------------
(* The invites.                                                              *)

LEMMA InviteStep ==
  ASSUME TypeOK, GuardInv, InviteKept, [Next]_vars
  PROVE  InviteKept'
<1>1. CASE \E t \in Tabs, c \in Codes : OpenInvite(t, c)
  BY <1>1, SessionAssumption DEF TypeOK, GuardInv, FormsWaitIdle,
      InvitesAreGuarded, InviteKept, OpenInvite, Open, Load, Hydrate, storage,
      backend, tabs, forms, BlankForm, NoSession
<1>2. CASE \E t \in Tabs, p \in {"app", "auth"} : OpenPage(t, p)
  BY <1>2, SessionAssumption DEF TypeOK, GuardInv, FormsWaitIdle,
      InvitesAreGuarded, InviteKept, OpenPage, Open, Load, Hydrate, storage,
      backend, tabs, forms, BlankForm, NoSession
<1>3. CASE \E t \in Tabs : HydrateAnswers(t)
  BY <1>3, SessionAssumption DEF TypeOK, GuardInv, FormsWaitIdle,
      InvitesAreGuarded, InviteKept, HydrateAnswers, storage, backend, tabs, forms,
      BlankForm, NoSession
<1>4. CASE \E t \in Tabs : HydrateFails(t)
  BY <1>4, SessionAssumption DEF TypeOK, GuardInv, FormsWaitIdle,
      InvitesAreGuarded, InviteKept, HydrateFails, ClearSession, storage, backend,
      tabs, forms, BlankForm, NoSession
<1>5. CASE \E t \in Tabs : HydrateUnauthorized(t)
  BY <1>5, SessionAssumption DEF TypeOK, GuardInv, FormsWaitIdle,
      InvitesAreGuarded, InviteKept, HydrateUnauthorized, LeaveForLogin,
      ClearSession, Goto, storage, backend, tabs, forms, BlankForm, NoSession
<1>6. CASE \E t \in Tabs : PassInvite(t)
  BY <1>6, SessionAssumption DEF TypeOK, GuardInv, FormsWaitIdle,
      InvitesAreGuarded, InviteKept, PassInvite, Goto, Hydrate, storage, backend,
      tabs, forms, BlankForm, NoSession
<1>7. CASE \E t \in Tabs : EnterApp(t)
  BY <1>7, SessionAssumption DEF TypeOK, GuardInv, FormsWaitIdle,
      InvitesAreGuarded, InviteKept, EnterApp, Goto, TakeUpInvite, storage,
      backend, tabs, forms, BlankForm, NoSession
<1>8. CASE \E t \in Tabs : SwitchForm(t)
  BY <1>8, SessionAssumption DEF TypeOK, GuardInv, FormsWaitIdle,
      InvitesAreGuarded, InviteKept, SwitchForm, storage, backend, tabs, forms,
      BlankForm, NoSession
<1>9. CASE \E t \in Tabs : SubmitLogin(t) \/ SubmitRegistration(t)
  BY <1>9, SessionAssumption DEF TypeOK, GuardInv, FormsWaitIdle,
      InvitesAreGuarded, InviteKept, SubmitLogin, SubmitRegistration, Submit,
      storage, backend, tabs, forms, BlankForm, NoSession
<1>10. CASE \E t \in Tabs : Registered(t)
  BY <1>10, SessionAssumption DEF TypeOK, GuardInv, FormsWaitIdle,
      InvitesAreGuarded, InviteKept, Registered, storage, backend, tabs, forms,
      BlankForm, NoSession
<1>11. CASE \E t \in Tabs : FormFails(t)
  BY <1>11, SessionAssumption DEF TypeOK, GuardInv, FormsWaitIdle,
      InvitesAreGuarded, InviteKept, FormFails, storage, backend, tabs, forms,
      BlankForm, NoSession
<1>12. CASE \E t \in Tabs : LogIn(t)
  BY <1>12, SessionAssumption DEF TypeOK, GuardInv, FormsWaitIdle,
      InvitesAreGuarded, InviteKept, LogIn, NewSession, storage, backend, tabs,
      forms, BlankForm, NoSession
<1>13. CASE \E t \in Tabs : LogInUnseen(t)
  BY <1>13, SessionAssumption DEF TypeOK, GuardInv, FormsWaitIdle,
      InvitesAreGuarded, InviteKept, LogInUnseen, NewSession, storage, backend,
      tabs, forms, BlankForm, NoSession
<1>14. CASE \E t \in Tabs : Arrive(t)
  BY <1>14, SessionAssumption DEF TypeOK, GuardInv, FormsWaitIdle,
      InvitesAreGuarded, InviteKept, Arrive, Load, Hydrate, storage, backend, tabs,
      forms, BlankForm, NoSession
<1>15. CASE \E t \in Tabs : LogInRefused(t)
  BY <1>15, SessionAssumption DEF TypeOK, GuardInv, FormsWaitIdle,
      InvitesAreGuarded, InviteKept, LogInRefused, ClearSession, storage, backend,
      tabs, forms, BlankForm, NoSession
<1>16. CASE \E t \in Tabs : LogOut(t) \/ RequestUnauthorized(t)
  BY <1>16, SessionAssumption DEF TypeOK, GuardInv, FormsWaitIdle,
      InvitesAreGuarded, InviteKept, LogOut, RequestUnauthorized, LeaveForLogin,
      ClearSession, Goto, storage, backend, tabs, forms, BlankForm, NoSession
<1>17. CASE \E t \in Tabs : SaveProfile(t)
  BY <1>17, SessionAssumption DEF TypeOK, GuardInv, FormsWaitIdle,
      InvitesAreGuarded, InviteKept, SaveProfile, storage, backend, tabs, forms,
      BlankForm, NoSession
<1>18. CASE \E t \in Tabs : CloseModal(t)
  BY <1>18, SessionAssumption DEF TypeOK, GuardInv, FormsWaitIdle,
      InvitesAreGuarded, InviteKept, CloseModal, storage, backend, tabs, forms,
      BlankForm, NoSession
<1>19. CASE \E k \in Tokens : Expire(k)
  BY <1>19, SessionAssumption DEF TypeOK, GuardInv, FormsWaitIdle,
      InvitesAreGuarded, InviteKept, Expire, storage, backend, tabs, forms,
      BlankForm, NoSession
<1>20. CASE UNCHANGED vars
  BY <1>20, SessionAssumption DEF TypeOK, GuardInv, FormsWaitIdle,
      InvitesAreGuarded, InviteKept, vars, storage, backend, tabs, forms,
      BlankForm, NoSession
<1>21. QED
  BY <1>1, <1>2, <1>3, <1>4, <1>5, <1>6, <1>7, <1>8, <1>9, <1>10, <1>11, <1>12, <1>13, <1>14, <1>15, <1>16, <1>17, <1>18, <1>19, <1>20 DEF Next, HydrateEnds

-----------------------------------------------------------------------------

SessionInv == TypeOK /\ GuardInv /\ InviteKept

LEMMA SessionInvInit == ASSUME Init PROVE SessionInv
<1>1. TypeOK
  BY SessionAssumption DEF Init, TypeOK, Sessions, NoSession, BlankForm
<1>2. GuardInv
  BY DEF Init, GuardInv, FormsWaitIdle, InvitesAreGuarded, GuardsAsk, PersistedIsAsked,
         UserOfToken, NoSession, BlankForm
<1>3. InviteKept
  BY DEF Init, InviteKept
<1>4. QED
  BY <1>1, <1>2, <1>3 DEF SessionInv

LEMMA SessionInvAlways == Spec => []SessionInv
<1>1. Init => SessionInv
  BY SessionInvInit
<1>2. SessionInv /\ [Next]_vars => SessionInv'
  BY TypeStep, GuardStep, InviteStep DEF SessionInv
<1>3. QED
  BY <1>1, <1>2, PTL DEF Spec

\* In any number of tabs, the shell never shows a user whose token it does
\* not send, whatever the other tabs write to localStorage in between.
THEOREM UserMatchesToken == Spec => []UserOfToken
<1>1. SessionInv => UserOfToken
  BY DEF SessionInv, GuardInv
<1>2. QED
  BY <1>1, SessionInvAlways, PTL

\* An invite is kept on its way through login, logout and failures, for any
\* number of tabs, invites and logins.
THEOREM InvitesAreKept == Spec => []InviteKept
<1>1. SessionInv => InviteKept
  BY DEF SessionInv
<1>2. QED
  BY <1>1, SessionInvAlways, PTL

-----------------------------------------------------------------------------
(* The unread badges.                                                        *)

Pushes == [channel : TextChannels, unread : Nat]
Coming == {pushes[i].channel : i \in DOMAIN pushes}

BadgesTyped ==
  /\ count \in [TextChannels -> Nat] /\ badge \in [TextChannels -> Nat]
  /\ total \in [TextChannels -> Nat]
  /\ pushes \in Seq(Pushes)
  /\ asking.step \in {"none", "asked", "answered"}
  /\ asking.step = "answered" => asking.counts \in [TextChannels -> Nat]

\* What is unread has its badge, or will have it from the answer to come, or
\* is about to be told.  Before the answer, nothing has to be known.
UnreadIsComing ==
  \A c \in TextChannels \ (unsure \cup {opened}) : count[c] > 0 /\ c \notin Coming =>
    /\ asking.step = "none" => badge[c] > 0
    /\ asking.step = "answered" => asking.counts[c] > 0

BadgesInv == BadgesTyped /\ UnreadIsComing

\* The queue of events.
LEMMA PushIsQueued ==
  ASSUME pushes \in Seq(Pushes), NEW p \in Pushes, pushes' = Append(pushes, p)
  PROVE  pushes' \in Seq(Pushes) /\ Coming' = Coming \cup {p.channel}
<1>1. /\ pushes' \in Seq(Pushes) /\ DOMAIN pushes' = 1 .. Len(pushes) + 1
      /\ DOMAIN pushes = 1 .. Len(pushes) /\ Len(pushes) \in Nat
      /\ pushes'[Len(pushes) + 1] = p /\ \A i \in 1 .. Len(pushes) : pushes'[i] = pushes[i]
  OBVIOUS
<1>2. QED
  BY <1>1 DEF Coming

LEMMA PushIsTaken ==
  ASSUME pushes \in Seq(Pushes), pushes # << >>, pushes' = Tail(pushes)
  PROVE  /\ pushes' \in Seq(Pushes) /\ Head(pushes) \in Pushes
         /\ Coming \subseteq Coming' \cup {Head(pushes).channel}
<1>1. /\ pushes' \in Seq(Pushes) /\ Head(pushes) = pushes[1] /\ Head(pushes) \in Pushes
      /\ DOMAIN pushes = 1 .. Len(pushes) /\ Len(pushes) \in Nat
      /\ DOMAIN pushes' = 1 .. Len(pushes) - 1
      /\ \A i \in 1 .. Len(pushes) - 1 : pushes'[i] = pushes[i + 1]
  OBVIOUS
<1>2. ASSUME NEW i \in DOMAIN pushes PROVE i = 1 \/ pushes[i].channel \in Coming'
  <2>1. i # 1 => i - 1 \in DOMAIN pushes' /\ pushes'[i - 1] = pushes[i]
    BY <1>1
  <2>2. QED
    BY <2>1 DEF Coming
<1>3. QED
  BY <1>1, <1>2 DEF Coming

LEMMA BadgesInvInit ==
  ASSUME NEW n, NEW m, BadgesInit(n, m)
  PROVE  BadgesInv
<1>1. << >> \in Seq(Pushes)
  OBVIOUS
<1>2. BadgesTyped
  BY <1>1 DEF BadgesInit, BadgesTyped, Zero, NoAsking
<1>3. UnreadIsComing
  BY DEF BadgesInit, UnreadIsComing
<1>4. QED
  BY <1>2, <1>3 DEF BadgesInv

LEMMA OpenChannelKeeps ==
  ASSUME BadgesInv, NEW c \in TextChannels, OpenChannel(c)
  PROVE  BadgesInv'
<1>1. asking'.step = "asked" /\ badge' = [badge EXCEPT ![c] = 0]
      /\ UNCHANGED <<count, total, pushes>>
  BY DEF OpenChannel
<1>2. QED
  BY <1>1 DEF BadgesInv, BadgesTyped, UnreadIsComing

LEMMA AnswersKeep ==
  ASSUME BadgesInv, ChannelsAreAnswered \/ ChannelsAreShown \/ ChannelsFail
  PROVE  BadgesInv'
<1>1. UNCHANGED <<count, opened, total, pushes>> /\ Coming' = Coming
  BY DEF ChannelsAreAnswered, ChannelsAreShown, ChannelsFail, Coming
<1>2. CASE ChannelsAreAnswered
  <2>1. asking'.step = "answered" /\ asking'.counts = count /\ UNCHANGED <<badge, unsure>>
    BY <1>2 DEF ChannelsAreAnswered
  <2>2. QED
    BY <1>1, <2>1 DEF BadgesInv, BadgesTyped, UnreadIsComing
<1>3. CASE ChannelsAreShown
  <2>1. /\ asking.step = "answered" /\ asking'.step = "none" /\ badge' = asking.counts
        /\ UNCHANGED unsure
    BY <1>3 DEF ChannelsAreShown, NoAsking
  <2>2. QED
    BY <1>1, <2>1 DEF BadgesInv, BadgesTyped, UnreadIsComing
<1>4. CASE ChannelsFail
  <2>1. asking'.step = "none" /\ unsure' = TextChannels /\ UNCHANGED badge
    BY <1>4 DEF ChannelsFail, NoAsking
  <2>2. QED
    BY <1>1, <2>1 DEF BadgesInv, BadgesTyped, UnreadIsComing
<1>5. QED
  BY <1>2, <1>3, <1>4

LEMMA ReadIsStoredKeeps ==
  ASSUME BadgesInv, NEW r \in reads, ReadIsStored(r)
  PROVE  BadgesInv'
<1>1. /\ count' = [count EXCEPT ![r.channel] = 0]
      /\ UNCHANGED <<opened, badge, asking, total, pushes, unsure>>
  BY DEF ReadIsStored
<1>2. count' \in [TextChannels -> Nat] /\ \A c \in TextChannels : count'[c] \in {0, count[c]}
  BY <1>1 DEF BadgesInv, BadgesTyped
<1>3. QED
  BY <1>1, <1>2 DEF BadgesInv, BadgesTyped, UnreadIsComing, Coming

LEMMA ViewClosesKeeps == ASSUME BadgesInv, ViewCloses PROVE BadgesInv'
<1>1. /\ pushes' = << >> /\ unsure' = unsure \cup Coming
      /\ UNCHANGED <<count, opened, badge, asking, total>>
  BY DEF ViewCloses, Coming
<1>2. BadgesTyped'
  BY <1>1 DEF BadgesInv, BadgesTyped
<1>3. UnreadIsComing'
  BY <1>1 DEF BadgesInv, UnreadIsComing
<1>4. QED
  BY <1>2, <1>3 DEF BadgesInv

LEMMA MessageArrivesKeeps ==
  ASSUME BadgesInv, NEW c \in TextChannels, MessageArrives(c)
  PROVE  BadgesInv'
<1>1. /\ count' = [count EXCEPT ![c] = @ + 1] /\ UNCHANGED <<opened, badge, asking>>
      /\ total' = IF written = "none" \/ focus = c THEN total ELSE [total EXCEPT ![c] = @ + 1]
  BY DEF MessageArrives
<1>2. /\ count' \in [TextChannels -> Nat] /\ total' \in [TextChannels -> Nat]
      /\ \A d \in TextChannels : d # c => count'[d] = count[d]
  BY <1>1 DEF BadgesInv, BadgesTyped
<1>3. /\ pushes' \in Seq(Pushes) /\ Coming \subseteq Coming' /\ unsure \subseteq unsure'
      /\ c \in Coming' \/ c \in unsure'
  <2>1. CASE written = "view"
    <3> DEFINE p == [channel |-> c, unread |-> IF focus = c THEN 0 ELSE total'[c]]
    <3>1. p \in Pushes /\ p.channel = c
      BY <1>2 DEF Pushes
    <3>2. pushes' = Append(pushes, p) /\ UNCHANGED unsure
      BY <2>1 DEF MessageArrives
    <3> HIDE DEF p
    <3>3. QED
      BY <3>1, <3>2, PushIsQueued DEF BadgesInv, BadgesTyped
  <2>2. CASE written # "view"
    BY <2>2 DEF MessageArrives, BadgesInv, BadgesTyped, Coming
  <2>3. QED
    BY <2>1, <2>2
<1>4. QED
  BY <1>1, <1>2, <1>3 DEF BadgesInv, BadgesTyped, UnreadIsComing

\* An event for a channel that is not open leaves a badge, whatever it says.
LEMMA PushArrivesKeeps == ASSUME BadgesInv, PushArrives PROVE BadgesInv'
<1> DEFINE p == Head(pushes)
<1>1. /\ pushes' \in Seq(Pushes) /\ p \in Pushes /\ Coming \subseteq Coming' \cup {p.channel}
      /\ UNCHANGED <<count, opened, asking, total>>
      /\ unsure' = IF asking.step = "none" THEN unsure ELSE unsure \cup {p.channel}
  BY PushIsTaken DEF PushArrives, BadgesInv, BadgesTyped
<1>2. badge' = [badge EXCEPT ![p.channel] = IF p.channel = opened
                                            THEN (IF p.unread = 0 THEN @ ELSE 0)
                                            ELSE IF p.unread = 0 THEN @ + 1 ELSE p.unread]
  BY DEF PushArrives
<1>3. p.channel \in TextChannels /\ p.unread \in Nat
  BY <1>1 DEF Pushes
<1> HIDE DEF p
<1>4. /\ badge' \in [TextChannels -> Nat]
      /\ \A c \in TextChannels : c # p.channel => badge'[c] = badge[c]
      /\ p.channel # opened => badge'[p.channel] > 0
  BY <1>2, <1>3 DEF BadgesInv, BadgesTyped
<1>5. BadgesTyped'
  BY <1>1, <1>4 DEF BadgesInv, BadgesTyped
<1>6. UnreadIsComing'
  BY <1>1, <1>4 DEF BadgesInv, UnreadIsComing, BadgesTyped
<1>7. QED
  BY <1>5, <1>6 DEF BadgesInv

\* For any channels, and however much happens: at rest, an unread channel that
\* is not open has its badge, but for the exceptions the property names.
THEOREM UnreadHasItsBadge ==
  ASSUME NEW CONSTANT n, NEW CONSTANT m
  PROVE  BadgesSpec(n, m) => []UnreadIsShown
<1>1. BadgesInit(n, m) => BadgesInv
  BY BadgesInvInit
<1>2. BadgesInv /\ [BadgesNext]_badgeVars => BadgesInv'
  <2> SUFFICES ASSUME BadgesInv, [BadgesNext]_badgeVars PROVE BadgesInv'
    OBVIOUS
  <2>1. CASE \E c \in TextChannels : OpenChannel(c)
    BY <2>1, OpenChannelKeeps
  <2>2. CASE ChannelsAreAnswered \/ ChannelsAreShown \/ ChannelsFail
    BY <2>2, AnswersKeep
  <2>3. CASE \E r \in reads : ReadIsStored(r)
    BY <2>3, ReadIsStoredKeeps
  <2>4. CASE ViewCloses
    BY <2>4, ViewClosesKeeps
  <2>5. CASE \E c \in TextChannels : MessageArrives(c)
    BY <2>5, MessageArrivesKeeps
  <2>6. CASE PushArrives
    BY <2>6, PushArrivesKeeps
  <2>7. CASE (\E r \in reads : ReadFails(r)) \/ ViewConnects \/ ShellConnects \/ ShellCloses
             \/ FocusArrives \/ UNCHANGED badgeVars
    <3>1. UNCHANGED <<count, opened, badge, asking, total, pushes, unsure>>
      BY <2>7 DEF ReadFails, ViewConnects, ShellConnects, ShellCloses, FocusArrives, badgeVars
    <3>2. QED
      BY <3>1 DEF BadgesInv, BadgesTyped, UnreadIsComing, Coming
  <2>8. QED
    BY <2>1, <2>2, <2>3, <2>4, <2>5, <2>6, <2>7 DEF BadgesNext
<1>3. BadgesInv => UnreadIsShown
  BY DEF BadgesInv, UnreadIsComing, Coming, UnreadIsShown
<1>4. QED
  BY <1>1, <1>2, <1>3, PTL DEF BadgesSpec
=============================================================================
