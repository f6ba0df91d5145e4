----------------------------- MODULE PageProofs -----------------------------
(* Proofs about the pages and dialogs of the shell, each a specification of  *)
(* its own: the dialogs, the page of a tournament and its edit dialog, the   *)
(* list of members, the form for tournaments, and the server settings.       *)
EXTENDS Dialogs, TournamentPage, MemberList, TournamentForm, ServerSettings, TLAPS

-----------------------------------------------------------------------------
(* The dialogs of the shell.                                                 *)

DialogNames == {"server", "invite", "profile", "channel", "none"}
Kinds == {"create", "resolve", "join", "link", "upload", "save", "channel"}

\* What a request is about: a code, nothing, or a server and an expiry.
Subjects == Codes \cup {Nil} \cup (Servers \X Options)

Jobs == [id : Nat, kind : Kinds, code : Subjects, auto : BOOLEAN, live : BOOLEAN]
Modals == [step : {"type", "details", "input", "preview"}, preview : Subjects,
           code : Subjects, input : Subjects, auto : Subjects]
Invites == [server : Servers, option : Options, link : Subjects]

DialogTypeOK ==
  /\ dialog \in DialogNames /\ spinning \subseteq Kinds /\ stuck \in BOOLEAN
  /\ modal \in Modals /\ invite \in Invites /\ jobs \subseteq Jobs /\ begun \in Nat

\* Only what resolves the code of an invite link by itself is ever cancelled,
\* and until then the page for codes is open with that code.
OnlyAutoIsCancelled ==
  \A j \in jobs : /\ ~j.auto => j.live
                  /\ j.auto => j.kind = "resolve"
                  /\ j.auto /\ j.live => dialog = "server" /\ modal.step = "input"

\* A flag other than "resolve" is up for a request, even in a closed dialog.
FlagsHaveCauses ==
  \A f \in spinning \ {"resolve"} : \E j \in jobs : j.kind = f /\ j.live
ResolveHasACause ==
  dialog = "server" /\ "resolve" \in spinning =>
    stuck \/ \E j \in jobs : j.kind = "resolve" /\ j.live

DialogInv == DialogTypeOK /\ OnlyAutoIsCancelled /\ FlagsHaveCauses /\ ResolveHasACause

LEMMA BegunOK ==
  ASSUME DialogTypeOK, NEW kind \in Kinds, NEW code \in Subjects, NEW auto \in BOOLEAN
  PROVE  /\ Begun(kind, code, auto) \in Jobs /\ Begun(kind, code, auto).live
         /\ Begun(kind, code, auto).kind = kind /\ Begun(kind, code, auto).auto = auto
  BY DEF DialogTypeOK, Jobs, Begun

\* A request that is started is the cause of its flag.
LEMMA StartKeeps ==
  ASSUME DialogInv, NEW kind \in Kinds, NEW code \in Subjects, Start(kind, code),
         UNCHANGED <<dialog, modal, invite, stuck>>
  PROVE  DialogInv'
<1> DEFINE b == Begun(kind, code, FALSE)
<1>1. b \in Jobs /\ b.live /\ b.kind = kind /\ ~b.auto
  BY BegunOK DEF DialogInv
<1>2. jobs' = jobs \cup {b} /\ spinning' = spinning \cup {kind}
  BY DEF Start
<1> HIDE DEF b
<1>3. DialogTypeOK'
  <2>1. begun' \in Nat
    BY DEF DialogInv, DialogTypeOK, Start
  <2>2. QED
    BY <1>1, <1>2, <2>1 DEF DialogInv, DialogTypeOK
<1>4. OnlyAutoIsCancelled'
  BY <1>1, <1>2 DEF DialogInv, OnlyAutoIsCancelled
<1>5. FlagsHaveCauses' /\ ResolveHasACause'
  BY <1>1, <1>2 DEF DialogInv, FlagsHaveCauses, ResolveHasACause
<1>6. QED
  BY <1>3, <1>4, <1>5 DEF DialogInv

\* A request that is over takes its flag with it, if it was not cancelled.
LEMMA OverKeeps ==
  ASSUME DialogInv, NEW j \in jobs, jobs' = jobs \ {j}, spinning' \subseteq spinning,
         j.live => j.kind \notin spinning',
         dialog' \in DialogNames, dialog' = dialog \/ {dialog, dialog'} \cap {"server"} = {},
         UNCHANGED <<modal, begun, stuck>>, invite' \in Invites
  PROVE  DialogInv'
<1>1. DialogTypeOK'
  BY DEF DialogInv, DialogTypeOK
<1>2. OnlyAutoIsCancelled'
  BY DEF DialogInv, OnlyAutoIsCancelled
<1>3. FlagsHaveCauses'
  BY DEF DialogInv, FlagsHaveCauses
<1>4. ResolveHasACause'
  BY DEF DialogInv, ResolveHasACause
<1>5. QED
  BY <1>1, <1>2, <1>3, <1>4 DEF DialogInv

\* What the modal shows next cancels the resolution that it leaves behind.
LEMMA RenderKeeps ==
  ASSUME DialogInv, NEW d \in DialogNames, NEW m \in Modals,
         NEW js \in SUBSET jobs, NEW fs \in SUBSET spinning, Render(d, m, js, fs),
         \A k \in jobs \ js : k.live => k.kind \notin fs,
         d = "server" /\ "resolve" \in fs =>
           stuck' \/ \E k \in js : k.kind = "resolve" /\ ~k.auto,
         stuck' \in BOOLEAN, UNCHANGED invite
  PROVE  DialogInv'
<1> DEFINE moved == d # dialog \/ m.step # modal.step \/ m.code # modal.code
           asks == /\ d = "server" /\ m.step = "input"
                   /\ m.code \notin {Nil, m.auto} /\ begun < MaxJobs
           Now(k) == IF k.auto /\ moved THEN [k EXCEPT !.live = FALSE] ELSE k
           b == Begun("resolve", m.code, TRUE)
<1>1. /\ dialog' = d /\ modal' = IF asks THEN [m EXCEPT !.auto = m.code] ELSE m
      /\ jobs' = {Now(k) : k \in js} \cup (IF asks THEN {b} ELSE {})
      /\ spinning' = IF asks THEN fs \cup {"resolve"} ELSE fs
  BY DEF Render
<1>2. b \in Jobs /\ b.live /\ b.kind = "resolve" /\ b.auto
  <2>1. DialogTypeOK /\ m.code \in Subjects /\ "resolve" \in Kinds
    BY DEF DialogInv, Modals, Kinds
  <2>2. QED
    BY <2>1, BegunOK
<1>3. ASSUME NEW k \in js
      PROVE  /\ Now(k) \in Jobs /\ Now(k).kind = k.kind /\ Now(k).auto = k.auto
             /\ Now(k).live <=> k.live /\ ~(k.auto /\ moved)
  BY DEF DialogInv, DialogTypeOK, Jobs
<1>4. modal' \in Modals /\ modal'.step = m.step /\ begun' \in Nat
  BY <1>1 DEF DialogInv, DialogTypeOK, Modals, Render
<1> HIDE DEF Now, b
<1>5. DialogTypeOK'
  BY <1>1, <1>2, <1>3, <1>4 DEF DialogInv, DialogTypeOK, Kinds
<1>6. OnlyAutoIsCancelled'
  <2>1. ASSUME NEW k \in js
        PROVE  /\ ~Now(k).auto => Now(k).live
               /\ Now(k).auto => Now(k).kind = "resolve"
               /\ Now(k).auto /\ Now(k).live => d = "server" /\ m.step = "input"
    BY <1>3 DEF DialogInv, OnlyAutoIsCancelled
  <2>2. QED
    BY <1>1, <1>2, <1>4, <2>1 DEF OnlyAutoIsCancelled
<1>7. FlagsHaveCauses'
  <2>1. SUFFICES ASSUME NEW f \in fs \ {"resolve"}
                 PROVE  \E j \in jobs' : j.kind = f /\ j.live
    BY <1>1 DEF FlagsHaveCauses
  <2>2. PICK k \in jobs : k.kind = f /\ k.live
    BY DEF DialogInv, FlagsHaveCauses
  <2>3. k \in js /\ ~k.auto
    BY <2>2 DEF DialogInv, OnlyAutoIsCancelled
  <2>4. QED
    BY <1>1, <1>3, <2>2, <2>3
<1>8. ResolveHasACause'
  <2>1. CASE asks
    BY <1>1, <1>2, <2>1 DEF ResolveHasACause
  <2>2. CASE ~asks
    <3>1. SUFFICES ASSUME d = "server", "resolve" \in fs, ~stuck'
                   PROVE  \E j \in jobs' : j.kind = "resolve" /\ j.live
      BY <1>1, <2>2 DEF ResolveHasACause
    <3>2. PICK k \in js : k.kind = "resolve" /\ ~k.auto
      BY <3>1
    <3>3. k.live
      BY <3>2 DEF DialogInv, OnlyAutoIsCancelled
    <3>4. QED
      BY <1>1, <1>3, <3>2, <3>3
  <2>3. QED
    BY <2>1, <2>2
<1>9. QED
  BY <1>5, <1>6, <1>7, <1>8 DEF DialogInv

\* A dialog opens or closes beside the requests at work.
LEMMA BesideKeeps ==
  ASSUME DialogInv, UNCHANGED <<jobs, begun, stuck>>, invite' \in Invites, spinning' \subseteq spinning,
         dialog' \in DialogNames, dialog' = dialog \/ {dialog, dialog'} \cap {"server"} = {},
         modal' \in Modals, modal'.step = modal.step
  PROVE  DialogInv'
<1>1. DialogTypeOK'
  BY DEF DialogInv, DialogTypeOK
<1>2. OnlyAutoIsCancelled'
  BY DEF DialogInv, OnlyAutoIsCancelled
<1>3. FlagsHaveCauses'
  <2>1. SUFFICES ASSUME NEW f \in spinning \ {"resolve"}
                 PROVE  \E j \in jobs : j.kind = f /\ j.live
    BY DEF FlagsHaveCauses
  <2>2. QED
    BY DEF DialogInv, FlagsHaveCauses
<1>4. ResolveHasACause'
  BY DEF DialogInv, ResolveHasACause
<1>5. QED
  BY <1>1, <1>2, <1>3, <1>4 DEF DialogInv

LEMMA ShowInviteKeeps ==
  ASSUME DialogInv, NEW d \in {dialog, "invite"}, dialog # "server", NEW v \in Invites,
         ShowInvite(d, v)
  PROVE  DialogInv'
<1> DEFINE asks == d = "invite" /\ v.link = Nil /\ begun < MaxJobs
           b == Begun("link", <<v.server, v.option>>, FALSE)
<1>1. b \in Jobs /\ b.live /\ b.kind = "link" /\ ~b.auto
  <2>1. "link" \in Kinds /\ <<v.server, v.option>> \in Subjects
    BY DEF Kinds, Invites, Subjects
  <2>2. QED
    BY <2>1, BegunOK DEF DialogInv
<1>2. d \in DialogNames /\ d # "server" /\ dialog' = d
      /\ UNCHANGED <<modal, stuck>> /\ invite' \in Invites /\ begun' \in Nat
  <2>1. begun \in Nat /\ begun' \in {begun, begun + 1}
    <3>1. CASE asks
      BY <3>1 DEF DialogInv, DialogTypeOK, ShowInvite
    <3>2. CASE ~asks
      BY <3>2 DEF DialogInv, DialogTypeOK, ShowInvite
    <3>3. QED
      BY <3>1, <3>2
  <2>2. QED
    BY <2>1 DEF DialogInv, DialogTypeOK, DialogNames, ShowInvite
<1>3. /\ asks => jobs' = jobs \cup {b} /\ spinning' = spinning \cup {"link"}
      /\ ~asks => UNCHANGED <<jobs, spinning>>
  BY DEF ShowInvite
<1> HIDE DEF b, asks
<1>4. DialogTypeOK'
  BY <1>1, <1>2, <1>3 DEF DialogInv, DialogTypeOK, Kinds
<1>5. OnlyAutoIsCancelled'
  BY <1>1, <1>2, <1>3 DEF DialogInv, OnlyAutoIsCancelled
<1>6. FlagsHaveCauses' /\ ResolveHasACause'
  BY <1>1, <1>2, <1>3 DEF DialogInv, FlagsHaveCauses, ResolveHasACause
<1>7. QED
  BY <1>4, <1>5, <1>6 DEF DialogInv

-----------------------------------------------------------------------------
(* CreateServerModal.                                                        *)

LEMMA OpenServerModalKeeps ==
  ASSUME DialogInv, NEW c \in Codes \cup {Nil}, OpenServerModal(c)
  PROVE  DialogInv'
<1> DEFINE fs == spinning \ Flags.server
<1>1. Fresh(c) \in Modals /\ "server" \in DialogNames
  BY DEF Modals, Subjects, Fresh, DialogNames
<1>2. fs \in SUBSET spinning /\ "resolve" \notin fs /\ jobs \ jobs = {}
  BY DEF Flags
<1>3. stuck' \in BOOLEAN /\ Render("server", Fresh(c), jobs, fs) /\ UNCHANGED invite
  BY DEF OpenServerModal
<1> HIDE DEF fs
<1>4. QED
  BY <1>1, <1>2, <1>3, RenderKeeps

LEMMA CloseServerModalKeeps ==
  ASSUME DialogInv, CloseServerModal
  PROVE  DialogInv'
<1> DEFINE m == [modal EXCEPT !.code = Nil, !.auto = Nil]
<1>1. m \in Modals /\ "none" \in DialogNames /\ jobs \ jobs = {}
  BY DEF DialogInv, DialogTypeOK, Modals, Subjects, DialogNames
<1>2. Render("none", m, jobs, spinning) /\ stuck' \in BOOLEAN /\ UNCHANGED invite
  BY DEF DialogInv, DialogTypeOK, CloseServerModal
<1> HIDE DEF m
<1>3. QED
  BY <1>1, <1>2, RenderKeeps

\* Leaving the page for codes cancels what resolves its code, and is excused.
LEMMA MoveKeeps ==
  ASSUME DialogInv, NEW from, NEW to \in {"type", "details", "input"}, Move(from, to)
  PROVE  DialogInv'
<1> DEFINE m == [modal EXCEPT !.step = to]
<1>1. m \in Modals /\ dialog \in DialogNames /\ jobs \ jobs = {}
  BY DEF DialogInv, DialogTypeOK, Modals
<1>2. Render(dialog, m, jobs, spinning) /\ stuck' \in BOOLEAN /\ UNCHANGED invite
  BY DEF DialogInv, DialogTypeOK, Move
<1>3. ASSUME dialog = "server", "resolve" \in spinning
      PROVE  stuck' \/ \E k \in jobs : k.kind = "resolve" /\ ~k.auto
  <2>1. CASE stuck
    BY <2>1 DEF Move
  <2>2. CASE ~stuck
    <3>1. PICK k \in jobs : k.kind = "resolve" /\ k.live
      BY <1>3, <2>2 DEF DialogInv, ResolveHasACause
    <3>2. k.auto => from = "input"
      BY <3>1 DEF DialogInv, OnlyAutoIsCancelled, Move
    <3>3. QED
      BY <3>1, <3>2 DEF Move
  <2>3. QED
    BY <2>1, <2>2
<1> HIDE DEF m
<1>4. QED
  BY <1>1, <1>2, <1>3, RenderKeeps

LEMMA InviteResolvedKeeps ==
  ASSUME DialogInv, NEW j \in jobs, InviteResolved(j)
  PROVE  DialogInv'
<1>1. CASE j.live
  <2> DEFINE m == [modal EXCEPT !.preview = j.code, !.step = "preview",
                                !.auto = IF j.auto THEN @ ELSE j.code]
             js == jobs \ {j}
             fs == spinning \ {"resolve"}
  <2>1. m \in Modals /\ dialog \in DialogNames
    BY DEF DialogInv, DialogTypeOK, Modals, Jobs
  <2>2. Render(dialog, m, js, fs) /\ stuck' \in BOOLEAN /\ UNCHANGED invite
    BY <1>1 DEF DialogInv, DialogTypeOK, InviteResolved
  <2>3. /\ js \in SUBSET jobs /\ fs \in SUBSET spinning /\ "resolve" \notin fs
        /\ \A k \in jobs \ js : k.kind \notin fs
    BY DEF InviteResolved
  <2> HIDE DEF m, js, fs
  <2>4. QED
    BY <2>1, <2>2, <2>3, RenderKeeps
<1>2. CASE ~j.live
  BY <1>2, OverKeeps DEF DialogInv, DialogTypeOK, InviteResolved
<1>3. QED
  BY <1>1, <1>2

LEMMA ServerEnteredKeeps ==
  ASSUME DialogInv, NEW j \in jobs, ServerEntered(j)
  PROVE  DialogInv'
<1> DEFINE m == [modal EXCEPT !.code = Nil, !.auto = Nil]
           d == IF dialog = "server" THEN "none" ELSE dialog
           js == jobs \ {j}
           fs == spinning \ {j.kind}
<1>1. m \in Modals /\ d \in DialogNames /\ d # "server"
  BY DEF DialogInv, DialogTypeOK, Modals, Subjects, DialogNames
<1>2. Render(d, m, js, fs) /\ stuck' \in BOOLEAN /\ UNCHANGED invite
  BY DEF DialogInv, DialogTypeOK, ServerEntered
<1>3. /\ js \in SUBSET jobs /\ fs \in SUBSET spinning
      /\ \A k \in jobs \ js : k.kind \notin fs
  OBVIOUS
<1> HIDE DEF m, d, js, fs
<1>4. QED
  BY <1>1, <1>2, <1>3, RenderKeeps

-----------------------------------------------------------------------------

LEMMA DialogInvInit == ASSUME NEW n \in Nat, DialogsInit(n) PROVE DialogInv
<1>1. DialogTypeOK
  <2>1. modal \in Modals
    BY DEF DialogsInit, Modals, Subjects, Fresh
  <2>2. invite \in Invites
    BY DEF DialogsInit, Invites, Subjects
  <2>3. QED
    BY <2>1, <2>2 DEF DialogsInit, DialogTypeOK, DialogNames
<1>2. OnlyAutoIsCancelled /\ FlagsHaveCauses /\ ResolveHasACause
  BY DEF DialogsInit, OnlyAutoIsCancelled, FlagsHaveCauses, ResolveHasACause
<1>3. QED
  BY <1>1, <1>2 DEF DialogInv

\* Whichever dialogs are closed and opened while requests are at work, and
\* however many those are: a button that is disabled waits for a request that
\* will come back, or for a code that the user himself turned away from.
THEOREM ButtonsComeBack == DialogsSpec => []NoIdleSpinner
<1>1. DialogsInit(0) => DialogInv
  BY DialogInvInit
<1>2. DialogInv /\ [DialogsNext]_dialogVars => DialogInv'
  <2> SUFFICES ASSUME DialogInv, [DialogsNext]_dialogVars PROVE DialogInv'
    OBVIOUS
  <2>0. DialogTypeOK
    BY DEF DialogInv
  <2>1. CASE \E c \in Codes \cup {Nil} : OpenServerModal(c)
    BY <2>1, OpenServerModalKeeps
  <2>2. CASE CloseServerModal
    BY <2>2, CloseServerModalKeeps
  <2>3. CASE \/ ChooseType \/ GoToJoin \/ BackFromInput
             \/ BackFromPreview \/ BackFromDetails
    BY <2>3, MoveKeeps
    DEF ChooseType, GoToJoin, BackFromInput, BackFromPreview, BackFromDetails
  <2>4. CASE \E c \in Codes : EnterCode(c)
    <3>1. modal' \in Modals /\ modal'.step = modal.step
      BY <2>0, <2>4 DEF EnterCode, DialogTypeOK, Modals, Subjects
    <3>2. QED
      BY <2>0, <2>4, <3>1, BesideKeeps DEF EnterCode, DialogTypeOK
  <2>5. CASE \/ ResolveInvite \/ JoinByInvite \/ SubmitServer \/ Regenerate
             \/ UploadAvatar \/ SaveUser \/ SubmitChannel
    <3>1. PICK kind \in Kinds, code \in Subjects : Start(kind, code)
      BY <2>0, <2>5
      DEF DialogTypeOK, ResolveInvite, JoinByInvite, SubmitServer, Regenerate, UploadAvatar,
          SaveUser, SubmitChannel, Kinds, Modals, Invites, Subjects
    <3>2. UNCHANGED <<dialog, modal, invite, stuck>>
      BY <2>5
      DEF ResolveInvite, JoinByInvite, SubmitServer, Regenerate, UploadAvatar, SaveUser,
          SubmitChannel
    <3>3. QED
      BY <3>1, <3>2, StartKeeps
  <2>6. CASE \E j \in jobs : JobFails(j)
    BY <2>0, <2>6, OverKeeps DEF JobFails, DialogTypeOK
  <2>7. CASE \E j \in jobs : InviteResolved(j)
    BY <2>7, InviteResolvedKeeps
  <2>8. CASE \E j \in jobs : ServerEntered(j)
    BY <2>8, ServerEnteredKeeps
  <2>9. CASE OpenInvite
    BY <2>0, <2>9, ShowInviteKeeps DEF OpenInvite, DialogTypeOK
  <2>10. CASE \E o \in Options : ChooseExpiry(o)
    <3>1. PICK o \in Options : ChooseExpiry(o)
      BY <2>10
    <3>2. [invite EXCEPT !.option = o, !.link = Nil] \in Invites
      BY <2>0 DEF DialogTypeOK, Invites, Subjects
    <3>3. QED
      BY <3>1, <3>2, ShowInviteKeeps DEF ChooseExpiry
  <2>11. CASE \E s \in Servers : ChangeServer(s)
    <3>1. PICK s \in Servers : ChangeServer(s)
      BY <2>11
    <3>2. [invite EXCEPT !.server = s] \in Invites
      BY <2>0 DEF DialogTypeOK, Invites
    <3>3. CASE dialog # "server"
      BY <3>1, <3>2, <3>3, ShowInviteKeeps DEF ChangeServer
    <3>4. CASE dialog = "server"
      BY <2>0, <3>1, <3>2, <3>4, BesideKeeps DEF ChangeServer, ShowInvite, DialogTypeOK
    <3>5. QED
      BY <3>3, <3>4
  <2>12. CASE \E j \in jobs : LinkArrives(j) \/ AvatarUploaded(j)
    <3>1. invite' \in Invites
      BY <2>0, <2>12 DEF LinkArrives, AvatarUploaded, DialogTypeOK, Invites, Jobs
    <3>2. QED
      BY <2>0, <2>12, <3>1, OverKeeps DEF LinkArrives, AvatarUploaded, DialogTypeOK
  <2>13. CASE OpenUser \/ OpenChannelModal
    BY <2>0, <2>13, BesideKeeps DEF OpenUser, OpenChannelModal, DialogTypeOK, DialogNames
  <2>14. CASE \E j \in jobs : UserSaved(j)
    BY <2>0, <2>14, OverKeeps DEF UserSaved, DialogTypeOK, DialogNames, Flags
  <2>15. CASE \E j \in jobs : ChannelCreated(j)
    BY <2>0, <2>15, OverKeeps DEF ChannelCreated, Finish, DialogTypeOK, DialogNames
  <2>16. CASE CloseDialog
    BY <2>0, <2>16, BesideKeeps DEF CloseDialog, DialogTypeOK, DialogNames
  <2>17. CASE UNCHANGED dialogVars
    BY <2>0, <2>17, BesideKeeps DEF dialogVars, DialogTypeOK
  <2>18. QED
    BY <2>1, <2>2, <2>3, <2>4, <2>5, <2>6, <2>7, <2>8, <2>9, <2>10, <2>11, <2>12,
       <2>13, <2>14, <2>15, <2>16, <2>17 DEF DialogsNext
<1>3. DialogInv => NoIdleSpinner
  <2>1. SUFFICES ASSUME DialogInv, NEW f \in spinning \cap Flags[dialog]
                 PROVE  \/ \E j \in jobs : j.kind = f /\ j.live
                        \/ f = "resolve" /\ stuck
    BY DEF NoIdleSpinner
  <2>2. CASE f # "resolve"
    BY <2>1, <2>2 DEF DialogInv, FlagsHaveCauses
  <2>3. CASE f = "resolve"
    <3>1. dialog = "server"
      BY <2>1, <2>3 DEF DialogInv, DialogTypeOK, DialogNames, Flags
    <3>2. QED
      BY <2>1, <2>3, <3>1 DEF DialogInv, ResolveHasACause
  <2>4. QED
    BY <2>2, <2>3
<1>4. QED
  BY <1>1, <1>2, <1>3, PTL DEF DialogsSpec

-----------------------------------------------------------------------------
(* The edit dialog of the tournament page.                                   *)

\* The records have the fields that are read and changed below.
RecordsOK ==
  /\ \A l \in loads : {"of", "answer"} \subseteq DOMAIN l
  /\ \A s \in sends : {"kind", "of", "target", "step"} \subseteq DOMAIN s
  /\ {"open", "of"} \subseteq DOMAIN form

\* A load brings its own tournament, and the dialog is always filled from the
\* one that is shown.
LoadsAreOfTheirPage == \A l \in loads : l.answer = Nothing \/ l.answer.of = l.of
FormIsOfShown == form.open => form.of = detail.of

FormInv == RecordsOK /\ LoadsAreOfTheirPage /\ FormIsOfShown /\ FormGoesHome

LEMMA FormInvInit == ASSUME NEW n, NEW m, PageInit(n, m) PROVE FormInv
  BY DEF PageInit, FormInv, RecordsOK, LoadsAreOfTheirPage, FormIsOfShown, FormGoesHome, Closed

\* A reload that starts has no answer yet.
LEMMA StartReloadKeeps ==
  ASSUME FormInv, NEW id, NEW t, NEW frees, StartReload(id, t, frees), UNCHANGED detail,
         form' = form \/ form' = Closed,
         sends' \subseteq sends
  PROVE  FormInv'
<1> DEFINE l == [id |-> id, of |-> t, frees |-> frees, answer |-> Nothing]
<1>1. {"of", "answer"} \subseteq DOMAIN l /\ l.answer = Nothing
  OBVIOUS
<1>2. loads' = loads \cup {l}
  BY DEF StartReload
<1> HIDE DEF l
<1>3. RecordsOK'
  BY <1>1, <1>2 DEF FormInv, RecordsOK, Closed
<1>4. LoadsAreOfTheirPage'
  BY <1>1, <1>2 DEF FormInv, LoadsAreOfTheirPage
<1>5. FormIsOfShown' /\ FormGoesHome'
  BY DEF FormInv, FormIsOfShown, FormGoesHome, Closed
<1>6. QED
  BY <1>3, <1>4, <1>5 DEF FormInv

LEMMA LoadIsAnsweredKeeps ==
  ASSUME FormInv, NEW l \in loads, LoadIsAnswered(l)
  PROVE  FormInv'
<1> DEFINE k == [l EXCEPT !.answer = [of |-> l.of, row |-> store[l.of]]]
<1>1. {"of", "answer"} \subseteq DOMAIN k /\ k.answer.of = k.of
  BY DEF FormInv, RecordsOK
<1>2. loads' = (loads \ {l}) \cup {k} /\ UNCHANGED <<detail, form, sends>>
  BY DEF LoadIsAnswered, shown
<1> HIDE DEF k
<1>3. QED
  BY <1>1, <1>2
  DEF FormInv, RecordsOK, LoadsAreOfTheirPage, FormIsOfShown, FormGoesHome

LEMMA LoadArrivesKeeps ==
  ASSUME FormInv, NEW l \in loads, LoadArrives(l)
  PROVE  FormInv'
<1>1. loads' \subseteq loads /\ UNCHANGED sends
  BY DEF LoadArrives, Loaded
<1>2. /\ {"open", "of"} \subseteq DOMAIN form' /\ form'.open = form.open
      /\ form.open => form'.of = l.of
  BY DEF FormInv, RecordsOK, LoadArrives
<1>3. detail'.of = l.of
  BY DEF FormInv, LoadsAreOfTheirPage, LoadArrives
<1>4. QED
  BY <1>1, <1>2, <1>3
  DEF FormInv, RecordsOK, LoadsAreOfTheirPage, FormIsOfShown, FormGoesHome

\* What is sent for the dialog is what it was filled from.
LEMMA SendKeeps ==
  ASSUME FormInv, NEW kind, NEW to, NEW of, Send(kind, to, of),
         kind = "edit" => of = detail.of
  PROVE  FormInv'
<1> DEFINE s == [id |-> clicks, kind |-> kind, to |-> to, target |-> detail.of,
                 of |-> of, page |-> page, step |-> "asked"]
<1>1. /\ {"kind", "of", "target", "step"} \subseteq DOMAIN s
      /\ s.kind = "edit" => s.of = s.target
  OBVIOUS
<1>2. sends' = sends \cup {s} /\ UNCHANGED <<detail, form, loads>>
  BY DEF Send, shown
<1> HIDE DEF s
<1>3. QED
  BY <1>1, <1>2
  DEF FormInv, RecordsOK, LoadsAreOfTheirPage, FormIsOfShown, FormGoesHome

LEMMA SendIsAnsweredKeeps ==
  ASSUME FormInv, NEW s \in sends, SendIsAnswered(s)
  PROVE  FormInv'
<1> DEFINE r == [s EXCEPT !.step = IF Accepts(s) THEN "ok" ELSE "refused"]
<1>1. /\ {"kind", "of", "target", "step"} \subseteq DOMAIN r
      /\ r.kind = s.kind /\ r.of = s.of /\ r.target = s.target
  BY DEF FormInv, RecordsOK
<1>2. sends' = (sends \ {s}) \cup {r} /\ UNCHANGED <<detail, form, loads>>
  BY DEF SendIsAnswered, shown
<1> HIDE DEF r
<1>3. QED
  BY <1>1, <1>2
  DEF FormInv, RecordsOK, LoadsAreOfTheirPage, FormIsOfShown, FormGoesHome

\* The rest ends something, or opens and closes a dialog.
LEMMA EndingKeeps ==
  ASSUME FormInv, loads' \subseteq loads, sends' \subseteq sends, UNCHANGED detail,
         form' \in {form, Closed, [open |-> TRUE, of |-> detail.of]}
  PROVE  FormInv'
  BY DEF FormInv, RecordsOK, LoadsAreOfTheirPage, FormIsOfShown, FormGoesHome, Closed

\* For any set of tournaments, and however often the user moves on, acts and
\* refreshes: the edit dialog saves to the tournament that it was filled from.
THEOREM FormsGoHome ==
  ASSUME NEW CONSTANT n, NEW CONSTANT m
  PROVE  PageSpec(n, m) => []FormGoesHome
<1>1. PageInit(n, m) => FormInv
  BY FormInvInit
<1>2. FormInv /\ [PageNext]_pageVars => FormInv'
  <2> SUFFICES ASSUME FormInv, [PageNext]_pageVars PROVE FormInv'
    OBVIOUS
  <2>1. CASE \E l \in loads : LoadIsAnswered(l)
    BY <2>1, LoadIsAnsweredKeeps
  <2>2. CASE \E l \in loads : LoadArrives(l)
    BY <2>2, LoadArrivesKeeps
  <2>3. CASE \E l \in loads : LoadFails(l)
    BY <2>3, EndingKeeps DEF LoadFails, Loaded
  <2>4. CASE (\E t \in Tournaments : GoTo(t)) \/ Refresh
    BY <2>4, StartReloadKeeps DEF GoTo, Refresh
  <2>5. CASE RunStatus \/ ToggleRegister \/ CheckIn
    BY <2>5, SendKeeps DEF RunStatus, ToggleRegister, CheckIn
  <2>6. CASE SubmitEdit
    BY <2>6, SendKeeps DEF SubmitEdit, FormInv, FormIsOfShown
  <2>7. CASE SubmitMatch
    BY <2>7, SendKeeps DEF SubmitMatch
  <2>8. CASE OpenEdit \/ OpenMatch \/ CloseDialogs
    BY <2>8, EndingKeeps DEF OpenEdit, OpenMatch, CloseDialogs, shown
  <2>9. CASE \E s \in sends : SendIsAnswered(s)
    BY <2>9, SendIsAnsweredKeeps
  <2>10. CASE \E s \in sends : SendReturns(s)
    BY <2>10, StartReloadKeeps DEF SendReturns
  <2>11. CASE \E s \in sends : SendFails(s)
    BY <2>11, EndingKeeps DEF SendFails, shown
  <2>12. CASE Elsewhere \/ UNCHANGED pageVars
    BY <2>12, EndingKeeps DEF Elsewhere, pageVars, shown
  <2>13. QED
    BY <2>1, <2>2, <2>3, <2>4, <2>5, <2>6, <2>7, <2>8, <2>9, <2>10, <2>11, <2>12
    DEF PageNext
<1>3. FormInv => FormGoesHome
  BY DEF FormInv
<1>4. QED
  BY <1>1, <1>2, <1>3, PTL DEF PageSpec

-----------------------------------------------------------------------------
(* What the tournament page shows.                                           *)

Statuses == {Order[i] : i \in DOMAIN Order}
Entries == {"none", "registered", "checked_in"}

\* The backend has a row for every tournament, and every action is about one.
RowsOK ==
  /\ page \in Tournaments
  /\ store \in [Tournaments -> [status : Statuses, entry : Entries, acts : Nat]]
  /\ \A l \in loads : {"of", "answer"} \subseteq DOMAIN l
  /\ \A s \in sends : /\ {"kind", "to", "target", "step"} \subseteq DOMAIN s
                      /\ s.target \in Tournaments
                      /\ s.kind = "status" => s.to \in Statuses
                      /\ s.kind = "entry" => s.to \in Entries

\* Unless loads have crossed there is one at most, and it is for this page.
OneLoad == ~crossed => \A l \in loads : l.of = page /\ \A k \in loads : k = l

\* It was loaded for this page and lacks nothing of what the user has done,
\* unless an action of which the response, and a load, are still to come.
Matches(d) ==
  /\ d.of = page
  /\ (\A s \in sends : s.step = "ok" => s.target # page) =>
       d.row.acts = store[page].acts /\ d.row.entry = store[page].entry

LoadMatches == ~crossed => \A l \in loads : l.answer # Nothing => Matches(l.answer)
DetailMatches == ~crossed /\ loads = {} /\ ~error => Matches(detail)

CurrentInv == RowsOK /\ OneLoad /\ LoadMatches /\ DetailMatches

LEMMA CurrentInvInit == ASSUME NEW n, NEW m, PageInit(n, m) PROVE CurrentInv
<1>1. store \in [Tournaments -> [status : Statuses, entry : Entries, acts : Nat]]
  <2>1. {"draft", "registration", "in_progress"} \subseteq Statuses
    BY DEF Statuses, Order
  <2>2. QED
    BY <2>1 DEF PageInit, Entries
<1>2. /\ page \in Tournaments /\ sends = {}
      /\ loads = {[id |-> 0, of |-> page, frees |-> FALSE, answer |-> Nothing]}
  BY DEF PageInit
<1>3. \A l \in loads : /\ {"of", "answer"} \subseteq DOMAIN l
                       /\ l.of = page /\ l.answer = Nothing
  BY <1>2
<1>4. QED
  BY <1>1, <1>2, <1>3 DEF CurrentInv, RowsOK, OneLoad, LoadMatches, DetailMatches

\* A reload that starts alone, and for the page, is the one load.
LEMMA StartReloadIsCurrent ==
  ASSUME CurrentInv, NEW id, NEW t, NEW frees, StartReload(id, t, frees),
         page' \in Tournaments, sends' \subseteq sends, UNCHANGED store
  PROVE  CurrentInv'
<1> DEFINE l == [id |-> id, of |-> t, frees |-> frees, answer |-> Nothing]
<1>1. {"of", "answer"} \subseteq DOMAIN l /\ l.answer = Nothing /\ l.of = t
  OBVIOUS
<1>2. loads' = loads \cup {l} /\ (~crossed' => loads = {} /\ t = page')
  BY DEF StartReload
<1> HIDE DEF l
<1>3. RowsOK'
  BY <1>1, <1>2 DEF CurrentInv, RowsOK
<1>4. OneLoad' /\ LoadMatches' /\ DetailMatches'
  BY <1>1, <1>2 DEF OneLoad, LoadMatches, DetailMatches
<1>5. QED
  BY <1>3, <1>4 DEF CurrentInv

\* The answer has all that the backend knows.
LEMMA LoadIsAnsweredIsCurrent ==
  ASSUME CurrentInv, NEW l \in loads, LoadIsAnswered(l)
  PROVE  CurrentInv'
<1> DEFINE k == [l EXCEPT !.answer = [of |-> l.of, row |-> store[l.of]]]
<1>1. /\ {"of", "answer"} \subseteq DOMAIN k /\ k.of = l.of
      /\ k.answer.of = l.of /\ k.answer.row = store[l.of]
  BY DEF CurrentInv, RowsOK
<1>2. /\ loads' = (loads \ {l}) \cup {k}
      /\ UNCHANGED <<store, page, detail, error, sends, crossed>>
  BY DEF LoadIsAnswered, shown
<1> HIDE DEF k
<1>3. RowsOK' /\ OneLoad' /\ DetailMatches'
  BY <1>1, <1>2 DEF CurrentInv, RowsOK, OneLoad, DetailMatches
<1>4. LoadMatches'
  <2>1. SUFFICES ASSUME ~crossed, NEW j \in loads' PROVE j.answer # Nothing => Matches(j.answer)'
    BY <1>2 DEF LoadMatches
  <2>2. j = k /\ l.of = page
    BY <1>2, <2>1 DEF CurrentInv, OneLoad
  <2>3. QED
    BY <1>1, <1>2, <2>2 DEF Matches
<1>5. QED
  BY <1>3, <1>4 DEF CurrentInv

LEMMA LoadArrivesIsCurrent ==
  ASSUME CurrentInv, NEW l \in loads, LoadArrives(l)
  PROVE  CurrentInv'
<1>1. /\ loads' = loads \ {l} /\ detail' = l.answer /\ l.answer # Nothing
      /\ UNCHANGED <<store, page, sends, crossed>>
  BY DEF LoadArrives, Loaded
<1>2. RowsOK' /\ OneLoad' /\ LoadMatches'
  BY <1>1 DEF CurrentInv, RowsOK, OneLoad, LoadMatches, Matches
<1>3. DetailMatches'
  BY <1>1 DEF CurrentInv, LoadMatches, DetailMatches, Matches
<1>4. QED
  BY <1>2, <1>3 DEF CurrentInv

\* A load that fails leaves an error, an action that is lost a doubt.
LEMMA LoadFailsIsCurrent ==
  ASSUME CurrentInv, NEW l \in loads, LoadFails(l)
  PROVE  CurrentInv'
<1>1. loads' = loads \ {l} /\ error' /\ UNCHANGED <<store, page, detail, sends, crossed>>
  BY DEF LoadFails, Loaded
<1>2. QED
  BY <1>1 DEF CurrentInv, RowsOK, OneLoad, LoadMatches, DetailMatches, Matches

LEMMA SendFailsIsCurrent ==
  ASSUME CurrentInv, NEW s \in sends, SendFails(s)
  PROVE  CurrentInv'
<1>1. /\ sends' = sends \ {s} /\ UNCHANGED <<store, page, detail, error, loads>>
      /\ s.step # "refused" => crossed'
      /\ s.step = "refused" => UNCHANGED crossed
  BY DEF SendFails, shown
<1>2. QED
  BY <1>1 DEF CurrentInv, RowsOK, OneLoad, LoadMatches, DetailMatches, Matches

\* What the user sends is not done yet.
LEMMA SendIsCurrent ==
  ASSUME CurrentInv, NEW kind, NEW to, NEW of, Send(kind, to, of),
         detail.of \in Tournaments, kind = "status" => to \in Statuses,
         kind = "entry" => to \in Entries
  PROVE  CurrentInv'
<1> DEFINE s == [id |-> clicks, kind |-> kind, to |-> to, target |-> detail.of,
                 of |-> of, page |-> page, step |-> "asked"]
<1>1. /\ {"kind", "to", "target", "step"} \subseteq DOMAIN s
      /\ s.kind = kind /\ s.to = to /\ s.target = detail.of /\ s.step # "ok"
  OBVIOUS
<1>2. sends' = sends \cup {s} /\ UNCHANGED <<store, page, detail, error, loads, crossed>>
  BY DEF Send, shown
<1> HIDE DEF s
<1>3. QED
  BY <1>1, <1>2 DEF CurrentInv, RowsOK, OneLoad, LoadMatches, DetailMatches, Matches

\* What the backend has accepted is a reason to wait for the load that follows.
LEMMA SendIsAnsweredIsCurrent ==
  ASSUME CurrentInv, NEW s \in sends, SendIsAnswered(s)
  PROVE  CurrentInv'
<1> DEFINE r == [s EXCEPT !.step = IF Accepts(s) THEN "ok" ELSE "refused"]
<1>1. /\ {"kind", "to", "target", "step"} \subseteq DOMAIN r
      /\ r.kind = s.kind /\ r.to = s.to /\ r.target = s.target
      /\ r.step = IF Accepts(s) THEN "ok" ELSE "refused"
  BY DEF CurrentInv, RowsOK
<1>2. /\ sends' = (sends \ {s}) \cup {r} /\ s.step = "asked"
      /\ UNCHANGED <<page, detail, error, loads, crossed>>
  BY DEF SendIsAnswered, shown
<1> HIDE DEF r
<1>3. store' \in [Tournaments -> [status : Statuses, entry : Entries, acts : Nat]]
  <2>1. Accepted(s) \in [status : Statuses, entry : Entries, acts : Nat]
    <3> DEFINE row == [store[s.target] EXCEPT !.acts = @ + 1]
    <3>1. /\ row \in [status : Statuses, entry : Entries, acts : Nat]
          /\ s.kind = "status" => s.to \in Statuses
          /\ s.kind = "entry" => s.to \in Entries
      BY DEF CurrentInv, RowsOK
    <3>2. Accepted(s) = CASE s.kind = "status" -> [row EXCEPT !.status = s.to]
                          [] s.kind = "entry" -> [row EXCEPT !.entry = s.to]
                          [] OTHER -> row
      BY DEF Accepted
    <3> HIDE DEF row
    <3>3. CASE s.kind = "status"
      BY <3>1, <3>2, <3>3
    <3>4. CASE s.kind = "entry"
      BY <3>1, <3>2, <3>4
    <3>5. CASE s.kind \notin {"status", "entry"}
      BY <3>1, <3>2, <3>5
    <3>6. QED
      BY <3>3, <3>4, <3>5
  <2>2. QED
    BY <2>1 DEF CurrentInv, RowsOK, SendIsAnswered
<1>4. ~(Accepts(s) /\ s.target = page) => store'[page] = store[page]
  BY DEF CurrentInv, RowsOK, SendIsAnswered
<1>5. RowsOK' /\ OneLoad'
  BY <1>1, <1>2, <1>3 DEF CurrentInv, RowsOK, OneLoad
<1>6. ASSUME NEW d, Matches(d)
      PROVE  Matches(d)'
  <2>1. SUFFICES ASSUME \A q \in sends' : q.step = "ok" => q.target # page
                 PROVE  d.row.acts = store'[page].acts /\ d.row.entry = store'[page].entry
    BY <1>2, <1>6 DEF Matches
  <2>2. ~(Accepts(s) /\ s.target = page)
    BY <1>1, <1>2, <2>1
  <2>3. \A q \in sends : q.step = "ok" => q.target # page
    BY <1>2, <2>1
  <2>4. QED
    BY <1>4, <1>6, <2>2, <2>3 DEF Matches
<1>7. LoadMatches' /\ DetailMatches'
  BY <1>2, <1>6 DEF CurrentInv, LoadMatches, DetailMatches
<1>8. QED
  BY <1>5, <1>7 DEF CurrentInv

\* Others change the status alone.
LEMMA ElsewhereIsCurrent == ASSUME CurrentInv, Elsewhere PROVE CurrentInv'
<1>1. /\ store' \in [Tournaments -> [status : Statuses, entry : Entries, acts : Nat]]
      /\ store'[page].acts = store[page].acts /\ store'[page].entry = store[page].entry
  BY DEF CurrentInv, RowsOK, Elsewhere, Statuses
<1>2. UNCHANGED <<page, detail, error, loads, sends, crossed>>
  BY DEF Elsewhere, shown
<1>3. QED
  BY <1>1, <1>2 DEF CurrentInv, RowsOK, OneLoad, LoadMatches, DetailMatches, Matches

LEMMA BesideIsCurrent ==
  ASSUME CurrentInv, UNCHANGED <<store, page, detail, error, loads, sends, crossed>>
  PROVE  CurrentInv'
  BY DEF CurrentInv, RowsOK, OneLoad, LoadMatches, DetailMatches, Matches

\* For any number of tournaments, of clicks and of failures: once nothing is on
\* its way, the page shows the tournament of its address with all that the user
\* has done to it, unless loads crossed each other or a change of the page.
THEOREM PagesAreCurrent ==
  ASSUME NEW CONSTANT n, NEW CONSTANT m
  PROVE  PageSpec(n, m) => []PageIsCurrent
<1>1. PageInit(n, m) => CurrentInv
  BY CurrentInvInit
<1>2. CurrentInv /\ [PageNext]_pageVars => CurrentInv'
  <2> SUFFICES ASSUME CurrentInv, [PageNext]_pageVars PROVE CurrentInv'
    OBVIOUS
  <2>0. page \in Tournaments
    BY DEF CurrentInv, RowsOK
  <2>1. CASE \E l \in loads : LoadIsAnswered(l)
    BY <2>1, LoadIsAnsweredIsCurrent
  <2>2. CASE \E l \in loads : LoadArrives(l)
    BY <2>2, LoadArrivesIsCurrent
  <2>3. CASE \E l \in loads : LoadFails(l)
    BY <2>3, LoadFailsIsCurrent
  <2>4. CASE (\E t \in Tournaments : GoTo(t)) \/ Refresh
    BY <2>0, <2>4, StartReloadIsCurrent DEF GoTo, Refresh
  <2>5. CASE RunStatus
    <3>1. PICK to \in Statuses : Send("status", to, detail.of)
      BY <2>5 DEF RunStatus, Statuses
    <3>2. detail.of \in Tournaments
      BY <2>5, TournamentPageAssumption DEF RunStatus, Shows
    <3>3. QED
      BY <3>1, <3>2, SendIsCurrent
  <2>6. CASE ToggleRegister \/ CheckIn
    <3>1. PICK to \in Entries : Send("entry", to, detail.of)
      BY <2>6 DEF ToggleRegister, CheckIn, Entries
    <3>2. detail.of \in Tournaments
      BY <2>6 DEF ToggleRegister, CheckIn, Shows
    <3>3. QED
      BY <3>1, <3>2, SendIsCurrent
  <2>7. CASE SubmitEdit \/ SubmitMatch
    <3>1. detail.of \in Tournaments
      BY <2>7 DEF SubmitEdit, SubmitMatch, Shows
    <3>2. QED
      BY <2>7, <3>1, SendIsCurrent DEF SubmitEdit, SubmitMatch
  <2>8. CASE OpenEdit \/ OpenMatch \/ CloseDialogs
    BY <2>8, BesideIsCurrent DEF OpenEdit, OpenMatch, CloseDialogs, shown
  <2>9. CASE \E s \in sends : SendIsAnswered(s)
    BY <2>9, SendIsAnsweredIsCurrent
  <2>10. CASE \E s \in sends : SendReturns(s)
    BY <2>0, <2>10, StartReloadIsCurrent DEF SendReturns
  <2>11. CASE \E s \in sends : SendFails(s)
    BY <2>11, SendFailsIsCurrent
  <2>12. CASE Elsewhere
    BY <2>12, ElsewhereIsCurrent
  <2>13. CASE UNCHANGED pageVars
    BY <2>13, BesideIsCurrent DEF pageVars, shown
  <2>14. QED
    BY <2>1, <2>2, <2>3, <2>4, <2>5, <2>6, <2>7, <2>8, <2>9, <2>10, <2>11, <2>12, <2>13
    DEF PageNext
<1>3. CurrentInv => PageIsCurrent
  BY DEF CurrentInv, DetailMatches, Matches, PageIsCurrent
<1>4. QED
  BY <1>1, <1>2, <1>3, PTL DEF PageSpec

-----------------------------------------------------------------------------
(* The list of members of the server settings.                               *)

FetchFields == {"id", "what", "step", "members", "ranks"}
ActFields == {"id", "kind", "user", "next", "choices", "step"}

MemberRecordsOK ==
  /\ \A f \in fetches : DOMAIN f = FetchFields
  /\ \A a \in acts : /\ DOMAIN a = ActFields /\ a.user \in Users
                     /\ a.kind \in {"kick", "assign"}
                     /\ a.step \in {"asked", "done", "refused"}

\* List m has of u what the backend has.
Agree(m, u) == (u \in DOMAIN m <=> u \in DOMAIN holds) /\ (u \in DOMAIN m => m[u] = holds[u])

\* The list is hidden while it is loaded, and whoever is being changed then is
\* in doubt.
HiddenIsQuiet == hidden => BeingChanged \subseteq unsure
OneFetch ==
  \A f \in fetches : f.what = "members" =>
    hidden /\ \A g \in fetches : g.what = "members" => g = f

\* The list that comes, and the rows that nobody changes, are true.
FetchAgrees ==
  \A f \in fetches : f.what = "members" /\ f.step = "answered" =>
    \A u \in Users \ unsure : Agree(f.members, u)
SeenAgrees == ~hidden => \A u \in Users \ (unsure \cup BeingChanged) : Agree(seen, u)

\* A change of a row that is not in doubt is the only one of its row, and is
\* what the backend has made of a row that was true.
Alone(a) == \A b \in acts : b.user = a.user => b = a
Explains(a) ==
  /\ a.kind = "assign" => a.next \subseteq a.choices
  /\ a.step # "refused"
  /\ a.step = "asked" => Agree(seen, a.user) /\ a.user \in DOMAIN seen
  /\ a.step = "done" =>
       IF a.kind = "kick" THEN a.user \notin DOMAIN holds
       ELSE /\ a.user \in DOMAIN holds /\ a.user \in DOMAIN seen
            /\ holds[a.user] = a.next
ActsExplain == ~hidden => \A a \in acts : a.user \notin unsure => Alone(a) /\ Explains(a)

RowsInv ==
  MemberRecordsOK /\ HiddenIsQuiet /\ OneFetch /\ FetchAgrees /\ SeenAgrees /\ ActsExplain

LEMMA RowsInvInit == ASSUME NEW n, NEW m, MembersInit(n, m) PROVE RowsInv
  BY DEF MembersInit, RowsInv, MemberRecordsOK, HiddenIsQuiet, OneFetch, FetchAgrees,
         SeenAgrees, ActsExplain, BeingChanged

\* A tab that loads the list leaves in doubt whoever is being changed.
LEMMA ShowTabKeeps ==
  ASSUME RowsInv, NEW t \in {"members", "roles", "other"}, ShowTab(t)
  PROVE  RowsInv'
<1>1. UNCHANGED <<holds, seen, acts>> /\ BeingChanged' = BeingChanged
  BY DEF ShowTab, BeingChanged
<1>2. ASSUME NEW f \in fetches'
      PROVE  DOMAIN f = FetchFields /\ f.step = "asked"
  BY DEF ShowTab, Cancelled, Fetch, FetchFields
<1>3. \A f, g \in fetches' : f.what = "members" /\ g.what = "members" => f = g
  BY DEF ShowTab, Cancelled, Fetch
<1>4. CASE t = "other"
  <2>1. fetches' = {} /\ UNCHANGED <<hidden, unsure>>
    BY <1>4 DEF ShowTab, Cancelled
  <2>2. QED
    BY <1>1, <2>1
    DEF RowsInv, MemberRecordsOK, HiddenIsQuiet, OneFetch, FetchAgrees, SeenAgrees,
        ActsExplain, Agree, Alone, Explains
<1>5. CASE t # "other"
  <2>1. hidden' /\ unsure' = BeingChanged
    BY <1>5 DEF ShowTab
  <2>2. QED
    BY <1>1, <1>2, <1>3, <2>1
    DEF RowsInv, MemberRecordsOK, HiddenIsQuiet, OneFetch, FetchAgrees, SeenAgrees, ActsExplain
<1>6. QED
  BY <1>4, <1>5

\* The lists.
LEMMA FetchIsAnsweredKeeps ==
  ASSUME RowsInv, NEW f \in fetches, FetchIsAnswered(f)
  PROVE  RowsInv'
<1> DEFINE g == [f EXCEPT !.step = "answered", !.members = holds, !.ranks = Ranks]
<1>1. /\ DOMAIN g = FetchFields /\ g.what = f.what /\ g.members = holds
  BY DEF RowsInv, MemberRecordsOK, FetchFields
<1>2. /\ fetches' = (fetches \ {f}) \cup {g}
      /\ UNCHANGED <<holds, seen, hidden, acts, unsure>> /\ BeingChanged' = BeingChanged
  BY DEF FetchIsAnswered, BeingChanged
<1> HIDE DEF g
<1>3. MemberRecordsOK' /\ HiddenIsQuiet' /\ OneFetch'
  BY <1>1, <1>2 DEF RowsInv, MemberRecordsOK, HiddenIsQuiet, OneFetch
<1>4. FetchAgrees' /\ SeenAgrees' /\ ActsExplain'
  BY <1>1, <1>2 DEF RowsInv, FetchAgrees, SeenAgrees, ActsExplain, Agree, Alone, Explains
<1>5. QED
  BY <1>3, <1>4 DEF RowsInv

LEMMA MembersArriveKeeps ==
  ASSUME RowsInv, NEW f \in fetches, MembersArrive(f)
  PROVE  RowsInv'
<1>1. /\ fetches' = fetches \ {f} /\ seen' = f.members /\ ~hidden'
      /\ f.step = "answered" /\ f.what = "members" /\ hidden
      /\ UNCHANGED <<holds, acts, unsure>> /\ BeingChanged' = BeingChanged
  BY DEF RowsInv, OneFetch, MembersArrive, BeingChanged
<1>2. MemberRecordsOK' /\ HiddenIsQuiet' /\ OneFetch' /\ FetchAgrees'
  BY <1>1 DEF RowsInv, MemberRecordsOK, HiddenIsQuiet, OneFetch, FetchAgrees, Agree
<1>3. SeenAgrees'
  BY <1>1 DEF RowsInv, FetchAgrees, SeenAgrees, Agree
<1>4. ActsExplain'
  BY <1>1 DEF RowsInv, HiddenIsQuiet, ActsExplain, BeingChanged
<1>5. QED
  BY <1>2, <1>3, <1>4 DEF RowsInv

LEMMA FetchFailsKeeps ==
  ASSUME RowsInv, NEW f \in fetches, FetchFails(f)
  PROVE  RowsInv'
<1>1. /\ fetches' = fetches \ {f} /\ UNCHANGED <<holds, seen, acts>>
      /\ BeingChanged' = BeingChanged
      /\ IF f.what = "members" THEN ~hidden' /\ unsure' = Users ELSE UNCHANGED <<hidden, unsure>>
  BY DEF FetchFails, BeingChanged
<1>2. MemberRecordsOK' /\ OneFetch'
  BY <1>1 DEF RowsInv, MemberRecordsOK, OneFetch
<1>3. CASE f.what = "members"
  <2>1. HiddenIsQuiet' /\ FetchAgrees' /\ SeenAgrees'
    BY <1>1, <1>3 DEF HiddenIsQuiet, FetchAgrees, SeenAgrees
  <2>2. ActsExplain'
    BY <1>1, <1>3 DEF RowsInv, MemberRecordsOK, ActsExplain
  <2>3. QED
    BY <1>2, <2>1, <2>2 DEF RowsInv
<1>4. CASE f.what # "members"
  BY <1>1, <1>2, <1>4
  DEF RowsInv, HiddenIsQuiet, FetchAgrees, SeenAgrees, ActsExplain, Agree, Alone, Explains
<1>5. QED
  BY <1>3, <1>4

\* The manager changes a row that is shown: one that is being changed already,
\* or whose roles are not all loaded, is in doubt.
LEMMA ActKeeps ==
  ASSUME RowsInv, NEW kind \in {"kick", "assign"}, NEW u \in Users, NEW next, Act(kind, u, next)
  PROVE  RowsInv'
<1> DEFINE a == [id |-> changes, kind |-> kind, user |-> u, next |-> next,
                 choices |-> choices, step |-> "asked"]
<1>1. /\ DOMAIN a = ActFields /\ a.kind = kind /\ a.user = u /\ a.next = next
      /\ a.choices = choices /\ a.step = "asked"
  BY DEF ActFields
<1>2. /\ acts' = acts \cup {a} /\ u \in DOMAIN seen /\ ~hidden
      /\ UNCHANGED <<holds, seen, hidden, fetches>>
      /\ unsure \subseteq unsure'
      /\ u \in BeingChanged => u \in unsure'
      /\ u \notin unsure' => next \subseteq choices
  BY DEF Act
<1> HIDE DEF a
<1>3. BeingChanged' = BeingChanged \cup {u}
  BY <1>1, <1>2 DEF BeingChanged
<1>4. MemberRecordsOK'
  BY <1>1, <1>2 DEF RowsInv, MemberRecordsOK
<1>5. HiddenIsQuiet' /\ OneFetch' /\ FetchAgrees' /\ SeenAgrees'
  BY <1>2, <1>3 DEF RowsInv, HiddenIsQuiet, OneFetch, FetchAgrees, SeenAgrees, Agree
<1>6. ActsExplain'
  <2>1. SUFFICES ASSUME NEW b \in acts', b.user \notin unsure'
                 PROVE  Alone(b)' /\ Explains(b)'
    BY DEF ActsExplain
  <2>2. CASE b.user = u
    <3>1. u \notin BeingChanged /\ u \notin unsure
      BY <1>2, <2>1, <2>2
    <3>2. b = a /\ \A c \in acts : c.user # u
      BY <1>2, <2>2, <3>1 DEF BeingChanged
    <3>3. Agree(seen, u)
      BY <1>2, <3>1 DEF RowsInv, SeenAgrees
    <3>4. QED
      BY <1>1, <1>2, <2>1, <3>2, <3>3 DEF Alone, Explains, Agree
  <2>3. CASE b.user # u
    <3>1. b \in acts /\ b.user \notin unsure
      BY <1>1, <1>2, <2>1, <2>3
    <3>2. Alone(b) /\ Explains(b)
      BY <1>2, <3>1 DEF RowsInv, ActsExplain
    <3>3. QED
      BY <1>1, <1>2, <2>3, <3>2 DEF Alone, Explains, Agree
  <2>4. QED
    BY <2>2, <2>3
<1>7. QED
  BY <1>4, <1>5, <1>6 DEF RowsInv

\* The backend makes of the row what was asked for, or refuses.
LEMMA ActIsAnsweredKeeps ==
  ASSUME RowsInv, NEW a \in acts, ActIsAnswered(a)
  PROVE  RowsInv'
<1> DEFINE member == a.user \in DOMAIN holds
           r == [a EXCEPT !.step = IF member THEN "done" ELSE "refused"]
<1>1. /\ DOMAIN r = ActFields /\ r.kind = a.kind /\ r.user = a.user /\ r.next = a.next
      /\ r.choices = a.choices /\ r.step = IF member THEN "done" ELSE "refused"
  BY DEF RowsInv, MemberRecordsOK, ActFields
<1>2. /\ acts' = (acts \ {a}) \cup {r} /\ a.step = "asked"
      /\ UNCHANGED <<seen, hidden, fetches, unsure>>
  BY DEF ActIsAnswered
<1>3. /\ a.kind \in {"kick", "assign"}
      /\ IF a.user \notin DOMAIN holds THEN UNCHANGED holds
         ELSE IF a.kind = "kick" THEN holds' = Restrict(holds, DOMAIN holds \ {a.user})
         ELSE holds' = [holds EXCEPT ![a.user] = a.next]
  BY DEF RowsInv, MemberRecordsOK, ActIsAnswered
<1>4. /\ \A u : u # a.user => /\ u \in DOMAIN holds' <=> u \in DOMAIN holds
                              /\ u \in DOMAIN holds => holds'[u] = holds[u]
      /\ a.user \in DOMAIN holds =>
           IF a.kind = "kick" THEN a.user \notin DOMAIN holds'
           ELSE a.user \in DOMAIN holds' /\ holds'[a.user] = a.next
  BY <1>3 DEF Restrict
<1> HIDE DEF r, member
<1>5. BeingChanged' = BeingChanged /\ a.user \in BeingChanged
  BY <1>1, <1>2 DEF BeingChanged
<1>6. MemberRecordsOK'
  BY <1>1, <1>2 DEF RowsInv, MemberRecordsOK
<1>7. HiddenIsQuiet' /\ OneFetch'
  BY <1>2, <1>5 DEF RowsInv, HiddenIsQuiet, OneFetch
<1>8. FetchAgrees'
  <2>1. SUFFICES ASSUME NEW f \in fetches, f.what = "members", f.step = "answered",
                        NEW u \in Users \ unsure
                 PROVE  Agree(f.members, u)'
    BY <1>2 DEF FetchAgrees
  <2>2. u # a.user /\ Agree(f.members, u)
    BY <1>5, <2>1 DEF RowsInv, OneFetch, HiddenIsQuiet, FetchAgrees
  <2>3. QED
    BY <1>2, <1>4, <2>2 DEF Agree
<1>9. SeenAgrees'
  <2>1. SUFFICES ASSUME ~hidden, NEW u \in Users \ (unsure \cup BeingChanged)
                 PROVE  Agree(seen, u)'
    BY <1>2, <1>5 DEF SeenAgrees
  <2>2. u # a.user /\ Agree(seen, u)
    BY <1>5, <2>1 DEF RowsInv, SeenAgrees
  <2>3. QED
    BY <1>2, <1>4, <2>2 DEF Agree
<1>10. ActsExplain'
  <2>1. SUFFICES ASSUME ~hidden, NEW b \in acts', b.user \notin unsure
                 PROVE  Alone(b)' /\ Explains(b)'
    BY <1>2 DEF ActsExplain
  <2>2. CASE b.user = a.user
    <3>1. Alone(a) /\ Explains(a)
      BY <2>1, <2>2 DEF RowsInv, ActsExplain
    <3>2. b = r /\ Alone(b)'
      BY <1>1, <1>2, <2>2, <3>1 DEF Alone
    <3>3. a.user \in DOMAIN holds /\ a.user \in DOMAIN seen
      BY <1>2, <3>1 DEF Explains, Agree
    <3>4. r.step = "done"
      BY <1>1, <3>3 DEF member
    <3>5. Explains(b)'
      BY <1>1, <1>2, <1>4, <3>1, <3>2, <3>3, <3>4 DEF Explains
    <3>6. QED
      BY <3>2, <3>5
  <2>3. CASE b.user # a.user
    <3>1. b \in acts
      BY <1>1, <1>2, <2>3
    <3>2. Alone(b) /\ Explains(b)
      BY <2>1, <3>1 DEF RowsInv, ActsExplain
    <3>3. Alone(b)'
      BY <1>1, <1>2, <2>3, <3>2 DEF Alone
    <3>4. Explains(b)'
      BY <1>2, <1>4, <2>3, <3>2 DEF Explains, Agree
    <3>5. QED
      BY <3>3, <3>4
  <2>4. QED
    BY <2>2, <2>3
<1>11. QED
  BY <1>6, <1>7, <1>8, <1>9, <1>10 DEF RowsInv

\* The row is put right when the change is done.
LEMMA ActIsOverKeeps ==
  ASSUME RowsInv, NEW a \in acts, acts' = acts \ {a}, UNCHANGED <<holds, hidden, fetches>>,
         unsure \subseteq unsure',
         \A u \in Users \ {a.user} : /\ u \in DOMAIN seen' <=> u \in DOMAIN seen
                                     /\ u \in DOMAIN seen => seen'[u] = seen[u],
         \/ a.user \in unsure'
         \/ /\ Explains(a) /\ ~hidden => Agree(seen, a.user)'
            /\ UNCHANGED unsure
  PROVE  RowsInv'
<1>1. BeingChanged' \subseteq BeingChanged /\ BeingChanged \subseteq BeingChanged' \cup {a.user}
  BY DEF BeingChanged
<1>2. MemberRecordsOK' /\ OneFetch'
  BY DEF RowsInv, MemberRecordsOK, OneFetch
<1>3. HiddenIsQuiet' /\ FetchAgrees'
  BY <1>1 DEF RowsInv, HiddenIsQuiet, FetchAgrees, Agree
<1>4. SeenAgrees'
  <2>1. SUFFICES ASSUME ~hidden, NEW u \in Users \ (unsure' \cup BeingChanged')
                 PROVE  Agree(seen, u)'
    BY DEF SeenAgrees
  <2>2. CASE u = a.user
    BY <2>1, <2>2 DEF RowsInv, ActsExplain
  <2>3. CASE u # a.user
    <3>1. Agree(seen, u)
      BY <1>1, <2>1, <2>3 DEF RowsInv, SeenAgrees
    <3>2. QED
      BY <2>3, <3>1 DEF Agree
  <2>4. QED
    BY <2>2, <2>3
<1>5. ActsExplain'
  <2>1. SUFFICES ASSUME ~hidden, NEW b \in acts', b.user \notin unsure'
                 PROVE  Alone(b)' /\ Explains(b)'
    BY DEF ActsExplain
  <2>2. b \in acts /\ b # a /\ b.user \in Users /\ Alone(b) /\ Explains(b)
    BY <2>1 DEF RowsInv, MemberRecordsOK, ActsExplain
  <2>3. b.user # a.user
    BY <2>2 DEF Alone
  <2>4. QED
    BY <2>2, <2>3 DEF Alone, Explains, Agree
<1>6. QED
  BY <1>2, <1>3, <1>4, <1>5 DEF RowsInv

LEMMA KickedKeeps ==
  ASSUME RowsInv, NEW a \in acts, Kicked(a)
  PROVE  RowsInv'
<1>1. /\ acts' = acts \ {a} /\ UNCHANGED <<holds, hidden, fetches, unsure>>
      /\ seen' = Restrict(seen, DOMAIN seen \ {a.user})
      /\ a.kind = "kick" /\ a.step = "done"
  BY DEF Kicked
<1>2. /\ \A u \in Users \ {a.user} : /\ u \in DOMAIN seen' <=> u \in DOMAIN seen
                                     /\ u \in DOMAIN seen => seen'[u] = seen[u]
      /\ a.user \notin DOMAIN seen'
  BY <1>1 DEF Restrict
<1>3. Explains(a) => Agree(seen, a.user)'
  BY <1>1, <1>2 DEF Explains, Agree
<1>4. QED
  BY <1>1, <1>2, <1>3, ActIsOverKeeps

LEMMA RoleAssignedKeeps ==
  ASSUME RowsInv, NEW a \in acts, RoleAssigned(a)
  PROVE  RowsInv'
<1>1. /\ acts' = acts \ {a} /\ UNCHANGED <<holds, hidden, fetches, unsure>>
      /\ a.kind = "assign" /\ a.step = "done"
  BY DEF RoleAssigned
<1>2. /\ DOMAIN seen' = DOMAIN seen
      /\ \A u \in DOMAIN seen : seen'[u] = IF u = a.user THEN a.choices \cap a.next ELSE seen[u]
  BY DEF RoleAssigned
<1>3. Explains(a) => Agree(seen, a.user)'
  <2>1. SUFFICES ASSUME Explains(a) PROVE Agree(seen, a.user)'
    OBVIOUS
  <2>2. /\ a.user \in DOMAIN holds /\ a.user \in DOMAIN seen
        /\ holds[a.user] = a.next /\ a.choices \cap a.next = a.next
    BY <1>1, <2>1 DEF Explains
  <2>3. QED
    BY <1>1, <1>2, <2>2 DEF Agree
<1>4. QED
  BY <1>1, <1>2, <1>3, ActIsOverKeeps

LEMMA ActFailsKeeps ==
  ASSUME RowsInv, NEW a \in acts, ActFails(a)
  PROVE  RowsInv'
<1>1. acts' = acts \ {a} /\ UNCHANGED <<holds, seen, hidden, fetches>>
  BY DEF ActFails
<1>2. CASE a.step = "refused"
  BY <1>1, <1>2, ActIsOverKeeps DEF ActFails, Explains
<1>3. CASE a.step # "refused"
  BY <1>1, <1>3, ActIsOverKeeps DEF ActFails
<1>4. QED
  BY <1>2, <1>3

\* Whom others change is in doubt.
LEMMA MemberChangesKeeps ==
  ASSUME RowsInv, NEW v \in Users, MemberChanges(v)
  PROVE  RowsInv'
<1>1. /\ unsure' = unsure \cup {v} /\ UNCHANGED <<seen, hidden, fetches, acts>>
      /\ BeingChanged' = BeingChanged
  BY DEF MemberChanges, BeingChanged
<1>2. \A u : u # v => /\ u \in DOMAIN holds' <=> u \in DOMAIN holds
                      /\ u \in DOMAIN holds => holds'[u] = holds[u]
  BY DEF MemberChanges, Restrict
<1>3. MemberRecordsOK' /\ HiddenIsQuiet' /\ OneFetch'
  BY <1>1 DEF RowsInv, MemberRecordsOK, HiddenIsQuiet, OneFetch
<1>4. FetchAgrees' /\ SeenAgrees'
  BY <1>1, <1>2 DEF RowsInv, FetchAgrees, SeenAgrees, Agree
<1>5. ActsExplain'
  <2>1. SUFFICES ASSUME ~hidden, NEW b \in acts, b.user \notin unsure, b.user # v
                 PROVE  Alone(b)' /\ Explains(b)'
    BY <1>1 DEF ActsExplain
  <2>2. Alone(b) /\ Explains(b)
    BY <2>1 DEF RowsInv, ActsExplain
  <2>3. QED
    BY <1>1, <1>2, <2>1, <2>2 DEF Alone, Explains, Agree
<1>6. QED
  BY <1>3, <1>4, <1>5 DEF RowsInv

\* For any number of members, roles and changes, in whatever order lists and
\* results arrive: the list that is drawn has the members and the roles of the
\* backend, but for the rows that are being changed or in doubt.
THEOREM MemberRowsAreCurrent ==
  ASSUME NEW CONSTANT n, NEW CONSTANT m
  PROVE  MembersSpec(n, m) => []RowsAreCurrent
<1>1. MembersInit(n, m) => RowsInv
  BY RowsInvInit
<1>2. RowsInv /\ [MembersNext]_memberVars => RowsInv'
  <2> SUFFICES ASSUME RowsInv, [MembersNext]_memberVars PROVE RowsInv'
    OBVIOUS
  <2>1. CASE \E t \in {"members", "roles", "other"} : ShowTab(t)
    BY <2>1, ShowTabKeeps
  <2>2. CASE \E f \in fetches : FetchIsAnswered(f)
    BY <2>2, FetchIsAnsweredKeeps
  <2>3. CASE \E f \in fetches : MembersArrive(f)
    BY <2>3, MembersArriveKeeps
  <2>4. CASE \/ \E f \in fetches : RanksArrive(f)
             \/ UNCHANGED memberVars
    <3>1. /\ fetches' \subseteq fetches /\ UNCHANGED <<holds, seen, hidden, acts, unsure>>
          /\ BeingChanged' = BeingChanged
      BY <2>4 DEF RanksArrive, memberVars, BeingChanged
    <3>2. QED
      BY <3>1
      DEF RowsInv, MemberRecordsOK, HiddenIsQuiet, OneFetch, FetchAgrees, SeenAgrees,
          ActsExplain, Agree, Alone, Explains
  <2>5. CASE \E f \in fetches : FetchFails(f)
    BY <2>5, FetchFailsKeeps
  <2>6. CASE \E u \in Users : Kick(u)
    BY <2>6, ActKeeps DEF Kick
  <2>7. CASE \E u \in Users, r \in Ranks : AssignRole(u, r)
    BY <2>7, ActKeeps DEF AssignRole
  <2>8. CASE \E a \in acts : ActIsAnswered(a)
    BY <2>8, ActIsAnsweredKeeps
  <2>9. CASE \E a \in acts : Kicked(a)
    BY <2>9, KickedKeeps
  <2>10. CASE \E a \in acts : RoleAssigned(a)
    BY <2>10, RoleAssignedKeeps
  <2>11. CASE \E a \in acts : ActFails(a)
    BY <2>11, ActFailsKeeps
  <2>12. CASE \E u \in Users : MemberChanges(u)
    BY <2>12, MemberChangesKeeps
  <2>13. QED
    BY <2>1, <2>2, <2>3, <2>4, <2>5, <2>6, <2>7, <2>8, <2>9, <2>10, <2>11, <2>12
    DEF MembersNext
<1>3. RowsInv => RowsAreCurrent
  BY DEF RowsInv, SeenAgrees, Agree, RowsAreCurrent
<1>4. QED
  BY <1>1, <1>2, <1>3, PTL DEF MembersSpec

-----------------------------------------------------------------------------
(* The form for tournaments.                                                 *)

Wizards == [open : BOOLEAN, step : 1 .. 3, text : BOOLEAN, team : BOOLEAN,
            size : BOOLEAN, max : BOOLEAN]

\* A step that was left is still acceptable, for it is edited in no other step.
StepsHold ==
  /\ wizard \in Wizards
  /\ wizard.step > 1 => wizard.text
  /\ wizard.step = 3 => wizard.max /\ (wizard.team => wizard.size)

ListFields == {"id", "guild", "what", "step", "items"}
PostFields == {"id", "guild", "ok", "step"}

FormRecordsOK ==
  /\ at.guild \in Guilds /\ DOMAIN made = Guilds /\ DOMAIN sidebar = Guilds
  /\ \A l \in lists : DOMAIN l = ListFields /\ l.guild \in Guilds /\ l.what \in {"sidebar", "board"}
  /\ \A p \in posts : /\ DOMAIN p = PostFields /\ p.guild \in Guilds
                      /\ p.ok /\ p.step \in {"asked", "made"}
                      /\ p.step = "made" => p.id \in made[p.guild]

\* A submission whose response has come is with the backend.
Returned(s) == \A p \in posts : <<p.guild, p.id>> # s
ReturnedAreMade ==
  \A s \in sent : s[1] \in Guilds /\ (Returned(s) => s[2] \in made[s[1]])

SidebarLoads(g) == {l \in lists : l.what = "sidebar" /\ l.guild = g}
BoardLoads == {l \in lists : l.what = "board"}

\* A list has it or is being loaded, and what comes has it.
Tells(items, loadsOfIt, id) ==
  /\ id \in items \/ loadsOfIt # {}
  /\ \A l \in loadsOfIt : l.step = "answered" => id \in l.items

SidebarTells ==
  \A s \in sent : Returned(s) /\ s[1] \notin doubled =>
    Tells(sidebar[s[1]], SidebarLoads(s[1]), s[2])
BoardTells ==
  \A s \in sent :
    Returned(s) /\ at = [guild |-> s[1], path |-> "list"] /\ "board" \notin doubled =>
      Tells(board, BoardLoads, s[2])

\* The list page loads the list of its own server, and nobody else does.
BoardLoadsAreHere ==
  \A l \in BoardLoads : at.path = "list" /\ ("board" \notin doubled => l.guild = at.guild)

ListedInv ==
  /\ StepsHold /\ FormRecordsOK /\ ReturnedAreMade
  /\ SidebarTells /\ BoardTells /\ BoardLoadsAreHere

LEMMA ListedInvInit == ASSUME NEW n, NEW m, FormInit(n, m) PROVE ListedInv
<1>1. StepsHold
  BY DEF FormInit, StepsHold, Wizards, Blanks
<1>2. FormRecordsOK
  BY DEF FormInit, FormRecordsOK
<1>3. ReturnedAreMade /\ SidebarTells /\ BoardTells /\ BoardLoadsAreHere
  BY DEF FormInit, ReturnedAreMade, SidebarTells, BoardTells, BoardLoadsAreHere, BoardLoads
<1>4. QED
  BY <1>1, <1>2, <1>3 DEF ListedInv

\* What is filled in, and the steps, concern the dialog alone.
LEMMA WizardMovesKeeps ==
  ASSUME ListedInv, StepsHold',
         UNCHANGED <<made, at, posts, sent, sidebar, board, lists, doubled>>
  PROVE  ListedInv'
<1>1. FormRecordsOK' /\ ReturnedAreMade'
  BY DEF ListedInv, FormRecordsOK, ReturnedAreMade, Returned
<1>2. SidebarTells' /\ BoardTells' /\ BoardLoadsAreHere'
  BY DEF ListedInv, SidebarTells, BoardTells, BoardLoadsAreHere, SidebarLoads, BoardLoads,
         Returned, Tells
<1>3. QED
  BY <1>1, <1>2 DEF ListedInv

LEMMA BlanksHold ==
  ASSUME wizard' \in {wizard, Blanks, [Blanks EXCEPT !.open = TRUE]}, StepsHold
  PROVE  StepsHold'
<1>1. CASE wizard' = wizard
  BY <1>1 DEF StepsHold
<1>2. CASE wizard' \in {Blanks, [Blanks EXCEPT !.open = TRUE]}
  <2>1. Blanks \in Wizards
    BY DEF Wizards, Blanks
  <2>2. wizard' \in Wizards
    BY <1>2, <2>1 DEF Wizards
  <2>3. wizard'.step = 1
    BY <1>2 DEF Blanks
  <2>4. QED
    BY <2>2, <2>3 DEF StepsHold
<1>3. QED
  BY <1>1, <1>2

LEMMA FillHolds ==
  ASSUME StepsHold, NEW step \in {1, 2}, NEW f, NEW ok \in BOOLEAN,
         step = 1 => f = "text", step = 2 => f \in {"team", "size", "max"},
         Fill(step, f, ok)
  PROVE  StepsHold'
<1>1. wizard.step = step /\ wizard' = [wizard EXCEPT ![f] = ok]
  BY DEF Fill
<1>2. CASE step = 1
  BY <1>1, <1>2 DEF StepsHold, Wizards
<1>3. CASE step = 2
  BY <1>1, <1>3 DEF StepsHold, Wizards
<1>4. QED
  BY <1>2, <1>3

LEMMA StepsHoldOn ==
  ASSUME StepsHold, NextStep \/ StepBack
  PROVE  StepsHold'
<1>1. CASE NextStep
  <2>1. wizard.step \in {1, 2} /\ wizard' = [wizard EXCEPT !.step = wizard.step + 1] /\ CanGoNext(wizard)
    BY <1>1 DEF NextStep, StepsHold, Wizards
  <2>2. CASE wizard.step = 1
    BY <2>1, <2>2 DEF StepsHold, Wizards, CanGoNext
  <2>3. CASE wizard.step = 2
    BY <2>1, <2>3 DEF StepsHold, Wizards, CanGoNext
  <2>4. QED
    BY <2>1, <2>2, <2>3
<1>2. CASE StepBack
  BY <1>2 DEF StepBack, StepsHold, Wizards
<1>3. QED
  BY <1>1, <1>2

\* Whoever goes somewhere loads the lists of where he goes; a list that is
\* loaded already counts as doubled.
LEMMA VisitKeeps ==
  ASSUME ListedInv, NEW g \in Guilds, NEW path \in {"list", "other"}, NEW ls, Visit(g, path, ls),
         \A l \in ls : /\ DOMAIN l = ListFields /\ l.guild = g /\ l.what = "sidebar"
                       /\ l.step = "asked",
         UNCHANGED <<made, sent, sidebar>>, posts' \subseteq posts,
         \A s \in sent : Returned(s)' =>
            \/ Returned(s)
            \/ path = "other" /\ s[1] = g /\ s[2] \in made[g] /\ ls # {},
         wizard' \in {wizard, Blanks}
  PROVE  ListedInv'
<1> DEFINE asks == ls \cup (IF g # at.guild THEN {Asked(g, "sidebar")} ELSE {})
                      \cup (IF path = "list" THEN {Asked(g, "board")} ELSE {})
           going == {l \in lists : l.what = "board" => path = "list"}
<1>1. /\ at' = [guild |-> g, path |-> path] /\ lists' = going \cup asks
      /\ doubled' = (doubled \ {ListOf(l) : l \in asks})
                      \cup ({ListOf(l) : l \in asks} \cap {ListOf(l) : l \in going})
      /\ board' = IF path = "list" /\ at.path = "list" THEN board ELSE {}
  BY DEF Visit
<1>2. \A l \in asks : /\ DOMAIN l = ListFields /\ l.guild = g /\ l.step = "asked"
                      /\ l.what \in {"sidebar", "board"}
                      /\ l.what = "board" => path = "list"
                      /\ ListOf(l) = IF l.what = "board" THEN "board" ELSE g
  BY DEF Asked, ListFields, ListOf
<1>3. path = "list" => \E l \in asks : l.what = "board"
  <2>1. Asked(g, "board").what = "board"
    BY DEF Asked
  <2>2. path = "list" => Asked(g, "board") \in asks
    OBVIOUS
  <2>3. QED
    BY <2>1, <2>2, Zenon
<1>4. ls \subseteq asks /\ going \subseteq lists
      /\ \A l \in lists : l.what # "board" \/ path = "list" => l \in going
  OBVIOUS
<1> HIDE DEF asks, going
<1>5. StepsHold'
  BY BlanksHold DEF ListedInv
<1>6. FormRecordsOK'
  BY <1>1, <1>2, <1>4 DEF ListedInv, FormRecordsOK
<1>7. ReturnedAreMade'
  BY DEF ListedInv, ReturnedAreMade
<1>8. SidebarTells'
  <2>1. SUFFICES ASSUME NEW s \in sent, Returned(s)', s[1] \notin doubled'
                 PROVE  Tells(sidebar[s[1]], SidebarLoads(s[1])', s[2])
    BY DEF SidebarTells
  <2>2. s[1] \in Guilds /\ s[1] # "board"
    BY <2>1, TournamentFormAssumption DEF ListedInv, ReturnedAreMade
  <2>3. CASE \E l \in asks : l.what = "sidebar" /\ l.guild = s[1]
    <3>1. g = s[1] /\ s[1] \in {ListOf(l) : l \in asks}
      BY <1>2, <2>3
    <3>2. \A l \in going : ListOf(l) # s[1]
      BY <1>1, <2>1, <3>1
    <3>3. \A l \in going : ~(l.what = "sidebar" /\ l.guild = s[1])
      BY <3>2 DEF ListOf
    <3>4. \A l \in SidebarLoads(s[1])' : l \in asks
      BY <1>1, <3>3 DEF SidebarLoads
    <3>5. SidebarLoads(s[1])' # {}
      BY <1>1, <2>3 DEF SidebarLoads
    <3>6. QED
      BY <1>2, <3>4, <3>5 DEF Tells
  <2>4. CASE \A l \in asks : ~(l.what = "sidebar" /\ l.guild = s[1])
    <3>1. Returned(s)
      BY <1>2, <1>4, <2>1, <2>4
    <3>2. s[1] \notin {ListOf(l) : l \in asks}
      BY <1>2, <2>2, <2>4
    <3>3. s[1] \notin doubled
      BY <1>1, <2>1, <3>2
    <3>4. SidebarLoads(s[1])' = SidebarLoads(s[1])
      BY <1>1, <1>4, <2>4 DEF SidebarLoads
    <3>5. QED
      BY <3>1, <3>3, <3>4 DEF ListedInv, SidebarTells
  <2>5. QED
    BY <2>3, <2>4
<1>9. path = "list" /\ "board" \notin doubled' => \A l \in BoardLoads' : l \in asks
  <2>1. SUFFICES ASSUME path = "list", "board" \notin doubled', NEW l \in going, l.what = "board"
                 PROVE  FALSE
    BY <1>1 DEF BoardLoads
  <2>2. ListOf(l) = "board" /\ "board" \in {ListOf(k) : k \in asks}
    BY <1>2, <1>3, <2>1 DEF ListOf
  <2>3. QED
    BY <1>1, <2>1, <2>2
<1>10. BoardTells'
  <2>1. SUFFICES ASSUME path = "list", "board" \notin doubled', NEW s
                 PROVE  Tells(board', BoardLoads', s[2])
    BY <1>1 DEF BoardTells
  <2>2. BoardLoads' # {}
    BY <1>1, <1>3, <2>1 DEF BoardLoads
  <2>3. QED
    BY <1>2, <1>9, <2>1, <2>2 DEF Tells
<1>11. BoardLoadsAreHere'
  <2>1. \A l \in BoardLoads' : path = "list"
    BY <1>1, <1>2 DEF BoardLoads, going
  <2>2. QED
    BY <1>1, <1>2, <1>9, <2>1 DEF BoardLoadsAreHere
<1>12. QED
  BY <1>5, <1>6, <1>7, <1>8, <1>10, <1>11 DEF ListedInv

LEMMA BrowseKeeps ==
  ASSUME ListedInv, NEW g \in Guilds, NEW path \in {"list", "other"}, Browse(g, path)
  PROVE  ListedInv'
<1>1. /\ Visit(g, path, {}) /\ UNCHANGED <<made, sent, sidebar, posts, wizard>>
  BY DEF Browse
<1>2. \A s \in sent : Returned(s)' => Returned(s)
  BY <1>1 DEF Returned
<1>3. QED
  BY <1>1, <1>2, VisitKeeps

LEMMA PostReturnsKeeps ==
  ASSUME ListedInv, NEW p \in posts, PostReturns(p)
  PROVE  ListedInv'
<1> DEFINE l == [Asked(p.guild, "sidebar") EXCEPT !.id = p.id]
<1>1. DOMAIN l = ListFields /\ l.guild = p.guild /\ l.what = "sidebar" /\ l.step = "asked"
  BY DEF Asked, ListFields
<1>2. /\ Visit(p.guild, "other", {l}) /\ UNCHANGED <<made, sent, sidebar>>
      /\ posts' = posts \ {p} /\ wizard' = Blanks
  BY DEF PostReturns
<1> HIDE DEF l
<1>3. p.guild \in Guilds /\ p.id \in made[p.guild]
  BY DEF PostReturns, ListedInv, FormRecordsOK
<1>4. ASSUME NEW s \in sent, Returned(s)', ~Returned(s)
      PROVE  s[1] = p.guild /\ s[2] = p.id
  <2>1. PICK q \in posts : <<q.guild, q.id>> = s
    BY <1>4 DEF Returned
  <2>2. q = p
    BY <1>2, <1>4, <2>1 DEF Returned
  <2>3. QED
    BY <2>1, <2>2
<1>5. QED
  BY <1>1, <1>2, <1>3, <1>4, VisitKeeps

\* The answer to a request for a list has what was made before it.
LEMMA ListIsAnsweredKeeps ==
  ASSUME ListedInv, NEW l \in lists, ListIsAnswered(l)
  PROVE  ListedInv'
<1> DEFINE k == [l EXCEPT !.step = "answered", !.items = made[l.guild]]
<1>1. /\ DOMAIN k = ListFields /\ k.guild = l.guild /\ k.what = l.what
      /\ k.items = made[l.guild]
  BY DEF ListedInv, FormRecordsOK, ListFields
<1>2. /\ lists' = (lists \ {l}) \cup {k}
      /\ UNCHANGED <<made, at, wizard, posts, sent, sidebar, board, doubled>>
  BY DEF ListIsAnswered
<1> HIDE DEF k
<1>3. StepsHold' /\ FormRecordsOK' /\ ReturnedAreMade'
  BY <1>1, <1>2
  DEF ListedInv, StepsHold, FormRecordsOK, ReturnedAreMade, Returned
<1>4. SidebarTells'
  <2>1. SUFFICES ASSUME NEW s \in sent, Returned(s), s[1] \notin doubled
                 PROVE  Tells(sidebar[s[1]], SidebarLoads(s[1])', s[2])
    BY <1>2 DEF SidebarTells, Returned
  <2>2. Tells(sidebar[s[1]], SidebarLoads(s[1]), s[2]) /\ s[2] \in made[s[1]]
    BY <2>1 DEF ListedInv, SidebarTells, ReturnedAreMade
  <2>3. /\ \A j \in SidebarLoads(s[1]) : j \in SidebarLoads(s[1])' \/ k \in SidebarLoads(s[1])'
        /\ \A j \in SidebarLoads(s[1])' : j \in SidebarLoads(s[1]) \/ (j = k /\ l.guild = s[1])
    <3>1. /\ \A j \in lists : j \in lists' \/ j = l
          /\ \A j \in lists' : j \in lists \/ j = k
          /\ k \in lists'
      BY <1>2
    <3>2. QED
      BY <1>1, <3>1 DEF SidebarLoads
  <2>4. QED
    BY <1>1, <2>2, <2>3 DEF Tells
<1>5. BoardLoadsAreHere'
  BY <1>1, <1>2 DEF ListedInv, BoardLoadsAreHere, BoardLoads
<1>6. BoardTells'
  <2>1. SUFFICES ASSUME NEW s \in sent, Returned(s), at = [guild |-> s[1], path |-> "list"],
                        "board" \notin doubled
                 PROVE  Tells(board, BoardLoads', s[2])
    BY <1>2 DEF BoardTells, Returned
  <2>2. Tells(board, BoardLoads, s[2]) /\ s[2] \in made[s[1]]
    BY <2>1 DEF ListedInv, BoardTells, ReturnedAreMade
  <2>3. at.guild = s[1]
    BY <2>1
  <2>4. /\ \A j \in BoardLoads : j \in BoardLoads' \/ k \in BoardLoads'
        /\ \A j \in BoardLoads' : j \in BoardLoads \/ (j = k /\ l.guild = s[1])
    <3>1. /\ \A j \in lists : j \in lists' \/ j = l
          /\ \A j \in lists' : j \in lists \/ j = k
          /\ k \in lists'
      BY <1>2
    <3>2. l.what = "board" => l.guild = s[1]
      BY <2>1, <2>3 DEF BoardLoads, ListedInv, BoardLoadsAreHere
    <3>3. QED
      BY <1>1, <3>1, <3>2 DEF BoardLoads
  <2>5. QED
    BY <1>1, <2>2, <2>4 DEF Tells
<1>7. QED
  BY <1>3, <1>4, <1>5, <1>6 DEF ListedInv

LEMMA SidebarArrivesKeeps ==
  ASSUME ListedInv, NEW l \in lists, SidebarArrives(l)
  PROVE  ListedInv'
<1>1. /\ lists' = lists \ {l} /\ l.what = "sidebar" /\ l.step = "answered"
      /\ sidebar' = [sidebar EXCEPT ![l.guild] = l.items]
      /\ UNCHANGED <<made, at, wizard, posts, sent, board, doubled>>
  BY DEF SidebarArrives
<1>2. StepsHold' /\ FormRecordsOK' /\ ReturnedAreMade'
  BY <1>1 DEF ListedInv, StepsHold, FormRecordsOK, ReturnedAreMade, Returned
<1>3. BoardLoads' = BoardLoads
  BY <1>1 DEF BoardLoads
<1>4. BoardTells' /\ BoardLoadsAreHere'
  BY <1>1, <1>3 DEF ListedInv, BoardTells, BoardLoadsAreHere, Returned
<1>5. SidebarTells'
  <2>1. SUFFICES ASSUME NEW s \in sent, Returned(s), s[1] \notin doubled
                 PROVE  Tells(sidebar'[s[1]], SidebarLoads(s[1])', s[2])
    BY <1>1 DEF SidebarTells, Returned
  <2>2. Tells(sidebar[s[1]], SidebarLoads(s[1]), s[2]) /\ s[1] \in Guilds
    BY <2>1 DEF ListedInv, SidebarTells, ReturnedAreMade
  <2>3. CASE s[1] = l.guild
    <3>1. l \in SidebarLoads(s[1])
      BY <1>1, <2>3 DEF SidebarLoads
    <3>2. s[2] \in l.items
      BY <1>1, <2>2, <3>1 DEF Tells
    <3>3. sidebar'[s[1]] = l.items
      BY <1>1, <2>2, <2>3 DEF ListedInv, FormRecordsOK
    <3>4. SidebarLoads(s[1])' \subseteq SidebarLoads(s[1])
      BY <1>1 DEF SidebarLoads
    <3>5. QED
      BY <2>2, <3>2, <3>3, <3>4 DEF Tells
  <2>4. CASE s[1] # l.guild
    <3>1. SidebarLoads(s[1])' = SidebarLoads(s[1])
      BY <1>1, <2>4 DEF SidebarLoads
    <3>2. sidebar'[s[1]] = sidebar[s[1]]
      BY <1>1, <2>2, <2>4 DEF ListedInv, FormRecordsOK
    <3>3. QED
      BY <2>2, <3>1, <3>2 DEF Tells
  <2>5. QED
    BY <2>3, <2>4
<1>6. QED
  BY <1>2, <1>4, <1>5 DEF ListedInv

LEMMA BoardArrivesKeeps ==
  ASSUME ListedInv, NEW l \in lists, BoardArrives(l)
  PROVE  ListedInv'
<1>1. /\ lists' = lists \ {l} /\ l.what = "board" /\ l.step = "answered" /\ board' = l.items
      /\ UNCHANGED <<made, at, wizard, posts, sent, sidebar, doubled>>
  BY DEF BoardArrives
<1>2. StepsHold' /\ FormRecordsOK' /\ ReturnedAreMade'
  BY <1>1 DEF ListedInv, StepsHold, FormRecordsOK, ReturnedAreMade, Returned
<1>3. \A g : SidebarLoads(g)' = SidebarLoads(g)
  BY <1>1 DEF SidebarLoads
<1>4. SidebarTells'
  BY <1>1, <1>3 DEF ListedInv, SidebarTells, Returned
<1>5. l \in BoardLoads /\ BoardLoads' \subseteq BoardLoads
  BY <1>1 DEF BoardLoads
<1>6. BoardTells' /\ BoardLoadsAreHere'
  BY <1>1, <1>5 DEF ListedInv, BoardTells, BoardLoadsAreHere, Returned, Tells
<1>7. QED
  BY <1>2, <1>4, <1>6 DEF ListedInv

\* The list that failed counts as doubled until it is loaded again.
LEMMA ListFailsKeeps ==
  ASSUME ListedInv, NEW l \in lists, ListFails(l)
  PROVE  ListedInv'
<1>1. /\ lists' = lists \ {l} /\ doubled' = doubled \cup {ListOf(l)}
      /\ sidebar' = IF l.what = "sidebar" THEN [sidebar EXCEPT ![l.guild] = {}] ELSE sidebar
      /\ UNCHANGED <<made, at, wizard, posts, sent, board>>
  BY DEF ListFails
<1>2. StepsHold' /\ FormRecordsOK' /\ ReturnedAreMade'
  BY <1>1 DEF ListedInv, StepsHold, FormRecordsOK, ReturnedAreMade, Returned
<1>3. SidebarTells'
  <2>1. SUFFICES ASSUME NEW s \in sent, Returned(s), s[1] \notin doubled'
                 PROVE  Tells(sidebar'[s[1]], SidebarLoads(s[1])', s[2])
    BY <1>1 DEF SidebarTells, Returned
  <2>2. Tells(sidebar[s[1]], SidebarLoads(s[1]), s[2]) /\ s[1] \in Guilds
    BY <1>1, <2>1 DEF ListedInv, SidebarTells, ReturnedAreMade
  <2>3. l.what = "sidebar" => l.guild # s[1]
    BY <1>1, <2>1 DEF ListOf
  <2>4. SidebarLoads(s[1])' = SidebarLoads(s[1])
    BY <1>1, <2>3 DEF SidebarLoads
  <2>5. sidebar'[s[1]] = sidebar[s[1]]
    BY <1>1, <2>2, <2>3 DEF ListedInv, FormRecordsOK
  <2>6. QED
    BY <2>2, <2>4, <2>5 DEF Tells
<1>4. BoardTells' /\ BoardLoadsAreHere'
  <2>1. CASE l.what = "board"
    <3>1. "board" \in doubled' /\ BoardLoads' \subseteq BoardLoads
      BY <1>1, <2>1 DEF ListOf, BoardLoads
    <3>2. QED
      BY <1>1, <3>1 DEF ListedInv, BoardTells, BoardLoadsAreHere
  <2>2. CASE l.what # "board"
    <3>1. BoardLoads' = BoardLoads
      BY <1>1, <2>2 DEF BoardLoads
    <3>2. QED
      BY <1>1, <3>1 DEF ListedInv, BoardTells, BoardLoadsAreHere, Returned
  <2>3. QED
    BY <2>1, <2>2
<1>5. QED
  BY <1>2, <1>3, <1>4 DEF ListedInv

\* A submission is acceptable, because each of its steps was and is.
LEMMA SubmitKeeps == ASSUME ListedInv, Submit PROVE ListedInv'
<1> DEFINE p == [id |-> turns, guild |-> at.guild, ok |-> Acceptable(wizard), step |-> "asked"]
           e == <<at.guild, turns>>
<1>0. Acceptable(wizard) /\ at.guild \in Guilds
  BY DEF Acceptable, Submit, ListedInv, StepsHold, FormRecordsOK
<1>1. /\ DOMAIN p = PostFields /\ p.ok = Acceptable(wizard) /\ p.step = "asked"
      /\ p.guild = at.guild /\ <<p.guild, p.id>> = e /\ e[1] = at.guild
  BY DEF PostFields
<1>2. /\ posts' = posts \cup {p} /\ sent' = sent \cup {e}
      /\ UNCHANGED <<made, at, wizard, sidebar, board, lists, doubled>>
  BY DEF Submit
<1> HIDE DEF p, e
<1>3. StepsHold' /\ FormRecordsOK'
  BY <1>0, <1>1, <1>2 DEF ListedInv, StepsHold, FormRecordsOK
<1>4. \A s \in sent' : Returned(s)' => s \in sent /\ Returned(s)
  BY <1>1, <1>2 DEF Returned
<1>5. ReturnedAreMade'
  BY <1>0, <1>1, <1>2, <1>4 DEF ListedInv, ReturnedAreMade
<1>6. SidebarTells' /\ BoardTells' /\ BoardLoadsAreHere'
  BY <1>2, <1>4
  DEF ListedInv, SidebarTells, BoardTells, BoardLoadsAreHere, SidebarLoads, BoardLoads
<1>7. QED
  BY <1>3, <1>5, <1>6 DEF ListedInv

LEMMA PostIsAnsweredKeeps ==
  ASSUME ListedInv, NEW p \in posts, PostIsAnswered(p)
  PROVE  ListedInv'
<1> DEFINE q == [p EXCEPT !.step = IF p.ok THEN "made" ELSE "refused"]
<1>1. /\ DOMAIN q = PostFields /\ q.ok /\ q.step = "made"
      /\ q.guild = p.guild /\ q.id = p.id /\ p.guild \in Guilds /\ p.ok
  BY DEF ListedInv, FormRecordsOK, PostFields
<1>2. /\ posts' = (posts \ {p}) \cup {q} /\ made' = [made EXCEPT ![p.guild] = @ \cup {p.id}]
      /\ UNCHANGED <<at, wizard, sent, sidebar, board, lists, doubled>>
  BY <1>1 DEF PostIsAnswered
<1> HIDE DEF q
<1>3. /\ DOMAIN made' = Guilds /\ p.id \in made'[p.guild]
      /\ \A g \in Guilds : made[g] \subseteq made'[g]
  BY <1>1, <1>2 DEF ListedInv, FormRecordsOK
<1>4. StepsHold' /\ FormRecordsOK'
  BY <1>1, <1>2, <1>3 DEF ListedInv, StepsHold, FormRecordsOK
<1>5. \A s : Returned(s)' => Returned(s)
  BY <1>1, <1>2 DEF Returned
<1>6. ReturnedAreMade'
  BY <1>2, <1>3, <1>5 DEF ListedInv, ReturnedAreMade
<1>7. SidebarTells' /\ BoardTells' /\ BoardLoadsAreHere'
  BY <1>2, <1>5
  DEF ListedInv, SidebarTells, BoardTells, BoardLoadsAreHere, SidebarLoads, BoardLoads
<1>8. QED
  BY <1>4, <1>6, <1>7 DEF ListedInv

\* The backend refuses none, so that what fails was lost.
LEMMA PostFailsKeeps ==
  ASSUME ListedInv, NEW p \in posts, PostFails(p)
  PROVE  ListedInv'
<1>1. /\ posts' = posts \ {p} /\ sent' = sent \ {<<p.guild, p.id>>}
      /\ UNCHANGED <<made, at, wizard, sidebar, board, lists, doubled>>
  BY DEF PostFails, ListedInv, FormRecordsOK
<1>2. StepsHold' /\ FormRecordsOK'
  BY <1>1 DEF ListedInv, StepsHold, FormRecordsOK
<1>3. \A s \in sent' : s \in sent /\ (Returned(s)' => Returned(s))
  BY <1>1 DEF Returned
<1>4. ReturnedAreMade'
  BY <1>1, <1>3 DEF ListedInv, ReturnedAreMade
<1>5. SidebarTells' /\ BoardTells' /\ BoardLoadsAreHere'
  BY <1>1, <1>3
  DEF ListedInv, SidebarTells, BoardTells, BoardLoadsAreHere, SidebarLoads, BoardLoads
<1>6. QED
  BY <1>2, <1>4, <1>5 DEF ListedInv

\* For any number of servers, submissions and visits: the backend refuses no
\* submission although each step is checked once, and at rest the tournament
\* is in the lists of its server, unless the network lost it or a list was
\* asked for twice at a time.
THEOREM EverySubmissionIsListed ==
  ASSUME NEW CONSTANT n, NEW CONSTANT m
  PROVE  FormSpec(n, m) => []SubmissionsAreListed
<1>1. FormInit(n, m) => ListedInv
  BY ListedInvInit
<1>2. ListedInv /\ [FormNext]_formVars => ListedInv'
  <2> SUFFICES ASSUME ListedInv, [FormNext]_formVars PROVE ListedInv'
    OBVIOUS
  <2>0. StepsHold
    BY DEF ListedInv
  <2>1. CASE \E g \in Guilds, path \in {"list", "other"} : Browse(g, path)
    BY <2>1, BrowseKeeps
  <2>2. CASE \E l \in lists : ListIsAnswered(l)
    BY <2>2, ListIsAnsweredKeeps
  <2>3. CASE \E l \in lists : SidebarArrives(l)
    BY <2>3, SidebarArrivesKeeps
  <2>4. CASE \E l \in lists : BoardArrives(l)
    BY <2>4, BoardArrivesKeeps
  <2>5. CASE \E l \in lists : ListFails(l)
    BY <2>5, ListFailsKeeps
  <2>6. CASE OpenWizard \/ CloseWizard
    BY <2>0, <2>6, BlanksHold, WizardMovesKeeps DEF OpenWizard, CloseWizard
  <2>7. CASE \/ \E ok \in BOOLEAN : FillText(ok)
             \/ \E team \in BOOLEAN : PickType(team)
             \/ \E ok \in BOOLEAN : FillTeamSize(ok)
             \/ \E ok \in BOOLEAN : FillMax(ok)
    <3>1. PICK step \in {1, 2}, f \in {"text", "team", "size", "max"}, ok \in BOOLEAN :
            /\ Fill(step, f, ok)
            /\ step = 1 => f = "text"
            /\ step = 2 => f \in {"team", "size", "max"}
      BY <2>7 DEF FillText, PickType, FillTeamSize, FillMax
    <3>2. StepsHold'
      BY <2>0, <3>1, FillHolds
    <3>3. QED
      BY <3>1, <3>2, WizardMovesKeeps DEF Fill
  <2>8. CASE NextStep \/ StepBack
    BY <2>0, <2>8, StepsHoldOn, WizardMovesKeeps DEF NextStep, StepBack
  <2>9. CASE Submit
    BY <2>9, SubmitKeeps
  <2>10. CASE \E p \in posts : PostIsAnswered(p)
    BY <2>10, PostIsAnsweredKeeps
  <2>11. CASE \E p \in posts : PostReturns(p)
    BY <2>11, PostReturnsKeeps
  <2>12. CASE \E p \in posts : PostFails(p)
    BY <2>12, PostFailsKeeps
  <2>13. CASE UNCHANGED formVars
    BY <2>0, <2>13, BlanksHold, WizardMovesKeeps DEF formVars
  <2>14. QED
    BY <2>1, <2>2, <2>3, <2>4, <2>5, <2>6, <2>7, <2>8, <2>9, <2>10, <2>11, <2>12, <2>13
    DEF FormNext
<1>3. ListedInv => SubmissionsAreListed
  BY DEF ListedInv, SidebarTells, BoardTells, SidebarLoads, BoardLoads, Tells, Returned,
         SubmissionsAreListed
<1>4. QED
  BY <1>1, <1>2, <1>3, PTL DEF FormSpec

-----------------------------------------------------------------------------
(* The server settings.  A value that somebody else writes is new: it is   *)
(* below all that are there.                                               *)

Values == {v \in Int : v >= 0 \/ v < -troubles}
Forms == [Fields -> Values]

BackendHolds ==
  /\ edits \in Nat /\ troubles \in Nat
  /\ alive \subseteq Roles /\ minted \in BOOLEAN
  /\ rows \in [Sheets -> Forms]

FormsHold ==
  /\ server \in Forms /\ typed \in Forms /\ initial = server /\ draft \in Forms
  /\ editing \in Roles \cup {"none"}
  /\ DOMAIN roles \subseteq Roles /\ \A q \in DOMAIN roles : roles[q] \in Forms
  /\ DOMAIN edited = {"profile", "role"}
  /\ load.step = "answered" =>
       DOMAIN load.roles \subseteq Roles /\ \A q \in DOMAIN load.roles : load.roles[q] \in Forms

RequestFields == {"id", "kind", "sheet", "body", "touched", "stray", "step", "row"}
RequestKinds == {"save", "refresh", "upload", "create", "delete"}

RequestHolds(r) ==
  /\ DOMAIN r = RequestFields
  /\ r.id \in Nat /\ r.row \in Forms /\ r.sheet \in Sheets
  /\ \A f \in DOMAIN r.body : r.body[f] \in Values
  /\ r.kind \in RequestKinds /\ r.step \in {"asked", "done", "refused"}
  /\ r.kind = "refresh" => r.sheet = "profile"
  /\ r.kind = "create" => r.sheet = NewRole
  /\ r.kind = "delete" => r.sheet \in Roles

RequestsHold == \A r \in reqs : RequestHolds(r)

\* Nobody can show, load or delete the new role before it is created, and
\* that happens once.
NewRoleIsNew ==
  /\ ~minted => /\ NewRole \notin alive \cup DOMAIN roles \cup {editing}
                /\ load.step = "answered" => NewRole \notin DOMAIN load.roles
  /\ \A r \in reqs :
       /\ r.kind = "create" => (r.step = "done" <=> minted) /\ r.step # "refused"
       /\ r.kind = "delete" => /\ r.sheet = NewRole => minted
                               /\ r.step = "done" => r.sheet \notin alive
  /\ \A r, q \in reqs : r.kind = "create" /\ q.kind = "create" => r = q

\* What is alive and shown is in the answer to come and in the list there is,
\* but for a role that was created during the load.
ListsAgree ==
  /\ load.step = "answered" /\ "load" \notin overtaken =>
       \A q \in alive : q \in DOMAIN roles \/ q = editing => q \in DOMAIN load.roles
  /\ editing \in alive => editing \in DOMAIN roles \/ "list" \in overtaken

\* Where a form differs from what it was filled from, the user edited it, and
\* so it is with what is being saved.
ChangesAreEdits ==
  /\ \A f \in Fields : typed[f] # initial[f] => f \in edited.profile
  /\ editing \in DOMAIN roles =>
       \A f \in Fields : draft[f] # roles[editing][f] =>
         f \in edited.role \/ (f = "icon" /\ strayed)
  /\ \A r \in reqs : r.kind = "save" /\ r.step = "asked" =>
       \A f \in DOMAIN r.body : f \in r.touched \/ (f = "icon" /\ r.stray)

ProfileRequests == {r \in reqs : r.kind \in {"save", "refresh"} /\ r.sheet = "profile"}

\* A save of the profile changes it, and nobody writes back the old values
\* before the profile is loaded again: what comes is never what was there.
SaveIsSeen ==
  /\ \A r, q \in ProfileRequests : r = q
  /\ \A r \in ProfileRequests :
       /\ r.step = "asked" /\ r.kind = "save" =>
            \E f \in DOMAIN r.body : f \in Fields /\ r.body[f] # server[f]
       /\ (r.step = "done" /\ r.kind = "save") \/ (r.step = "asked" /\ r.kind = "refresh") =>
            rows["profile"] # server
       /\ r.step = "done" /\ r.kind = "refresh" => r.row # server
       /\ r.step # "refused"

SettingsInv ==
  /\ BackendHolds /\ FormsHold /\ RequestsHold
  /\ NewRoleIsNew /\ ListsAgree /\ ChangesAreEdits /\ SaveIsSeen

LEMMA SheetsAre == "profile" \in Sheets /\ "profile" \notin Roles /\ "none" \notin Roles
                   /\ NewRole \in Roles /\ Roles \subseteq Sheets /\ Sheets \ {"profile"} = Roles
BY SettingsAssumption DEF Sheets

LEMMA BlankIsAForm ==
  ASSUME troubles \in Nat
  PROVE  Blank \in Forms
BY DEF Blank, Forms, Values

LEMMA FormsRemain ==
  ASSUME troubles \in Nat, troubles' \in Nat, troubles' <= troubles
  PROVE  /\ Values \subseteq Values' /\ Forms \subseteq Forms'
         /\ \A r : RequestHolds(r) => RequestHolds(r)'
<1>1. Values \subseteq Values'
  BY DEF Values
<1>2. Forms \subseteq Forms'
  BY <1>1 DEF Forms
<1>3. QED
  BY <1>1, <1>2 DEF RequestHolds

LEMMA FormsStay ==
  ASSUME UNCHANGED troubles
  PROVE  Values' = Values /\ Forms' = Forms /\ \A r : RequestHolds(r)' <=> RequestHolds(r)
BY DEF Values, Forms, RequestHolds

LEMMA SettingsInvInit ==
  ASSUME NEW n \in Nat, NEW m \in Nat, SettingsInit(n, m)
  PROVE  SettingsInv
<1>1. Blank \in Forms
  BY BlankIsAForm DEF SettingsInit
<1>2. DOMAIN roles = {}
  BY DEF SettingsInit
<1>3. BackendHolds
  BY <1>1 DEF SettingsInit, BackendHolds
<1>4. FormsHold /\ RequestsHold
  BY <1>1, <1>2 DEF SettingsInit, FormsHold, RequestsHold, Idle
<1>5. NewRoleIsNew /\ ListsAgree
  BY <1>2, SheetsAre DEF SettingsInit, NewRoleIsNew, ListsAgree, Idle
<1>6. ChangesAreEdits /\ SaveIsSeen
  BY <1>2 DEF SettingsInit, ChangesAreEdits, SaveIsSeen, ProfileRequests
<1>7. QED
  BY <1>3, <1>4, <1>5, <1>6 DEF SettingsInv

\* What a request is when it is made.
LEMMA RequestsAreMade ==
  ASSUME BackendHolds, NEW k \in RequestKinds, NEW s \in Sheets, NEW b, NEW t,
         \A f \in DOMAIN b : b[f] \in Values,
         k # "refresh", k = "create" => s = NewRole, k = "delete" => s \in Roles
  PROVE  LET q == Request(k, s, b, t)
         IN  /\ RequestHolds(q) /\ q.id = edits /\ q.kind = k /\ q.sheet = s /\ q.body = b
             /\ q.touched = t /\ q.stray = (strayed /\ s # "profile") /\ q.step = "asked"
<1> DEFINE q == Request(k, s, b, t)
<1>1. /\ DOMAIN q = RequestFields /\ q.id = edits /\ q.kind = k /\ q.sheet = s /\ q.body = b
      /\ q.touched = t /\ q.step = "asked" /\ q.row = Blank
  BY DEF Request, RequestFields
<1>2. q.stray = (strayed /\ s # "profile")
  BY Zenon DEF Request
<1>3. Blank \in Forms
  BY BlankIsAForm DEF BackendHolds
<1> HIDE DEF q
<1>4. RequestHolds(q)
  BY <1>1, <1>3 DEF RequestHolds, BackendHolds
<1>5. QED
  BY <1>1, <1>2, <1>4 DEF q

\* A request is made.
LEMMA AskingKeeps ==
  ASSUME SettingsInv, NEW q, reqs' = reqs \cup {q}, RequestHolds(q), q.step = "asked",
         q.kind # "refresh", edits' \in Nat,
         q.kind = "create" => ~minted /\ ~Busy({"create"}),
         q.kind = "delete" /\ q.sheet = NewRole => minted,
         q.kind = "save" =>
           \A f \in DOMAIN q.body : f \in q.touched \/ (f = "icon" /\ q.stray),
         q.kind = "save" /\ q.sheet = "profile" =>
           ~Saving({"profile"}) /\ \E f \in DOMAIN q.body : f \in Fields /\ q.body[f] # server[f],
         UNCHANGED <<backend, profile, editor, load, edited, overtaken, troubles>>
  PROVE  SettingsInv'
<1> USE DEF backend, profile, editor
<1>1. BackendHolds' /\ FormsHold'
  BY FormsStay DEF SettingsInv, BackendHolds, FormsHold
<1>2. RequestsHold'
  BY FormsStay DEF SettingsInv, RequestsHold
<1>3. NewRoleIsNew'
  BY DEF SettingsInv, NewRoleIsNew, Busy
<1>4. ListsAgree' /\ ChangesAreEdits'
  BY DEF SettingsInv, ListsAgree, ChangesAreEdits
<1>5. SaveIsSeen'
  BY DEF SettingsInv, SaveIsSeen, ProfileRequests, Saving
<1>6. QED
  BY <1>1, <1>2, <1>3, <1>4, <1>5 DEF SettingsInv

\* A request fails.
LEMMA FailingKeeps ==
  ASSUME SettingsInv, NEW r \in reqs, Fails(r)
  PROVE  SettingsInv'
<1> USE DEF backend, profile, editor
<1>1. /\ reqs' = reqs \ {r} /\ troubles' \in Nat /\ troubles' <= troubles
      /\ UNCHANGED <<backend, profile, editor, load, edited, overtaken, edits>>
  BY DEF Fails, Trouble, SettingsInv, BackendHolds
<1>2. Forms \subseteq Forms' /\ \A q : RequestHolds(q) => RequestHolds(q)'
  BY <1>1, FormsRemain DEF SettingsInv, BackendHolds
<1>3. BackendHolds'
  BY <1>1, <1>2 DEF SettingsInv, BackendHolds
<1>4. FormsHold' /\ RequestsHold'
  BY <1>1, <1>2 DEF SettingsInv, FormsHold, RequestsHold
<1>5. NewRoleIsNew' /\ ListsAgree' /\ ChangesAreEdits' /\ SaveIsSeen'
  BY <1>1
  DEF SettingsInv, NewRoleIsNew, ListsAgree, ChangesAreEdits, SaveIsSeen, ProfileRequests
<1>6. QED
  BY <1>3, <1>4, <1>5 DEF SettingsInv

LEMMA OtherManagersKeep == ASSUME SettingsInv, OtherManagers PROVE SettingsInv'
<1> USE DEF profile, editor
<1>1. /\ troubles > 0 /\ troubles' = troubles - 1 /\ troubles' \in Nat
      /\ UNCHANGED <<minted, profile, editor, load, reqs, edited, overtaken, edits>>
      /\ alive' \subseteq alive
  BY DEF OtherManagers, Trouble, SettingsInv, BackendHolds
<1>2. Forms \subseteq Forms' /\ \A q : RequestHolds(q) => RequestHolds(q)'
  BY <1>1, FormsRemain DEF SettingsInv, BackendHolds
<1>3. rows' \in [Sheets -> Forms'] /\ (rows["profile"] # server => rows'["profile"] # server)
  <2>1. CASE UNCHANGED rows
    BY <1>2, <2>1 DEF SettingsInv, BackendHolds
  <2>2. CASE \E s \in alive \cup {"profile"}, f \in Fields : rows' = [rows EXCEPT ![s][f] = -troubles]
    <3>1. PICK s \in alive \cup {"profile"}, f \in Fields : rows' = [rows EXCEPT ![s][f] = -troubles]
      BY <2>2
    <3>2. -troubles \in Values' /\ -troubles \notin Values
      BY <1>1 DEF Values, SettingsInv, BackendHolds
    <3>3. s \in Sheets
      BY DEF Sheets, SettingsInv, BackendHolds
    <3>4. rows'[s] = [rows[s] EXCEPT ![f] = -troubles] /\ rows[s] \in Forms
      BY <3>1, <3>3 DEF SettingsInv, BackendHolds
    <3>5. rows'[s] \in Forms'
      BY <1>2, <3>2, <3>4 DEF Forms
    <3>6. \A t \in Sheets : t # s => rows'[t] = rows[t]
      BY <3>1 DEF SettingsInv, BackendHolds
    <3>7. rows' \in [Sheets -> Forms']
      BY <1>2, <3>1, <3>5, <3>6 DEF SettingsInv, BackendHolds
    <3>8. s = "profile" => rows'["profile"] # server
      <4>1. rows'[s][f] = -troubles
        BY <3>4 DEF Forms
      <4>2. server[f] \in Values
        BY DEF SettingsInv, FormsHold, Forms
      <4>3. QED
        BY <3>2, <4>1, <4>2
    <3>9. QED
      BY <3>6, <3>7, <3>8, SheetsAre
  <2>3. QED
    BY <2>1, <2>2 DEF OtherManagers
<1>4. BackendHolds'
  BY <1>1, <1>3 DEF SettingsInv, BackendHolds
<1>5. FormsHold' /\ RequestsHold'
  BY <1>1, <1>2 DEF SettingsInv, FormsHold, RequestsHold
<1>6. NewRoleIsNew' /\ ListsAgree' /\ ChangesAreEdits'
  BY <1>1 DEF SettingsInv, NewRoleIsNew, ListsAgree, ChangesAreEdits
<1>7. SaveIsSeen'
  BY <1>1, <1>3 DEF SettingsInv, SaveIsSeen, ProfileRequests
<1>8. QED
  BY <1>4, <1>5, <1>6, <1>7 DEF SettingsInv

LEMMA AnsweringKeeps ==
  ASSUME SettingsInv, NEW r \in reqs, Answer(r)
  PROVE  SettingsInv'
<1> DEFINE q == [r EXCEPT !.step = IF Refused(r) THEN "refused" ELSE "done", !.row = rows'[r.sheet]]
<1> USE DEF profile, editor
<1>0. RequestHolds(r) /\ r.step = "asked"
  BY DEF Answer, SettingsInv, RequestsHold
<1>1. /\ DOMAIN q = RequestFields /\ q.id = r.id /\ q.kind = r.kind /\ q.sheet = r.sheet
      /\ q.body = r.body /\ q.touched = r.touched /\ q.stray = r.stray
      /\ q.row = rows'[r.sheet] /\ q.step = IF Refused(r) THEN "refused" ELSE "done"
  BY <1>0 DEF RequestHolds, RequestFields
<1>2. /\ reqs' = (reqs \ {r}) \cup {q} /\ rows' = Stored(r)
      /\ alive' = CASE r.kind = "create" -> alive \cup {r.sheet}
                    [] r.kind = "delete" -> alive \ {r.sheet}
                    [] OTHER -> alive
      /\ minted' = (minted \/ r.kind = "create")
      /\ UNCHANGED <<tab, profile, editor, load, edited, overtaken, edits, troubles>>
  BY DEF Answer
<1> HIDE DEF q
<1>3. /\ Forms' = Forms /\ \A s : RequestHolds(s)' <=> RequestHolds(s)
  BY <1>2, FormsStay
<1>4. rows' \in [Sheets -> Forms]
  <2>1. CASE r.kind = "save" /\ (r.sheet = "profile" \/ r.sheet \in alive)
    <3> DEFINE row == [f \in Fields |-> IF f \in DOMAIN r.body THEN r.body[f] ELSE rows[r.sheet][f]]
    <3>1. rows' = [rows EXCEPT ![r.sheet] = row]
      BY <1>2, <2>1 DEF Stored
    <3>2. rows[r.sheet] \in Forms
      BY <1>0 DEF SettingsInv, BackendHolds, RequestHolds
    <3>3. row \in Forms
      BY <1>0, <3>2 DEF Forms, RequestHolds
    <3> HIDE DEF row
    <3>4. QED
      BY <3>1, <3>3 DEF SettingsInv, BackendHolds
  <2>2. CASE ~(r.kind = "save" /\ (r.sheet = "profile" \/ r.sheet \in alive))
    BY <1>2, <2>2 DEF Stored, SettingsInv, BackendHolds
  <2>3. QED
    BY <2>1, <2>2
<1>5. BackendHolds'
  BY <1>0, <1>2, <1>3, <1>4, SheetsAre DEF SettingsInv, BackendHolds, RequestHolds
<1>6. FormsHold'
  BY <1>2, <1>3 DEF SettingsInv, FormsHold
<1>7. RequestsHold'
  <2>1. q.row \in Forms
    BY <1>0, <1>1, <1>4 DEF RequestHolds
  <2>2. RequestHolds(q)
    BY <1>0, <1>1, <2>1 DEF RequestHolds
  <2>3. QED
    BY <1>2, <1>3, <2>2 DEF SettingsInv, RequestsHold
<1>8. NewRoleIsNew'
  <2>1. r.kind = "create" => r.sheet = NewRole /\ ~minted
    BY <1>0 DEF SettingsInv, NewRoleIsNew, RequestHolds
  <2>2. r.kind \in {"create", "delete"} => q.step = "done"
    BY <1>1 DEF Refused
  <2>3. \A s \in alive' : s \in alive \/ (s = NewRole /\ minted' /\ ~minted)
    BY <1>2, <2>1
  <2>4. ~minted' => ~minted /\ alive' \subseteq alive
    BY <1>2
  <2>5. r.kind = "delete" => r.sheet \notin alive'
    BY <1>2
  <2>6. ~minted' => /\ NewRole \notin alive' \cup DOMAIN roles' \cup {editing'}
                    /\ load'.step = "answered" => NewRole \notin DOMAIN load'.roles
    BY <1>2, <2>4 DEF SettingsInv, NewRoleIsNew
  <2>7. ASSUME NEW p \in reqs'
        PROVE  /\ p.kind = "create" => (p.step = "done" <=> minted') /\ p.step # "refused"
               /\ p.kind = "delete" => /\ p.sheet = NewRole => minted'
                                       /\ p.step = "done" => p.sheet \notin alive'
    <3>1. CASE p = q
      <4>1. p.kind = "create" => p.step = "done" /\ minted'
        BY <1>1, <1>2, <2>2, <3>1
      <4>2. p.kind = "delete" => /\ p.sheet = NewRole => minted'
                                 /\ p.sheet \notin alive'
        BY <1>1, <1>2, <2>5, <3>1 DEF SettingsInv, NewRoleIsNew
      <4>3. QED
        BY <4>1, <4>2
    <3>2. CASE p \in reqs \ {r}
      <4>1. p.kind = "create" => minted' = minted
        BY <1>2, <3>2 DEF SettingsInv, NewRoleIsNew, BackendHolds
      <4>2. p.kind = "delete" /\ p.step = "done" => p.sheet \notin alive'
        BY <2>3, <3>2 DEF SettingsInv, NewRoleIsNew
      <4>3. p.kind = "delete" /\ p.sheet = NewRole => minted'
        BY <1>2, <3>2 DEF SettingsInv, NewRoleIsNew
      <4>4. QED
        BY <3>2, <4>1, <4>2, <4>3 DEF SettingsInv, NewRoleIsNew
    <3>3. QED
      BY <1>2, <3>1, <3>2
  <2>8. \A p, s \in reqs' : p.kind = "create" /\ s.kind = "create" => p = s
    BY <1>1, <1>2 DEF SettingsInv, NewRoleIsNew
  <2>9. QED
    BY <2>6, <2>7, <2>8 DEF NewRoleIsNew
<1>9. ListsAgree'
  <2>1. \A s \in alive' : s \in alive \/ (s = NewRole /\ ~minted)
    BY <1>0, <1>2 DEF SettingsInv, NewRoleIsNew, RequestHolds
  <2>2. QED
    BY <1>2, <2>1 DEF SettingsInv, ListsAgree, NewRoleIsNew
<1>10. ChangesAreEdits'
  BY <1>1, <1>2 DEF SettingsInv, ChangesAreEdits
<1>11. SaveIsSeen'
  <2>1. r \notin ProfileRequests => rows'["profile"] = rows["profile"]
    BY <1>2, SheetsAre DEF Stored, ProfileRequests, SettingsInv, BackendHolds
  <2>2. CASE r \notin ProfileRequests
    <3>1. ProfileRequests' = ProfileRequests
      BY <1>1, <1>2, <2>2 DEF ProfileRequests
    <3>2. QED
      BY <1>2, <2>1, <2>2, <3>1 DEF SettingsInv, SaveIsSeen
  <2>3. CASE r \in ProfileRequests
    <3>1. ProfileRequests' = {q}
      BY <1>1, <1>2, <2>3 DEF ProfileRequests, SettingsInv, SaveIsSeen
    <3>2. q.step = "done" /\ q.row = rows'["profile"]
      BY <1>1, <2>3 DEF ProfileRequests, Refused
    <3>3. r.kind = "save" => rows'["profile"] # server
      <4> SUFFICES ASSUME r.kind = "save" PROVE rows'["profile"] # server
        OBVIOUS
      <4>1. PICK f \in DOMAIN r.body : f \in Fields /\ r.body[f] # server[f]
        BY <1>0, <2>3 DEF SettingsInv, SaveIsSeen
      <4>2. rows'["profile"][f] = r.body[f]
        BY <1>2, <2>3, <4>1, SheetsAre DEF Stored, ProfileRequests, SettingsInv, BackendHolds
      <4>3. QED
        BY <4>1, <4>2
    <3>4. r.kind = "refresh" => rows'["profile"] # server
      BY <1>0, <1>2, <2>3 DEF Stored, SettingsInv, SaveIsSeen
    <3>5. QED
      BY <1>1, <1>2, <2>3, <3>1, <3>2, <3>3, <3>4 DEF SaveIsSeen, ProfileRequests
  <2>4. QED
    BY <2>2, <2>3
<1>12. QED
  BY <1>5, <1>6, <1>7, <1>8, <1>9, <1>10, <1>11 DEF SettingsInv

\* The profile.
LEMMA EditProfileKeeps ==
  ASSUME SettingsInv, NEW f \in Fields, EditProfile(f)
  PROVE  SettingsInv'
<1> USE DEF backend, editor
<1>0. edits \in Nat /\ edits' \in Nat
  BY DEF EditProfile, Edit, SettingsInv, BackendHolds
<1>1. CASE f = "icon"
  <2> DEFINE q == Request("upload", "profile", << >>, {})
  <2>1. RequestHolds(q) /\ q.kind = "upload" /\ q.step = "asked"
    BY RequestsAreMade, SheetsAre DEF SettingsInv, RequestKinds
  <2>2. reqs' = reqs \cup {q}
        /\ UNCHANGED <<backend, profile, editor, load, edited, overtaken, troubles>>
    BY <1>1 DEF EditProfile, profile
  <2> HIDE DEF q
  <2>3. QED
    BY <1>0, <2>1, <2>2, AskingKeeps
<1>2. CASE f # "icon"
  <2>1. /\ typed' = [typed EXCEPT ![f] = edits]
        /\ edited' = [edited EXCEPT !.profile = @ \cup {f}]
        /\ UNCHANGED <<backend, server, initial, editor, load, reqs, overtaken, troubles>>
    BY <1>2 DEF EditProfile
  <2>2. /\ typed' \in Forms /\ \A g \in Fields : g # f => typed'[g] = typed[g]
        /\ DOMAIN edited' = {"profile", "role"} /\ edited'.role = edited.role
        /\ edited'.profile = edited.profile \cup {f}
    BY <1>0, <2>1 DEF SettingsInv, FormsHold, Forms, Values
  <2>3. BackendHolds' /\ FormsHold'
    BY <1>0, <2>1, <2>2, FormsStay DEF SettingsInv, BackendHolds, FormsHold
  <2>4. RequestsHold'
    BY <2>1, FormsStay DEF SettingsInv, RequestsHold
  <2>5. NewRoleIsNew' /\ ListsAgree' /\ SaveIsSeen'
    BY <2>1 DEF SettingsInv, NewRoleIsNew, ListsAgree, SaveIsSeen, ProfileRequests
  <2>6. ChangesAreEdits'
    BY <2>1, <2>2 DEF SettingsInv, ChangesAreEdits
  <2>7. QED
    BY <2>3, <2>4, <2>5, <2>6 DEF SettingsInv
<1>3. QED
  BY <1>1, <1>2

LEMMA ResetProfileKeeps == ASSUME SettingsInv, ResetProfile PROVE SettingsInv'
<1> USE DEF backend, editor
<1>1. /\ typed' = initial
      /\ UNCHANGED <<backend, server, initial, editor, load, reqs, overtaken, edits, troubles>>
      /\ DOMAIN edited' = {"profile", "role"} /\ edited'.role = edited.role
  BY DEF ResetProfile, SettingsInv, FormsHold
<1>2. BackendHolds' /\ FormsHold'
  BY <1>1, FormsStay DEF SettingsInv, BackendHolds, FormsHold
<1>3. RequestsHold'
  BY <1>1, FormsStay DEF SettingsInv, RequestsHold
<1>4. NewRoleIsNew' /\ ListsAgree' /\ ChangesAreEdits' /\ SaveIsSeen'
  BY <1>1
  DEF SettingsInv, NewRoleIsNew, ListsAgree, ChangesAreEdits, SaveIsSeen, ProfileRequests
<1>5. QED
  BY <1>2, <1>3, <1>4 DEF SettingsInv

LEMMA SaveProfileKeeps == ASSUME SettingsInv, SaveProfile PROVE SettingsInv'
<1> DEFINE b == Restrict(typed, Changes(typed, initial))
           q == Request("save", "profile", b, edited.profile)
<1>0. /\ reqs' = reqs \cup {q} /\ edits' \in Nat /\ ~Saving({"profile"}) /\ typed # initial
      /\ UNCHANGED <<backend, profile, editor, load, edited, overtaken, troubles>>
  BY DEF SaveProfile, Edit, SettingsInv, BackendHolds
<1>1. /\ typed \in Forms /\ initial \in Forms
      /\ DOMAIN b = {f \in Fields : typed[f] # initial[f]} /\ \A f \in DOMAIN b : b[f] = typed[f]
  BY DEF Restrict, Changes, SettingsInv, FormsHold, Forms
<1> HIDE DEF b
<1>2. \A f \in DOMAIN b : b[f] \in Values
  BY <1>1 DEF Forms
<1>3. /\ RequestHolds(q) /\ q.kind = "save" /\ q.sheet = "profile" /\ q.step = "asked"
      /\ q.body = b /\ q.touched = edited.profile
  BY <1>2, RequestsAreMade, SheetsAre DEF SettingsInv, RequestKinds
<1> HIDE DEF q
<1>4. \A f \in DOMAIN b : f \in edited.profile
  BY <1>1 DEF SettingsInv, ChangesAreEdits
<1>5. \E f \in DOMAIN b : f \in Fields /\ b[f] # server[f]
  <2>1. PICK f \in Fields : typed[f] # initial[f]
    BY <1>0, <1>1 DEF Forms
  <2>2. QED
    BY <1>1, <2>1 DEF SettingsInv, FormsHold
<1>6. QED
  BY <1>0, <1>3, <1>4, <1>5, AskingKeeps

LEMMA ProfileUploadedKeeps ==
  ASSUME SettingsInv, NEW r \in reqs, ProfileUploaded(r)
  PROVE  SettingsInv'
<1> USE DEF backend, editor
<1>1. /\ reqs' = reqs \ {r} /\ typed' = [typed EXCEPT !["icon"] = r.id]
      /\ edited' = [edited EXCEPT !["profile"] = @ \cup {"icon"}]
      /\ UNCHANGED <<backend, tab, server, initial, editor, load, overtaken, edits, troubles>>
  BY DEF ProfileUploaded
<1>2. r.id \in Values
  BY DEF SettingsInv, RequestsHold, RequestHolds, Values
<1>3. /\ typed' \in Forms /\ \A g \in Fields : g # "icon" => typed'[g] = typed[g]
      /\ DOMAIN edited' = {"profile", "role"} /\ edited'.role = edited.role
      /\ edited'.profile = edited.profile \cup {"icon"}
  BY <1>1, <1>2 DEF SettingsInv, FormsHold, Forms
<1>4. BackendHolds' /\ FormsHold'
  BY <1>1, <1>3, FormsStay DEF SettingsInv, BackendHolds, FormsHold
<1>5. RequestsHold'
  BY <1>1, FormsStay DEF SettingsInv, RequestsHold
<1>6. NewRoleIsNew' /\ ListsAgree' /\ SaveIsSeen'
  BY <1>1 DEF SettingsInv, NewRoleIsNew, ListsAgree, SaveIsSeen, ProfileRequests
<1>7. ChangesAreEdits'
  BY <1>1, <1>3 DEF SettingsInv, ChangesAreEdits
<1>8. QED
  BY <1>4, <1>5, <1>6, <1>7 DEF SettingsInv

LEMMA ProfileSavedKeeps ==
  ASSUME SettingsInv, NEW r \in reqs, ProfileSaved(r)
  PROVE  SettingsInv'
<1> DEFINE q == [r EXCEPT !.kind = "refresh", !.step = "asked"]
<1> USE DEF backend, profile, editor
<1>0. RequestHolds(r)
  BY DEF SettingsInv, RequestsHold
<1>1. /\ DOMAIN q = RequestFields /\ q.id = r.id /\ q.kind = "refresh" /\ q.sheet = r.sheet
      /\ q.body = r.body /\ q.row = r.row /\ q.step = "asked"
  BY <1>0 DEF RequestHolds, RequestFields
<1>2. /\ reqs' = (reqs \ {r}) \cup {q}
      /\ r.kind = "save" /\ r.sheet = "profile" /\ r.step = "done"
      /\ UNCHANGED <<backend, tab, profile, editor, load, edited, overtaken, edits, troubles>>
  BY DEF ProfileSaved
<1> HIDE DEF q
<1>3. RequestHolds(q)
  BY <1>0, <1>1, <1>2 DEF RequestHolds, RequestKinds
<1>4. BackendHolds' /\ FormsHold'
  BY <1>2, FormsStay DEF SettingsInv, BackendHolds, FormsHold
<1>5. RequestsHold'
  BY <1>2, <1>3, FormsStay DEF SettingsInv, RequestsHold
<1>6. NewRoleIsNew' /\ ListsAgree' /\ ChangesAreEdits'
  BY <1>1, <1>2 DEF SettingsInv, NewRoleIsNew, ListsAgree, ChangesAreEdits
<1>7. SaveIsSeen'
  <2>1. ProfileRequests' = {q} /\ r \in ProfileRequests
    BY <1>1, <1>2 DEF ProfileRequests, SettingsInv, SaveIsSeen
  <2>2. rows["profile"] # server
    BY <1>2, <2>1 DEF SettingsInv, SaveIsSeen
  <2>3. QED
    BY <1>1, <1>2, <2>1, <2>2 DEF SaveIsSeen
<1>8. QED
  BY <1>4, <1>5, <1>6, <1>7 DEF SettingsInv

\* What comes is new, so that the form is filled from it.
LEMMA ProfileRefreshedKeeps ==
  ASSUME SettingsInv, NEW r \in reqs, ProfileRefreshed(r)
  PROVE  SettingsInv'
<1> USE DEF backend, editor
<1>0. RequestHolds(r) /\ r \in ProfileRequests /\ r.row # server
  BY DEF ProfileRefreshed, SettingsInv, RequestsHold, RequestHolds, ProfileRequests, SaveIsSeen
<1>1. /\ reqs' = reqs \ {r} /\ server' = r.row /\ typed' = r.row /\ initial' = r.row
      /\ edited' = [edited EXCEPT !["profile"] = {}]
      /\ UNCHANGED <<backend, tab, editor, load, overtaken, edits, troubles>>
  BY <1>0 DEF ProfileRefreshed
<1>2. DOMAIN edited' = {"profile", "role"} /\ edited'.role = edited.role
  BY <1>1 DEF SettingsInv, FormsHold
<1>3. BackendHolds' /\ FormsHold'
  BY <1>0, <1>1, <1>2, FormsStay DEF SettingsInv, BackendHolds, FormsHold, RequestHolds
<1>4. RequestsHold'
  BY <1>1, FormsStay DEF SettingsInv, RequestsHold
<1>5. NewRoleIsNew' /\ ListsAgree' /\ ChangesAreEdits'
  BY <1>1, <1>2 DEF SettingsInv, NewRoleIsNew, ListsAgree, ChangesAreEdits
<1>6. ProfileRequests' = {}
  BY <1>0, <1>1 DEF ProfileRequests, SettingsInv, SaveIsSeen
<1>7. SaveIsSeen'
  BY <1>6 DEF SaveIsSeen
<1>8. QED
  BY <1>3, <1>4, <1>5, <1>7 DEF SettingsInv

\* The requests for the roles.
LEMMA LoadMovesKeep ==
  ASSUME SettingsInv, edits' \in Nat, troubles' \in Nat, troubles' <= troubles,
         UNCHANGED <<backend, profile, editor, reqs, edited>>,
         \/ load'.step # "answered"
         \/ UNCHANGED <<overtaken, troubles>> /\ load'.step = "answered"
            /\ load'.roles = Restrict(rows, alive),
         overtaken' \in {overtaken, overtaken \ {"load"}}
  PROVE  SettingsInv'
<1> USE DEF backend, profile, editor
<1>1. Forms \subseteq Forms' /\ \A q : RequestHolds(q) => RequestHolds(q)'
  BY FormsRemain DEF SettingsInv, BackendHolds
<1>2. BackendHolds'
  BY <1>1 DEF SettingsInv, BackendHolds
<1>3. load'.step = "answered" =>
        /\ DOMAIN load'.roles = alive /\ \A q \in alive : load'.roles[q] \in Forms'
  BY <1>1, SheetsAre DEF Restrict, SettingsInv, BackendHolds
<1>4. FormsHold'
  BY <1>1, <1>3 DEF SettingsInv, FormsHold, BackendHolds
<1>5. RequestsHold'
  BY <1>1 DEF SettingsInv, RequestsHold
<1>6. NewRoleIsNew'
  BY <1>3 DEF SettingsInv, NewRoleIsNew
<1>7. ListsAgree'
  <2>1. "list" \in overtaken' <=> "list" \in overtaken
    OBVIOUS
  <2>2. QED
    BY <1>3, <2>1 DEF SettingsInv, ListsAgree
<1>8. ChangesAreEdits' /\ SaveIsSeen'
  BY DEF SettingsInv, ChangesAreEdits, SaveIsSeen, ProfileRequests
<1>9. QED
  BY <1>2, <1>4, <1>5, <1>6, <1>7, <1>8 DEF SettingsInv

LEMMA OpenTabKeeps ==
  ASSUME SettingsInv, NEW t \in {"profile", "roles"}, OpenTab(t)
  PROVE  SettingsInv'
<1>1. /\ edits' \in Nat /\ overtaken' = overtaken \ {"load"}
      /\ UNCHANGED <<backend, profile, editor, reqs, edited, troubles>>
      /\ load' = IF t = "roles" THEN [Idle EXCEPT !.step = "asked"] ELSE Idle
  BY DEF OpenTab, Edit, SettingsInv, BackendHolds
<1>2. load'.step # "answered" /\ troubles' \in Nat /\ troubles' <= troubles
  BY <1>1 DEF Idle, SettingsInv, BackendHolds
<1>3. QED
  BY <1>1, <1>2, LoadMovesKeep

LEMMA RolesAreAnsweredKeeps == ASSUME SettingsInv, RolesAreAnswered PROVE SettingsInv'
<1>1. /\ load'.step = "answered" /\ load'.roles = Restrict(rows, alive)
      /\ UNCHANGED <<backend, profile, editor, reqs, edited, overtaken, edits, troubles>>
  BY DEF RolesAreAnswered
<1>2. edits' \in Nat /\ troubles' \in Nat /\ troubles' <= troubles
  BY <1>1 DEF SettingsInv, BackendHolds
<1>3. QED
  BY <1>1, <1>2, LoadMovesKeep

LEMMA RolesFailKeeps == ASSUME SettingsInv, RolesFail PROVE SettingsInv'
<1>1. /\ load' = Idle /\ overtaken' = overtaken \ {"load"}
      /\ UNCHANGED <<backend, profile, editor, reqs, edited, edits>>
      /\ edits' \in Nat /\ troubles' \in Nat /\ troubles' <= troubles
  BY DEF RolesFail, Trouble, SettingsInv, BackendHolds
<1>2. load'.step # "answered"
  BY <1>1 DEF Idle
<1>3. QED
  BY <1>1, <1>2, LoadMovesKeep

\* The editor shows what is right to show.
LEMMA ShowingKeeps ==
  ASSUME SettingsInv, NEW R, NEW r, NEW anew \in BOOLEAN, Show(R, r, anew),
         DOMAIN R \subseteq Roles, \A q \in DOMAIN R : R[q] \in Forms,
         r \in Roles \cup {"none"},
         ~anew => r = editing /\ (r \in DOMAIN R => r \in DOMAIN roles /\ R[r] = roles[r]),
         ~minted => NewRole \notin DOMAIN R \cup {r},
         load' = load \/ load'.step = "none",
         load'.step = "answered" /\ "load" \notin overtaken' =>
           \A q \in alive : q \in DOMAIN R \/ q = r => q \in DOMAIN load'.roles,
         r \in alive => r \in DOMAIN R \/ "list" \in overtaken',
         reqs' \subseteq reqs,
         UNCHANGED <<backend, profile, edits, troubles>>
  PROVE  SettingsInv'
<1> USE DEF backend, profile
<1>1. roles' = R /\ editing' = r
  BY DEF Show
<1>2. draft' \in Forms
  BY BlankIsAForm DEF Show, SettingsInv, FormsHold, BackendHolds
<1>3. DOMAIN edited' = {"profile", "role"} /\ edited'.profile = edited.profile
  BY DEF Show, SettingsInv, FormsHold
<1>4. BackendHolds'
  BY FormsStay DEF SettingsInv, BackendHolds
<1>5. FormsHold'
  BY <1>1, <1>2, <1>3, FormsStay DEF SettingsInv, FormsHold
<1>6. RequestsHold'
  BY FormsStay DEF SettingsInv, RequestsHold
<1>7. NewRoleIsNew' /\ ListsAgree'
  BY <1>1 DEF SettingsInv, NewRoleIsNew, ListsAgree
<1>8. ChangesAreEdits'
  <2>1. \A f \in Fields : typed'[f] # initial'[f] => f \in edited'.profile
    BY <1>3 DEF SettingsInv, ChangesAreEdits
  <2>2. r \in DOMAIN R =>
          \A f \in Fields : draft'[f] # R[r][f] => f \in edited'.role \/ (f = "icon" /\ strayed')
    BY DEF Show, SettingsInv, ChangesAreEdits
  <2>3. QED
    BY <1>1, <2>1, <2>2 DEF SettingsInv, ChangesAreEdits
<1>9. SaveIsSeen'
  BY DEF SettingsInv, SaveIsSeen, ProfileRequests
<1>10. QED
  BY <1>4, <1>5, <1>6, <1>7, <1>8, <1>9 DEF SettingsInv

LEMMA RolesArriveKeeps == ASSUME SettingsInv, RolesArrive PROVE SettingsInv'
<1>1. /\ load.step = "answered" /\ load'.step = "none" /\ Show(load.roles, editing, TRUE)
      /\ overtaken' = (IF "load" \in overtaken THEN {"list"} ELSE {})
      /\ UNCHANGED <<backend, tab, profile, reqs, edits, troubles>>
  BY DEF RolesArrive, Idle
<1>2. /\ DOMAIN load.roles \subseteq Roles /\ \A q \in DOMAIN load.roles : load.roles[q] \in Forms
      /\ editing \in Roles \cup {"none"}
  BY <1>1 DEF SettingsInv, FormsHold
<1>3. ~minted => NewRole \notin DOMAIN load.roles \cup {editing}
  BY <1>1 DEF SettingsInv, NewRoleIsNew
<1>4. editing \in alive => editing \in DOMAIN load.roles \/ "list" \in overtaken'
  BY <1>1 DEF SettingsInv, ListsAgree
<1>5. QED
  BY <1>1, <1>2, <1>3, <1>4, ShowingKeeps

\* Another role of the list is opened, or the list, or the same role anew.
LEMMA OpeningKeeps ==
  ASSUME SettingsInv, NEW r \in DOMAIN roles \cup {"none"}, Show(roles, r, TRUE),
         UNCHANGED <<backend, tab, profile, load, reqs, overtaken, edits, troubles>>
  PROVE  SettingsInv'
<1>1. /\ DOMAIN roles \subseteq Roles /\ \A q \in DOMAIN roles : roles[q] \in Forms
      /\ r \in Roles \cup {"none"}
  BY DEF SettingsInv, FormsHold
<1>2. /\ ~minted => NewRole \notin DOMAIN roles \cup {r}
      /\ r \in alive => r \in DOMAIN roles
  BY SheetsAre DEF SettingsInv, NewRoleIsNew, BackendHolds
<1>3. load'.step = "answered" /\ "load" \notin overtaken' =>
        \A q \in alive : q \in DOMAIN roles \/ q = r => q \in DOMAIN load'.roles
  BY <1>2 DEF SettingsInv, ListsAgree
<1>4. QED
  BY <1>1, <1>2, <1>3, ShowingKeeps

LEMMA EditRoleKeeps ==
  ASSUME SettingsInv, NEW f \in Fields, EditRole(f)
  PROVE  SettingsInv'
<1> USE DEF backend, profile
<1>0. edits \in Nat /\ edits' \in Nat /\ editing \in Roles
  BY DEF EditRole, Edit, EditorOpen, SettingsInv, BackendHolds, FormsHold
<1>1. CASE f = "icon"
  <2> DEFINE q == Request("upload", editing, << >>, {})
  <2>1. RequestHolds(q) /\ q.kind = "upload" /\ q.step = "asked"
    BY <1>0, RequestsAreMade, SheetsAre DEF SettingsInv, RequestKinds
  <2>2. reqs' = reqs \cup {q}
        /\ UNCHANGED <<backend, profile, editor, load, edited, overtaken, troubles>>
    BY <1>1 DEF EditRole, editor
  <2> HIDE DEF q
  <2>3. QED
    BY <1>0, <2>1, <2>2, AskingKeeps
<1>2. CASE f # "icon"
  <2>1. /\ draft' = [draft EXCEPT ![f] = edits]
        /\ edited' = [edited EXCEPT !.role = @ \cup {f}]
        /\ UNCHANGED <<backend, profile, roles, editing, strayed, load, reqs, overtaken, troubles>>
    BY <1>2 DEF EditRole
  <2>2. /\ draft' \in Forms /\ \A g \in Fields : g # f => draft'[g] = draft[g]
        /\ DOMAIN edited' = {"profile", "role"} /\ edited'.profile = edited.profile
        /\ edited'.role = edited.role \cup {f}
    BY <1>0, <2>1 DEF SettingsInv, FormsHold, Forms, Values
  <2>3. BackendHolds' /\ FormsHold'
    BY <1>0, <2>1, <2>2, FormsStay DEF SettingsInv, BackendHolds, FormsHold
  <2>4. RequestsHold'
    BY <2>1, FormsStay DEF SettingsInv, RequestsHold
  <2>5. NewRoleIsNew' /\ ListsAgree' /\ SaveIsSeen'
    BY <2>1 DEF SettingsInv, NewRoleIsNew, ListsAgree, SaveIsSeen, ProfileRequests
  <2>6. ChangesAreEdits'
    BY <2>1, <2>2 DEF SettingsInv, ChangesAreEdits
  <2>7. QED
    BY <2>3, <2>4, <2>5, <2>6 DEF SettingsInv
<1>3. QED
  BY <1>1, <1>2

\* An icon that comes to another role than it was chosen for has strayed.
LEMMA RoleIconUploadedKeeps ==
  ASSUME SettingsInv, NEW r \in reqs, RoleIconUploaded(r)
  PROVE  SettingsInv'
<1> USE DEF backend, profile
<1>0. /\ reqs' = reqs \ {r}
      /\ UNCHANGED <<backend, tab, profile, roles, editing, load, overtaken, edits, troubles>>
  BY DEF RoleIconUploaded
<1>1. r.id \in Values
  BY DEF SettingsInv, RequestsHold, RequestHolds, Values
<1>2. /\ draft' \in Forms /\ DOMAIN edited' = {"profile", "role"}
      /\ edited'.profile = edited.profile
      /\ editing \in DOMAIN roles =>
           \A f \in Fields : draft'[f] # roles[editing][f] =>
             f \in edited'.role \/ (f = "icon" /\ strayed')
  <2>1. CASE editing \notin DOMAIN roles
    BY <2>1 DEF RoleIconUploaded, SettingsInv, FormsHold
  <2>2. CASE editing \in DOMAIN roles
    <3>1. /\ draft' = [draft EXCEPT !["icon"] = r.id]
          /\ strayed' = (strayed \/ editing # r.sheet)
      BY <2>2 DEF RoleIconUploaded
    <3>2. edited' = IF editing = r.sheet THEN [edited EXCEPT !["role"] = @ \cup {"icon"}] ELSE edited
      BY <2>2 DEF RoleIconUploaded
    <3>3. draft' \in Forms /\ \A f \in Fields : f # "icon" => draft'[f] = draft[f]
      BY <1>1, <3>1 DEF SettingsInv, FormsHold, Forms
    <3>4. /\ DOMAIN edited' = {"profile", "role"} /\ edited'.profile = edited.profile
          /\ edited.role \subseteq edited'.role /\ (editing = r.sheet => "icon" \in edited'.role)
      BY <3>2 DEF SettingsInv, FormsHold
    <3>5. QED
      BY <2>2, <3>1, <3>3, <3>4 DEF SettingsInv, ChangesAreEdits
  <2>3. QED
    BY <2>1, <2>2
<1>3. BackendHolds' /\ FormsHold'
  BY <1>0, <1>2, FormsStay DEF SettingsInv, BackendHolds, FormsHold
<1>4. RequestsHold'
  BY <1>0, FormsStay DEF SettingsInv, RequestsHold
<1>5. NewRoleIsNew' /\ ListsAgree' /\ SaveIsSeen'
  BY <1>0 DEF SettingsInv, NewRoleIsNew, ListsAgree, SaveIsSeen, ProfileRequests
<1>6. ChangesAreEdits'
  BY <1>0, <1>2 DEF SettingsInv, ChangesAreEdits
<1>7. QED
  BY <1>3, <1>4, <1>5, <1>6 DEF SettingsInv

LEMMA SaveRoleKeeps == ASSUME SettingsInv, SaveRole PROVE SettingsInv'
<1> DEFINE b == Restrict(draft, Changes(draft, roles[editing]))
           q == Request("save", editing, b, edited.role)
<1>0. /\ reqs' = reqs \cup {q} /\ edits' \in Nat /\ editing \in Roles /\ editing \in DOMAIN roles
      /\ UNCHANGED <<backend, profile, editor, load, edited, overtaken, troubles>>
  BY DEF SaveRole, Edit, EditorOpen, SettingsInv, BackendHolds, FormsHold
<1>1. /\ draft \in Forms
      /\ DOMAIN b = {f \in Fields : draft[f] # roles[editing][f]}
      /\ \A f \in DOMAIN b : b[f] = draft[f]
  BY DEF Restrict, Changes, SettingsInv, FormsHold, Forms
<1> HIDE DEF b
<1>2. \A f \in DOMAIN b : b[f] \in Values
  BY <1>1 DEF Forms
<1>3. /\ RequestHolds(q) /\ q.kind = "save" /\ q.sheet = editing /\ q.step = "asked"
      /\ q.body = b /\ q.touched = edited.role /\ q.stray = (strayed /\ editing # "profile")
  BY <1>0, <1>2, RequestsAreMade, SheetsAre DEF SettingsInv, RequestKinds
<1> HIDE DEF q
<1>4. \A f \in DOMAIN b : f \in edited.role \/ (f = "icon" /\ q.stray)
  BY <1>0, <1>1, <1>3, SheetsAre DEF SettingsInv, ChangesAreEdits
<1>5. QED
  BY <1>0, <1>3, <1>4, SheetsAre, AskingKeeps

LEMMA RoleSavedKeeps ==
  ASSUME SettingsInv, NEW r \in reqs, RoleSaved(r)
  PROVE  SettingsInv'
<1> DEFINE R == [q \in DOMAIN roles |-> IF q = r.sheet THEN r.row ELSE roles[q]]
<1>0. RequestHolds(r)
  BY DEF SettingsInv, RequestsHold
<1>1. /\ reqs' \subseteq reqs /\ Show(R, editing, editing = r.sheet)
      /\ UNCHANGED <<backend, tab, profile, load, overtaken, edits, troubles>>
  BY DEF RoleSaved
<1>2. /\ DOMAIN R = DOMAIN roles /\ DOMAIN R \subseteq Roles
      /\ \A q \in DOMAIN R : R[q] \in Forms
      /\ editing # r.sheet => (editing \in DOMAIN R => R[editing] = roles[editing])
      /\ editing \in Roles \cup {"none"}
  BY <1>0 DEF SettingsInv, FormsHold, RequestHolds
<1> HIDE DEF R
<1>3. /\ ~minted => NewRole \notin DOMAIN R \cup {editing}
      /\ editing \in alive => editing \in DOMAIN R \/ "list" \in overtaken'
      /\ load'.step = "answered" /\ "load" \notin overtaken' =>
           \A q \in alive : q \in DOMAIN R \/ q = editing => q \in DOMAIN load'.roles
  BY <1>1, <1>2 DEF SettingsInv, NewRoleIsNew, ListsAgree
<1>4. (editing = r.sheet) \in BOOLEAN
  OBVIOUS
<1>5. QED
  BY <1>1, <1>2, <1>3, <1>4, ShowingKeeps

LEMMA CreateRoleKeeps == ASSUME SettingsInv, CreateRole PROVE SettingsInv'
<1> DEFINE q == Request("create", NewRole, << >>, {})
<1>1. RequestHolds(q) /\ q.kind = "create" /\ q.step = "asked"
  BY RequestsAreMade, SheetsAre DEF SettingsInv, RequestKinds
<1>2. /\ reqs' = reqs \cup {q} /\ edits' \in Nat /\ ~minted /\ ~Busy({"create"})
      /\ UNCHANGED <<backend, profile, editor, load, edited, overtaken, troubles>>
  BY DEF CreateRole, Edit, SettingsInv, BackendHolds
<1> HIDE DEF q
<1>3. QED
  BY <1>1, <1>2, AskingKeeps

LEMMA RoleCreatedKeeps ==
  ASSUME SettingsInv, NEW r \in reqs, RoleCreated(r)
  PROVE  SettingsInv'
<1> DEFINE R == [q \in DOMAIN roles \cup {r.sheet} |-> IF q = r.sheet THEN r.row ELSE roles[q]]
<1>0. /\ RequestHolds(r) /\ r.kind = "create" /\ r.step = "done"
      /\ reqs' \subseteq reqs /\ Show(R, r.sheet, TRUE)
      /\ overtaken' = overtaken \cup (IF load.step = "none" THEN {} ELSE {"load"})
      /\ UNCHANGED <<backend, tab, profile, load, edits, troubles>>
  BY DEF RoleCreated, SettingsInv, RequestsHold
<1>1. r.sheet \in Roles /\ minted
  BY <1>0, SheetsAre DEF RequestHolds, SettingsInv, NewRoleIsNew
<1>2. /\ DOMAIN R \subseteq Roles /\ r.sheet \in DOMAIN R
      /\ \A q \in DOMAIN R : R[q] \in Forms
  BY <1>0, <1>1 DEF SettingsInv, FormsHold, RequestHolds
<1> HIDE DEF R
<1>3. load'.step = "answered" => "load" \in overtaken'
  BY <1>0
<1>4. QED
  BY <1>0, <1>1, <1>2, <1>3, ShowingKeeps

LEMMA DeleteRoleKeeps ==
  ASSUME SettingsInv, NEW r \in Roles, DeleteRole(r)
  PROVE  SettingsInv'
<1> DEFINE q == Request("delete", r, << >>, {})
<1>1. RequestHolds(q) /\ q.kind = "delete" /\ q.sheet = r /\ q.step = "asked"
  BY RequestsAreMade, SheetsAre DEF SettingsInv, RequestKinds
<1>2. /\ reqs' = reqs \cup {q} /\ edits' \in Nat /\ r \in DOMAIN roles
      /\ UNCHANGED <<backend, profile, editor, load, edited, overtaken, troubles>>
  BY DEF DeleteRole, Edit, SettingsInv, BackendHolds
<1> HIDE DEF q
<1>3. r = NewRole => minted
  BY <1>2 DEF SettingsInv, NewRoleIsNew
<1>4. QED
  BY <1>1, <1>2, <1>3, AskingKeeps

LEMMA RoleDeletedKeeps ==
  ASSUME SettingsInv, NEW r \in reqs, RoleDeleted(r)
  PROVE  SettingsInv'
<1> DEFINE R == Restrict(roles, DOMAIN roles \ {r.sheet})
<1>0. /\ RequestHolds(r) /\ r.kind = "delete" /\ r.step = "done"
      /\ reqs' \subseteq reqs /\ Show(R, editing, editing = r.sheet)
      /\ UNCHANGED <<backend, tab, profile, load, overtaken, edits, troubles>>
  BY DEF RoleDeleted, SettingsInv, RequestsHold
<1>1. r.sheet \notin alive
  BY <1>0 DEF SettingsInv, NewRoleIsNew
<1>2. /\ DOMAIN R = DOMAIN roles \ {r.sheet} /\ DOMAIN R \subseteq Roles
      /\ \A q \in DOMAIN R : R[q] \in Forms /\ R[q] = roles[q]
      /\ editing \in Roles \cup {"none"}
  BY DEF Restrict, SettingsInv, FormsHold
<1> HIDE DEF R
<1>3. /\ ~minted => NewRole \notin DOMAIN R \cup {editing}
      /\ editing \in alive => editing \in DOMAIN R \/ "list" \in overtaken'
      /\ load'.step = "answered" /\ "load" \notin overtaken' =>
           \A q \in alive : q \in DOMAIN R \/ q = editing => q \in DOMAIN load'.roles
  BY <1>0, <1>1, <1>2 DEF SettingsInv, NewRoleIsNew, ListsAgree
<1>4. (editing = r.sheet) \in BOOLEAN
  OBVIOUS
<1>5. QED
  BY <1>0, <1>2, <1>3, <1>4, ShowingKeeps

LEMMA SettingsInvNext == ASSUME SettingsInv, [SettingsNext]_settingsVars PROVE SettingsInv'
<1>1. CASE \E r \in reqs : Answer(r)
  BY <1>1, AnsweringKeeps
<1>2. CASE \E r \in reqs : Fails(r)
  BY <1>2, FailingKeeps
<1>3. CASE OtherManagers
  BY <1>3, OtherManagersKeep
<1>4. CASE \E f \in Fields : EditProfile(f)
  BY <1>4, EditProfileKeeps
<1>5. CASE ResetProfile
  BY <1>5, ResetProfileKeeps
<1>6. CASE SaveProfile
  BY <1>6, SaveProfileKeeps
<1>7. CASE \E r \in reqs : ProfileUploaded(r)
  BY <1>7, ProfileUploadedKeeps
<1>8. CASE \E r \in reqs : ProfileSaved(r)
  BY <1>8, ProfileSavedKeeps
<1>9. CASE \E r \in reqs : ProfileRefreshed(r)
  BY <1>9, ProfileRefreshedKeeps
<1>10. CASE \E t \in {"profile", "roles"} : OpenTab(t)
  BY <1>10, OpenTabKeeps
<1>11. CASE RolesAreAnswered
  BY <1>11, RolesAreAnsweredKeeps
<1>12. CASE RolesArrive
  BY <1>12, RolesArriveKeeps
<1>13. CASE RolesFail
  BY <1>13, RolesFailKeeps
<1>14. CASE (\E r \in Roles : OpenRole(r)) \/ CloseRole \/ ResetRole
  BY <1>14, OpeningKeeps DEF OpenRole, CloseRole, ResetRole, EditorOpen
<1>15. CASE \E f \in Fields : EditRole(f)
  BY <1>15, EditRoleKeeps
<1>16. CASE \E r \in reqs : RoleIconUploaded(r)
  BY <1>16, RoleIconUploadedKeeps
<1>17. CASE SaveRole
  BY <1>17, SaveRoleKeeps
<1>18. CASE \E r \in reqs : RoleSaved(r)
  BY <1>18, RoleSavedKeeps
<1>19. CASE CreateRole
  BY <1>19, CreateRoleKeeps
<1>20. CASE \E r \in reqs : RoleCreated(r)
  BY <1>20, RoleCreatedKeeps
<1>21. CASE \E r \in Roles : DeleteRole(r)
  BY <1>21, DeleteRoleKeeps
<1>22. CASE \E r \in reqs : RoleDeleted(r)
  BY <1>22, RoleDeletedKeeps
<1>23. CASE UNCHANGED settingsVars
  BY <1>23, FormsStay
  DEF settingsVars, backend, profile, editor, SettingsInv, BackendHolds, FormsHold, RequestsHold,
      NewRoleIsNew, ListsAgree, ChangesAreEdits, SaveIsSeen, ProfileRequests
<1>24. QED
  BY <1>1, <1>2, <1>3, <1>4, <1>5, <1>6, <1>7, <1>8, <1>9, <1>10, <1>11, <1>12, <1>13, <1>14,
     <1>15, <1>16, <1>17, <1>18, <1>19, <1>20, <1>21, <1>22, <1>23 DEF SettingsNext

\* For any roles, and however often the user and others act: the role editor
\* is left blank only when its role was deleted, or created during the load.
THEOREM EditorIsNeverBlank ==
  ASSUME NEW n \in Nat, NEW m \in Nat
  PROVE  SettingsSpec(n, m) => []EditorNotBlank
<1>1. SettingsInit(n, m) => SettingsInv
  BY SettingsInvInit
<1>2. SettingsInv /\ [SettingsNext]_settingsVars => SettingsInv'
  BY SettingsInvNext
<1>3. SettingsInv => EditorNotBlank
  BY DEF SettingsInv, ListsAgree, EditorNotBlank
<1>4. QED
  BY <1>1, <1>2, <1>3, PTL DEF SettingsSpec

\* For any roles, and however often the user and others act: what another
\* manager wrote is only overwritten in a field that the user edited, or by an
\* icon that strayed from one role to another.
THEOREM SavesSpareOthers ==
  ASSUME NEW n \in Nat, NEW m \in Nat
  PROVE  SettingsSpec(n, m) => OthersWorkSurvives
<1> DEFINE Spares ==
      \A s \in Sheets, f \in Fields :
        rows[s][f] < 0 /\ rows'[s][f] # rows[s][f] /\ troubles' = troubles =>
          \E r \in reqs : /\ r.kind = "save" /\ r.sheet = s /\ r.step = "asked"
                          /\ f \in r.touched \/ (f = "icon" /\ r.stray)
<1>1. SettingsInit(n, m) => SettingsInv
  BY SettingsInvInit
<1>2. SettingsInv /\ [SettingsNext]_settingsVars => SettingsInv'
  BY SettingsInvNext
<1>3. SettingsInv /\ [SettingsNext]_settingsVars => [Spares]_settingsVars
  <2> SUFFICES ASSUME SettingsInv, [SettingsNext]_settingsVars, NEW s \in Sheets, NEW f \in Fields,
                      rows'[s][f] # rows[s][f], troubles' = troubles
               PROVE  \E r \in reqs : /\ r.kind = "save" /\ r.sheet = s /\ r.step = "asked"
                                      /\ f \in r.touched \/ (f = "icon" /\ r.stray)
    OBVIOUS
  <2>1. ~OtherManagers
    BY DEF OtherManagers, Trouble, SettingsInv, BackendHolds
  <2>2. PICK r \in reqs : Answer(r)
    BY <2>1
    DEF SettingsNext, settingsVars, backend, Fails, EditProfile, ResetProfile, SaveProfile,
        ProfileUploaded, ProfileSaved, ProfileRefreshed, OpenTab, RolesAreAnswered, RolesArrive,
        RolesFail, OpenRole, CloseRole, EditRole, RoleIconUploaded, ResetRole, SaveRole, RoleSaved,
        CreateRole, RoleCreated, DeleteRole, RoleDeleted
  <2>3. rows' = Stored(r) /\ r.step = "asked"
    BY <2>2 DEF Answer
  <2>4. r.kind = "save" /\ r.sheet = s /\ f \in DOMAIN r.body
    BY <2>3 DEF Stored, SettingsInv, BackendHolds, RequestsHold, RequestHolds, Forms
  <2>5. f \in r.touched \/ (f = "icon" /\ r.stray)
    BY <2>3, <2>4 DEF SettingsInv, ChangesAreEdits
  <2>6. QED
    BY <2>3, <2>4, <2>5
<1>4. QED
  BY <1>1, <1>2, <1>3, PTL DEF SettingsSpec, OthersWorkSurvives
=============================================================================
