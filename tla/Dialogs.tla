------------------------------ MODULE Dialogs ------------------------------
(***************************************************************************)
(* The dialogs of the shell: creating a server or joining one by an invite *)
(* (CreateServerModal), inviting others, the user's profile, a new         *)
(* channel.  They are modal, so that one is open at a time, and each stays *)
(* mounted with its state while it is closed.  Its buttons are disabled by *)
(* flags that a request raises and lowers, but Escape closes it at any     *)
(* time, and its requests go on.                                           *)
(***************************************************************************)
EXTENDS Integers

CONSTANTS Codes, Servers, Options, Nil,
          MaxJobs   \* bound on the requests of all dialogs

ASSUME DialogsAssumption ==
  Nil \notin Codes \cup Servers \cup Options /\ MaxJobs \in Nat

VARIABLES
  dialog,   \* the dialog that is open, or "none"
  modal,    \* CreateServerModal: step, invitePreview, initialInviteCode,
            \* inviteInput and autoResolvedInviteCodeRef
  invite,   \* InviteMemberDialog: serverId, expiryOption and inviteLink
  spinning, \* isSubmitting, isResolvingInvite and the like, by their requests
  jobs,     \* the requests at work
  begun,    \* how many there were
  stuck     \* the user went back while a code was resolved (see NoIdleSpinner)

dialogVars == <<dialog, modal, invite, spinning, jobs, begun, stuck>>

(* The requests of each dialog, which are the names of its flags, too.     *)
Flags == [server |-> {"create", "resolve", "join"}, invite |-> {"link"},
          profile |-> {"upload", "save"}, channel |-> {"channel"}, none |-> {}]

Begun(kind, code, auto) ==
  [id |-> begun, kind |-> kind, code |-> code, auto |-> auto, live |-> TRUE]

Fresh(code) == [step |-> IF code = Nil THEN "type" ELSE "input", preview |-> Nil,
                code |-> code, input |-> code, auto |-> Nil]

DialogsInit(n) ==
  /\ dialog = "none" /\ modal = Fresh(Nil)
  /\ \E s \in Servers, o \in Options : invite = [server |-> s, option |-> o, link |-> Nil]
  /\ spinning = {} /\ jobs = {} /\ begun = n /\ stuck = FALSE

-----------------------------------------------------------------------------
(* A dialog starts a request.                                              *)
Start(kind, code) ==
  /\ dialog # "none" /\ kind \in Flags[dialog]
  /\ begun < MaxJobs /\ begun' = begun + 1
  /\ jobs' = jobs \cup {Begun(kind, code, FALSE)}
  /\ spinning' = spinning \cup {kind}

(* It fails: the dialog shows an error, and the finally lowers the flag.   *)
JobFails(j) ==
  /\ jobs' = jobs \ {j}
  /\ spinning' = IF j.live THEN spinning \ {j.kind} ELSE spinning
  /\ UNCHANGED <<dialog, modal, invite, begun, stuck>>

(* It succeeds and closes its dialog, be it the same opening or not.       *)
Finish(j, d) ==
  /\ jobs' = jobs \ {j}
  /\ spinning' = spinning \ {j.kind}
  /\ dialog' = IF dialog = d THEN "none" ELSE dialog

-----------------------------------------------------------------------------
(* CreateServerModal shows m next, with the flags fs: leaving the page or  *)
(* the code for which a code was resolved cancels that, and a page for     *)
(* codes resolves the one it was opened with, once.                        *)
Render(d, m, js, fs) ==
  LET moved == d # dialog \/ m.step # modal.step \/ m.code # modal.code
      asks == /\ d = "server" /\ m.step = "input"
              /\ m.code \notin {Nil, m.auto} /\ begun < MaxJobs
  IN /\ dialog' = d
     /\ modal' = IF asks THEN [m EXCEPT !.auto = m.code] ELSE m
     /\ jobs' = {IF j.auto /\ moved THEN [j EXCEPT !.live = FALSE] ELSE j : j \in js}
                  \cup (IF asks THEN {Begun("resolve", m.code, TRUE)} ELSE {})
     /\ spinning' = IF asks THEN fs \cup {"resolve"} ELSE fs
     /\ begun' = IF asks THEN begun + 1 ELSE begun

(* Mutant: opening the modal leaves the flags as they are.                 *)
OpenServerModalAsItWas(code) ==
  /\ dialog = "none"
  /\ Render("server", Fresh(code), jobs, spinning)
  /\ stuck' = FALSE
  /\ UNCHANGED invite

(* The button of the rail opens it, or an invite link.                     *)
OpenServerModal(code) ==
  /\ dialog = "none"
  /\ Render("server", Fresh(code), jobs, spinning \ Flags.server)
  /\ stuck' = FALSE
  /\ UNCHANGED invite

CloseServerModal ==
  /\ dialog = "server"
  /\ Render("none", [modal EXCEPT !.code = Nil, !.auto = Nil], jobs, spinning)
  /\ UNCHANGED <<invite, stuck>>

(* The user moves from one page of the modal to another.                   *)
Move(from, to) ==
  /\ dialog = "server" /\ modal.step = from
  /\ Render(dialog, [modal EXCEPT !.step = to], jobs, spinning)
  /\ stuck' = (stuck \/ (from = "input" /\ \E j \in jobs : j.auto /\ j.live))
  /\ UNCHANGED invite

ChooseType == Move("type", "details")
GoToJoin == Move("type", "input")
BackFromInput == Move("input", "type")
BackFromPreview == Move("preview", "input")
BackFromDetails == "create" \notin spinning /\ Move("details", "type")

EnterCode(code) ==
  /\ dialog = "server" /\ modal.step = "input" /\ modal.input # code
  /\ modal' = [modal EXCEPT !.input = code]
  /\ UNCHANGED <<dialog, invite, spinning, jobs, begun, stuck>>

ResolveInvite ==
  /\ modal.step = "input" /\ "resolve" \notin spinning /\ modal.input # Nil
  /\ Start("resolve", modal.input)
  /\ UNCHANGED <<dialog, modal, invite, stuck>>

(* The answer shows the preview, unless it was cancelled.  What the user   *)
(* asked for is never cancelled.                                           *)
InviteResolved(j) ==
  /\ j.kind = "resolve"
  /\ IF j.live
     THEN Render(dialog, [modal EXCEPT !.preview = j.code, !.step = "preview",
                                     !.auto = IF j.auto THEN @ ELSE j.code],
               jobs \ {j}, spinning \ {"resolve"})
     ELSE jobs' = jobs \ {j} /\ UNCHANGED <<dialog, modal, spinning, begun>>
  /\ UNCHANGED <<invite, stuck>>

JoinByInvite ==
  /\ modal.step = "preview" /\ "join" \notin spinning
  /\ Start("join", modal.preview)
  /\ UNCHANGED <<dialog, modal, invite, stuck>>

SubmitServer ==
  /\ modal.step = "details" /\ "create" \notin spinning
  /\ Start("create", Nil)
  /\ UNCHANGED <<dialog, modal, invite, stuck>>

(* The shell has created or joined a server, and changes to it.            *)
ServerEntered(j) ==
  /\ j.kind \in {"create", "join"}
  /\ Render(IF dialog = "server" THEN "none" ELSE dialog,
          [modal EXCEPT !.code = Nil, !.auto = Nil], jobs \ {j}, spinning \ {j.kind})
  /\ UNCHANGED <<invite, stuck>>

-----------------------------------------------------------------------------
(* InviteMemberDialog shows v next, and without a link it asks for one.    *)
ShowInvite(d, v) ==
  /\ dialog' = d /\ invite' = v
  /\ IF d = "invite" /\ v.link = Nil /\ begun < MaxJobs
     THEN /\ jobs' = jobs \cup {Begun("link", <<v.server, v.option>>, FALSE)}
          /\ begun' = begun + 1
          /\ spinning' = spinning \cup {"link"}
     ELSE UNCHANGED <<jobs, begun, spinning>>
  /\ UNCHANGED <<modal, stuck>>

OpenInvite == dialog = "none" /\ ShowInvite("invite", invite)

ChooseExpiry(o) ==
  /\ dialog = "invite" /\ o # invite.option
  /\ ShowInvite(dialog, [invite EXCEPT !.option = o, !.link = Nil])

(* The shell shows another server, under the dialog if need be.            *)
ChangeServer(s) ==
  /\ s # invite.server
  /\ ShowInvite(dialog, [invite EXCEPT !.server = s])

Regenerate ==
  /\ "link" \notin spinning
  /\ Start("link", <<invite.server, invite.option>>)
  /\ UNCHANGED <<dialog, modal, invite, stuck>>

LinkArrives(j) ==
  /\ j.kind = "link"
  /\ invite' = [invite EXCEPT !.link = j.code]
  /\ jobs' = jobs \ {j} /\ spinning' = spinning \ {"link"}
  /\ UNCHANGED <<dialog, modal, begun, stuck>>

-----------------------------------------------------------------------------
(* The profile: an avatar is uploaded, then saved with the name.           *)
OpenUser ==
  /\ dialog = "none" /\ dialog' = "profile"
  /\ spinning' = spinning \ Flags.profile
  /\ UNCHANGED <<modal, invite, jobs, begun, stuck>>

UploadAvatar ==
  /\ dialog = "profile" /\ spinning \cap Flags.profile = {}
  /\ Start("upload", Nil)
  /\ UNCHANGED <<dialog, modal, invite, stuck>>

AvatarUploaded(j) ==
  /\ j.kind = "upload"
  /\ jobs' = jobs \ {j} /\ spinning' = spinning \ {"upload"}
  /\ UNCHANGED <<dialog, modal, invite, begun, stuck>>

SaveUser ==
  /\ dialog = "profile" /\ spinning \cap Flags.profile = {}
  /\ Start("save", Nil)
  /\ UNCHANGED <<dialog, modal, invite, stuck>>

(* The new name reaches the open dialog as a property and resets it.       *)
UserSaved(j) ==
  /\ j.kind = "save"
  /\ jobs' = jobs \ {j}
  /\ spinning' = spinning \ (IF dialog = "profile" THEN Flags.profile ELSE {"save"})
  /\ dialog' = IF dialog = "profile" THEN "none" ELSE dialog
  /\ UNCHANGED <<modal, invite, begun, stuck>>

-----------------------------------------------------------------------------
OpenChannelModal ==
  /\ dialog = "none" /\ dialog' = "channel"
  /\ UNCHANGED <<modal, invite, spinning, jobs, begun, stuck>>

SubmitChannel ==
  /\ "channel" \notin spinning
  /\ Start("channel", Nil)
  /\ UNCHANGED <<dialog, modal, invite, stuck>>

ChannelCreated(j) ==
  /\ j.kind = "channel"
  /\ Finish(j, "channel")
  /\ UNCHANGED <<modal, invite, begun, stuck>>

(* Escape or a button closes a dialog; that of channels resets itself.     *)
CloseDialog ==
  /\ dialog \in {"invite", "profile", "channel"} /\ dialog' = "none"
  /\ spinning' = IF dialog = "channel" THEN spinning \ {"channel"} ELSE spinning
  /\ UNCHANGED <<modal, invite, jobs, begun, stuck>>

DialogsNext ==
  \/ \E c \in Codes \cup {Nil} : OpenServerModal(c)
  \/ CloseServerModal
  \/ ChooseType
  \/ GoToJoin
  \/ BackFromInput
  \/ BackFromPreview
  \/ BackFromDetails
  \/ \E c \in Codes : EnterCode(c)
  \/ ResolveInvite
  \/ JoinByInvite
  \/ SubmitServer
  \/ \E j \in jobs : JobFails(j)
  \/ \E j \in jobs : InviteResolved(j)
  \/ \E j \in jobs : ServerEntered(j)
  \/ OpenInvite
  \/ \E o \in Options : ChooseExpiry(o)
  \/ \E s \in Servers : ChangeServer(s)
  \/ Regenerate
  \/ \E j \in jobs : LinkArrives(j)
  \/ OpenUser
  \/ UploadAvatar
  \/ \E j \in jobs : AvatarUploaded(j)
  \/ SaveUser
  \/ \E j \in jobs : UserSaved(j)
  \/ OpenChannelModal
  \/ SubmitChannel
  \/ \E j \in jobs : ChannelCreated(j)
  \/ CloseDialog

DialogsSpec == DialogsInit(0) /\ [][DialogsNext]_dialogVars

-----------------------------------------------------------------------------
(* No button of an open dialog stays disabled for a request that is over   *)
(* or cancelled, although dialogs are closed and opened again in between.  *)
(* The exception: going back while the code of an invite link is resolved  *)
(* cancels that and leaves the flag up until the modal is opened again.    *)
NoIdleSpinner ==
  \A f \in spinning \cap Flags[dialog] :
     \/ \E j \in jobs : j.kind = f /\ j.live
     \/ f = "resolve" /\ stuck
=============================================================================
