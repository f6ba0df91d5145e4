------------------------------- MODULE MCPages -------------------------------
(* The pages and dialogs share no state: a behaviour is one of the page of *)
(* a tournament, of the server settings, of their list of members, of the  *)
(* dialogs of the shell, or of the form for tournaments.                   *)
EXTENDS TournamentPage, ServerSettings, MemberList, Dialogs, TournamentForm

VARIABLE used    \* which of them

(* At rest, a part has one initial state.                                  *)
PageAlone ==
  /\ PageInit(0, 0)
  /\ page = CHOOSE t \in Managed : TRUE
  /\ \A u \in Tournaments : store[u].status = "draft"

DialogsAlone ==
  /\ DialogsInit(MaxJobs)
  /\ invite.server = CHOOSE s \in Servers : TRUE
  /\ invite.option = CHOOSE o \in Options : TRUE

Form(n, m) == FormInit(n, m) /\ at.guild = CHOOSE g \in Guilds : TRUE

MCInit ==
  \/ /\ used = "page" /\ PageInit(3, 1)
     /\ SettingsInit(0, 0) /\ MembersInit(0, 0) /\ DialogsAlone /\ Form(0, 0)
  \/ /\ used = "settings" /\ SettingsInit(3, 2)
     /\ PageAlone /\ MembersInit(0, 0) /\ DialogsAlone /\ Form(0, 0)
  \/ /\ used = "members" /\ (MembersInit(5, 0) \/ MembersInit(4, 1))
     /\ PageAlone /\ SettingsInit(0, 0) /\ DialogsAlone /\ Form(0, 0)
  \/ /\ used = "dialogs" /\ DialogsInit(0)
     /\ PageAlone /\ SettingsInit(0, 0) /\ MembersInit(0, 0) /\ Form(0, 0)
  \/ /\ used = "form" /\ (Form(3, 0) \/ Form(2, 1))
     /\ PageAlone /\ SettingsInit(0, 0) /\ MembersInit(0, 0) /\ DialogsAlone

MCNext ==
  /\ UNCHANGED used
  /\ \/ /\ used = "page" /\ PageNext
        /\ UNCHANGED <<settingsVars, memberVars, dialogVars, formVars>>
     \/ /\ used = "settings" /\ SettingsNext
        /\ UNCHANGED <<pageVars, memberVars, dialogVars, formVars>>
     \/ /\ used = "members" /\ MembersNext
        /\ UNCHANGED <<pageVars, settingsVars, dialogVars, formVars>>
     \/ /\ used = "dialogs" /\ DialogsNext
        /\ UNCHANGED <<pageVars, settingsVars, memberVars, formVars>>
     \/ /\ used = "form" /\ FormNext
        /\ UNCHANGED <<pageVars, settingsVars, memberVars, dialogVars>>

MCSpec == MCInit /\ [][MCNext]_<<pageVars, settingsVars, memberVars, dialogVars, formVars, used>>
=============================================================================
