------------------------------ MODULE Composer ------------------------------
(***************************************************************************)
(* The composer under the channel of DashboardView and the editing of a    *)
(* message: what the user types and attaches, and the requests that take   *)
(* it away.  The text box, the attached files, the answered message and    *)
(* the draft of an edit belong to the view, not to a channel: a change of  *)
(* channel keeps them.  Nothing is disabled while a message is sent, and   *)
(* what returns clears whatever it then finds.                             *)
(*                                                                         *)
(* Every word and file is entered once.  A channel stands for the one      *)
(* message of it that the user may answer or edit as well.                 *)
(***************************************************************************)
EXTENDS Integers

CONSTANTS Channels, NoChannel, Words, Files,
          MaxRequests  \* bound on the sends, and on the saves of edits

ASSUME ComposerAssumption ==
  NoChannel \notin Channels /\ Words \cap Files = {} /\ MaxRequests \in Nat

VARIABLES
  channel,   \* the channel shown, NoChannel on another page
  box,       \* the words in the text box
  files,     \* pendingFiles
  replyTo,   \* replyToMessage
  uploading, \* isUploadingFiles
  sends,     \* the runs of onSend
  edit,      \* editingMessageId and the words added to its draft
  saves,     \* the runs of saveEditedMessage
  asked,     \* how many sends and saves there were
  entered,   \* all the words and files that the user has entered
  accounted  \* those that the backend has stored, that the user gave up, or
             \* that were entered while a request of the view was at work

content == <<box, files, replyTo, uploading, edit>>
runs == <<sends, saves, asked>>
ghosts == <<entered, accounted>>
composerVars == <<channel, content, runs, ghosts>>

NoEdit == [of |-> NoChannel, words |-> {}]

ComposerInitAfter(n, m) ==
  /\ channel = NoChannel
  /\ box = {} /\ files = {} /\ replyTo = NoChannel /\ uploading = FALSE
  /\ edit = NoEdit
  /\ sends = {} /\ saves = {} /\ asked = [sends |-> n, saves |-> m]
  /\ entered = {} /\ accounted = {}

ComposerInit == ComposerInitAfter(0, 0)

Shown == channel # NoChannel

(* x is entered for the first time, while those of rs that this view       *)
(* started are at work.                                                    *)
Enter(x, rs) ==
  /\ Shown /\ x \notin entered
  /\ entered' = entered \cup {x}
  /\ accounted' = IF \E r \in rs : r.here THEN accounted \cup {x} ELSE accounted

-----------------------------------------------------------------------------
(* The user types, or picks an emoji.                                      *)
TypeWord(w) ==
  /\ Enter(w, sends)
  /\ box' = box \cup {w}
  /\ UNCHANGED <<channel, files, replyTo, uploading, edit, runs>>

Attach(f) ==
  /\ Enter(f, sends)
  /\ files' = files \cup {f}
  /\ UNCHANGED <<channel, box, replyTo, uploading, edit, runs>>

(* An image is pasted or a file dropped at any time, but picked only while *)
(* nothing is uploaded.                                                    *)
PasteOrDrop(f) == Attach(f)
PickFile(f) == ~uploading /\ Attach(f)

RemoveFile(f) ==
  /\ Shown /\ f \in files /\ ~uploading
  /\ files' = files \ {f}
  /\ accounted' = accounted \cup {f}
  /\ UNCHANGED <<channel, box, replyTo, uploading, edit, runs, entered>>

EraseBox ==
  /\ Shown /\ box # {}
  /\ box' = {}
  /\ accounted' = accounted \cup box
  /\ UNCHANGED <<channel, files, replyTo, uploading, edit, runs, entered>>

Answer(m) ==
  /\ Shown /\ replyTo # m
  /\ replyTo' = m
  /\ UNCHANGED <<channel, box, files, uploading, edit, runs, ghosts>>

Reply == Answer(channel)
CancelReply == Answer(NoChannel)

(* Another channel is opened in the same view.                             *)
SwitchChannel(c) ==
  /\ channel \notin {c, NoChannel}
  /\ channel' = c
  /\ UNCHANGED <<content, runs, ghosts>>

(* The view is left with all it holds; its requests go on without it.      *)
LeaveView ==
  /\ Shown
  /\ channel' = NoChannel
  /\ box' = {} /\ files' = {} /\ replyTo' = NoChannel
  /\ uploading' = FALSE /\ edit' = NoEdit
  /\ sends' = {[s EXCEPT !.here = FALSE] : s \in sends}
  /\ saves' = {[s EXCEPT !.here = FALSE] : s \in saves}
  /\ accounted' = accounted \cup box \cup files \cup edit.words
  /\ UNCHANGED <<asked, entered>>

OpenView(c) ==
  /\ ~Shown
  /\ channel' = c
  /\ UNCHANGED <<content, runs, ghosts>>

-----------------------------------------------------------------------------
(* onSend, for what the view holds when Enter is pressed.  The files are   *)
(* uploaded first, then the message is sent to the channel of that time.   *)
PressEnter ==
  /\ Shown /\ box \cup files # {} /\ asked.sends < MaxRequests
  /\ asked' = [asked EXCEPT !.sends = @ + 1]
  /\ sends' = sends \cup
       {[id |-> asked.sends, to |-> channel, items |-> box \cup files,
         reply |-> replyTo, here |-> TRUE,
         step |-> IF files = {} THEN "send" ELSE "upload"]}
  /\ uploading' = (uploading \/ files # {})
  /\ UNCHANGED <<channel, box, files, replyTo, edit, saves, ghosts>>

Uploaded(s) ==
  /\ s.step = "upload"
  /\ sends' = (sends \ {s}) \cup {[s EXCEPT !.step = "send"]}
  /\ UNCHANGED <<channel, content, saves, asked, ghosts>>

(* CreateMessage refuses an answer to another channel's message.           *)
SendStored(s) ==
  /\ s.step = "send" /\ s.reply \in {NoChannel, s.to}
  /\ sends' = (sends \ {s}) \cup {[s EXCEPT !.step = "stored"]}
  /\ accounted' = accounted \cup s.items
  /\ UNCHANGED <<channel, content, saves, asked, entered>>

(* A send that succeeded clears the composer, whatever it holds by now.    *)
SendDone(s) ==
  /\ s.step = "stored"
  /\ sends' = sends \ {s}
  /\ IF s.here
     THEN box' = {} /\ files' = {} /\ replyTo' = NoChannel /\ uploading' = FALSE
     ELSE UNCHANGED <<box, files, replyTo, uploading>>
  /\ UNCHANGED <<channel, edit, saves, asked, ghosts>>

(* Mutant: the composer is cleared before the answer is looked at.         *)
SendFailsClearing(s) ==
  /\ sends' = sends \ {s}
  /\ IF s.here
     THEN box' = {} /\ files' = {} /\ uploading' = FALSE
     ELSE UNCHANGED <<box, files, uploading>>
  /\ UNCHANGED <<channel, replyTo, edit, saves, asked, ghosts>>

(* An upload or the message fails, or the answer to a message is lost:     *)
(* the composer shows an error and keeps what it has.                      *)
SendFailed(s) ==
  /\ sends' = sends \ {s}
  /\ uploading' = (uploading /\ ~s.here)
  /\ UNCHANGED <<channel, box, files, replyTo, edit, saves, asked, ghosts>>

-----------------------------------------------------------------------------
(* The row of the message that is edited shows the draft, in its channel.  *)
Editing == Shown /\ edit.of = channel

(* Any edit that was open gives way to the new one.                        *)
OpenEdit ==
  /\ Shown
  /\ edit' = [of |-> channel, words |-> {}]
  /\ accounted' = accounted \cup edit.words
  /\ UNCHANGED <<channel, box, files, replyTo, uploading, runs, entered>>

TypeEdit(w) ==
  /\ Editing /\ Enter(w, saves)
  /\ edit' = [edit EXCEPT !.words = @ \cup {w}]
  /\ UNCHANGED <<channel, box, files, replyTo, uploading, runs>>

CancelEdit ==
  /\ Editing
  /\ edit' = NoEdit
  /\ accounted' = accounted \cup edit.words
  /\ UNCHANGED <<channel, box, files, replyTo, uploading, runs, entered>>

SaveEdit ==
  /\ Editing /\ asked.saves < MaxRequests
  /\ asked' = [asked EXCEPT !.saves = @ + 1]
  /\ saves' = saves \cup {[id |-> asked.saves, items |-> edit.words,
                           here |-> TRUE, step |-> "save"]}
  /\ UNCHANGED <<channel, content, sends, ghosts>>

EditStored(s) ==
  /\ s.step = "save"
  /\ saves' = (saves \ {s}) \cup {[s EXCEPT !.step = "stored"]}
  /\ accounted' = accounted \cup s.items
  /\ UNCHANGED <<channel, content, sends, asked, entered>>

(* A save that succeeded closes the edit that is open by now, of whatever  *)
(* message.                                                                *)
EditDone(s) ==
  /\ s.step = "stored"
  /\ saves' = saves \ {s}
  /\ edit' = IF s.here THEN NoEdit ELSE edit
  /\ UNCHANGED <<channel, box, files, replyTo, uploading, sends, asked, ghosts>>

EditFailed(s) ==
  /\ saves' = saves \ {s}
  /\ UNCHANGED <<channel, content, sends, asked, ghosts>>

ComposerNext ==
  \/ \E w \in Words : TypeWord(w)
  \/ \E f \in Files : PasteOrDrop(f)
  \/ \E f \in Files : PickFile(f)
  \/ \E f \in Files : RemoveFile(f)
  \/ EraseBox
  \/ Reply
  \/ CancelReply
  \/ \E c \in Channels : SwitchChannel(c)
  \/ LeaveView
  \/ \E c \in Channels : OpenView(c)
  \/ PressEnter
  \/ \E s \in sends : Uploaded(s)
  \/ \E s \in sends : SendStored(s)
  \/ \E s \in sends : SendDone(s)
  \/ \E s \in sends : SendFailed(s)
  \/ OpenEdit
  \/ \E w \in Words : TypeEdit(w)
  \/ CancelEdit
  \/ SaveEdit
  \/ \E s \in saves : EditStored(s)
  \/ \E s \in saves : EditDone(s)
  \/ \E s \in saves : EditFailed(s)

ComposerSpec == ComposerInit /\ [][ComposerNext]_composerVars

-----------------------------------------------------------------------------
(* What the user entered is not lost by failures, by double presses of     *)
(* Enter or by changes of channel: it is in the view or with the backend.  *)
(* The user may give it up, and what is entered while a message is sent    *)
(* (or an edit is saved) may be wiped when that one succeeds.              *)
NothingTypedIsLost ==
  entered \subseteq box \cup files \cup edit.words \cup accounted
=============================================================================
