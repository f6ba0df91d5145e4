----------------------------- MODULE ViewProofs -----------------------------
(* Proofs about four parts of the channel view, each a specification of      *)
(* its own: the previews of links, the composer, the reactions and the list  *)
(* of messages.                                                              *)
EXTENDS Previews, Composer, Reactions, Chat, FiniteSetTheorems, TLAPS

-----------------------------------------------------------------------------
(* The previews.                                                             *)

PreviewsTypeOK ==
  /\ messages \subseteq Links
  /\ cache \in [Links -> {"unknown", "embed", "none"}]
  /\ \A f \in fetches : f.link \in Links

PreviewsInv == PreviewsTypeOK /\ PreviewsAreShown

LEMMA PreviewsInvInit == ASSUME PreviewsInit PROVE PreviewsInv
  BY DEF PreviewsInit, PreviewsInitAfter, PreviewsInv, PreviewsTypeOK, PreviewsAreShown

\* What the effect finds in the list is known to be empty, shown or fetched.
LEMMA ListChangesKeepsPreviews ==
  ASSUME PreviewsInv, NEW ms \in SUBSET Links, ListChanges(ms)
  PROVE  PreviewsInv'
<1>1. PreviewsTypeOK'
  BY DEF PreviewsInv, PreviewsTypeOK, ListChanges, Effect
<1>2. ASSUME NEW l \in ms, cache[l] # "none"
      PROVE  l \in previews' \/ l \in BeingFetched'
  <2>1. CASE cache[l] = "embed"
    BY <2>1 DEF ListChanges, Effect
  <2>2. CASE cache[l] = "unknown" /\ l \in BeingFetched
    BY <2>2 DEF ListChanges, Effect, BeingFetched
  <2>3. CASE cache[l] = "unknown" /\ l \notin BeingFetched
    <3>1. [link |-> l, of |-> run'] \in fetches'
      BY <2>3, <1>2 DEF ListChanges, Effect
    <3>2. QED
      BY <3>1 DEF BeingFetched
  <2>4. QED
    BY <1>2, <2>1, <2>2, <2>3 DEF PreviewsInv, PreviewsTypeOK
<1>3. QED
  BY <1>1, <1>2 DEF PreviewsInv, PreviewsAreShown, ListChanges

\* A page that arrives ends one fetch, and shows or excuses its link.
LEMMA PageArrivesKeepsPreviews ==
  ASSUME PreviewsInv, NEW f \in fetches, PageArrives(f)
  PROVE  PreviewsInv'
<1>1. PreviewsTypeOK'
  BY DEF PreviewsInv, PreviewsTypeOK, PageArrives
<1>2. ASSUME NEW l \in messages \ late', l # f.link, cache'[l] # "none"
      PROVE  l \in previews' \/ l \in BeingFetched'
  <2>1. l \notin late /\ cache[l] # "none"
    BY <1>2 DEF PreviewsInv, PreviewsTypeOK, PageArrives
  <2>2. l \in previews \/ l \in BeingFetched
    BY <1>2, <2>1 DEF PreviewsInv, PreviewsAreShown
  <2>3. QED
    BY <1>2, <2>2 DEF PageArrives, BeingFetched
<1>3. QED
  BY <1>1, <1>2 DEF PreviewsInv, PreviewsAreShown, PageArrives

LEMMA PageIsEmptyKeepsPreviews ==
  ASSUME PreviewsInv, NEW f \in fetches, PageIsEmpty(f)
  PROVE  PreviewsInv'
<1>1. PreviewsTypeOK'
  BY DEF PreviewsInv, PreviewsTypeOK, PageIsEmpty
<1>2. ASSUME NEW l \in messages \ late, cache'[l] # "none"
      PROVE  l \in previews \/ l \in BeingFetched'
  <2>1. l # f.link /\ cache[l] # "none"
    BY <1>2 DEF PreviewsInv, PreviewsTypeOK, PageIsEmpty
  <2>2. QED
    BY <1>2, <2>1 DEF PreviewsInv, PreviewsAreShown, PageIsEmpty, BeingFetched
<1>3. QED
  BY <1>1, <1>2 DEF PreviewsInv, PreviewsAreShown, PageIsEmpty

\* Whatever the order in which lists change and pages arrive, and for any
\* number of links: a link that is shown has its preview, or is being
\* fetched, unless its page has nothing or came too late.
THEOREM PreviewsShown == PreviewsSpec => []PreviewsAreShown
<1>1. PreviewsInit => PreviewsInv
  BY PreviewsInvInit
<1>2. PreviewsInv /\ [PreviewsNext]_previewVars => PreviewsInv'
  <2>1. SUFFICES ASSUME PreviewsInv, [PreviewsNext]_previewVars PROVE PreviewsInv'
    OBVIOUS
  <2>2. CASE \E ms \in SUBSET Links : ListChanges(ms)
    BY <2>1, <2>2, ListChangesKeepsPreviews
  <2>3. CASE \E f \in fetches : PageArrives(f)
    BY <2>1, <2>3, PageArrivesKeepsPreviews
  <2>4. CASE \E f \in fetches : PageIsEmpty(f)
    BY <2>1, <2>4, PageIsEmptyKeepsPreviews
  <2>5. CASE UNCHANGED previewVars
    BY <2>1, <2>5
    DEF PreviewsInv, PreviewsTypeOK, PreviewsAreShown, previewVars, BeingFetched
  <2>6. QED
    BY <2>1, <2>2, <2>3, <2>4, <2>5 DEF PreviewsNext
<1>3. PreviewsInv => PreviewsAreShown
  BY DEF PreviewsInv
<1>4. QED
  BY <1>1, <1>2, <1>3, PTL DEF PreviewsSpec
-----------------------------------------------------------------------------
(* The composer.                                                             *)

Sends == [id : Nat, to : Channels, items : SUBSET (Words \cup Files),
          reply : Channels \cup {NoChannel}, here : BOOLEAN,
          step : {"upload", "send", "stored"}]
Saves == [id : Nat, items : SUBSET Words, here : BOOLEAN, step : {"save", "stored"}]

ComposerTypeOK ==
  /\ channel \in Channels \cup {NoChannel} /\ replyTo \in Channels \cup {NoChannel}
  /\ box \subseteq Words /\ files \subseteq Files
  /\ edit \in [of : Channels \cup {NoChannel}, words : SUBSET Words]
  /\ sends \subseteq Sends /\ saves \subseteq Saves
  /\ asked \in [sends : Nat, saves : Nat]

\* A request of this view carries all of what it will wipe that is not yet
\* accounted for, and what is stored is accounted for.
Carries(rs, held) ==
  \A s \in rs : /\ s.here => held \subseteq s.items \cup accounted
                /\ s.step = "stored" => s.items \subseteq accounted

SendsCarry == Carries(sends, box \cup files)
SavesCarry == Carries(saves, edit.words)

ComposerInv == ComposerTypeOK /\ SendsCarry /\ SavesCarry /\ NothingTypedIsLost

LEMMA ComposerInvInit == ASSUME ComposerInit PROVE ComposerInv
  BY DEF ComposerInit, ComposerInitAfter, ComposerInv, ComposerTypeOK, SendsCarry,
         SavesCarry, Carries, NothingTypedIsLost, NoEdit

\* The user enters, removes and erases.
LEMMA TypeWordKeeps ==
  ASSUME ComposerInv, NEW w \in Words, TypeWord(w)
  PROVE  ComposerInv'
<1>1. ComposerTypeOK'
  BY DEF ComposerInv, ComposerTypeOK, TypeWord, runs, Enter
<1>2. SendsCarry' /\ SavesCarry'
  BY DEF ComposerInv, SendsCarry, SavesCarry, Carries, TypeWord, runs, Enter
<1>3. NothingTypedIsLost'
  BY DEF ComposerInv, NothingTypedIsLost, TypeWord, Enter
<1>4. QED
  BY <1>1, <1>2, <1>3 DEF ComposerInv

LEMMA AttachKeeps ==
  ASSUME ComposerInv, NEW f \in Files, Attach(f)
  PROVE  ComposerInv'
<1>1. ComposerTypeOK'
  BY DEF ComposerInv, ComposerTypeOK, Attach, runs, Enter
<1>2. SendsCarry' /\ SavesCarry'
  BY DEF ComposerInv, SendsCarry, SavesCarry, Carries, Attach, runs, Enter
<1>3. NothingTypedIsLost'
  BY DEF ComposerInv, NothingTypedIsLost, Attach, Enter
<1>4. QED
  BY <1>1, <1>2, <1>3 DEF ComposerInv

LEMMA RemoveFileKeeps ==
  ASSUME ComposerInv, NEW f \in Files, RemoveFile(f)
  PROVE  ComposerInv'
<1>1. ComposerTypeOK'
  BY DEF ComposerInv, ComposerTypeOK, RemoveFile, runs
<1>2. SendsCarry' /\ SavesCarry'
  BY DEF ComposerInv, SendsCarry, SavesCarry, Carries, RemoveFile, runs
<1>3. NothingTypedIsLost'
  BY DEF ComposerInv, NothingTypedIsLost, RemoveFile
<1>4. QED
  BY <1>1, <1>2, <1>3 DEF ComposerInv

LEMMA EraseBoxKeeps ==
  ASSUME ComposerInv, EraseBox
  PROVE  ComposerInv'
<1>1. ComposerTypeOK'
  BY DEF ComposerInv, ComposerTypeOK, EraseBox, runs
<1>2. SendsCarry' /\ SavesCarry'
  BY DEF ComposerInv, SendsCarry, SavesCarry, Carries, EraseBox, runs
<1>3. NothingTypedIsLost'
  BY DEF ComposerInv, NothingTypedIsLost, EraseBox
<1>4. QED
  BY <1>1, <1>2, <1>3 DEF ComposerInv

\* Answering a message, and going from channel to channel, touch no content.
LEMMA MovingKeeps ==
  ASSUME ComposerInv,
         channel' \in Channels \cup {NoChannel}, replyTo' \in Channels \cup {NoChannel},
         UNCHANGED <<box, files, edit, runs, ghosts>>
  PROVE  ComposerInv'
<1>1. ComposerTypeOK'
  BY DEF ComposerInv, ComposerTypeOK, runs
<1>2. QED
  BY <1>1 DEF ComposerInv, SendsCarry, SavesCarry, Carries, NothingTypedIsLost, runs, ghosts

LEMMA LeaveViewKeeps ==
  ASSUME ComposerInv, LeaveView
  PROVE  ComposerInv'
<1>1. \A s \in sends' : s \in Sends /\ ~s.here /\ (s.step = "stored" => s.items \subseteq accounted)
  <2>1. SUFFICES ASSUME NEW r \in sends
                 PROVE  LET s == [r EXCEPT !.here = FALSE]
                        IN  s \in Sends /\ ~s.here /\ (s.step = "stored" => s.items \subseteq accounted)
    BY DEF LeaveView
  <2>2. r \in Sends /\ (r.step = "stored" => r.items \subseteq accounted)
    BY DEF ComposerInv, ComposerTypeOK, SendsCarry, Carries
  <2>3. QED
    BY <2>2 DEF Sends
<1>2. \A s \in saves' : s \in Saves /\ ~s.here /\ (s.step = "stored" => s.items \subseteq accounted)
  <2>1. SUFFICES ASSUME NEW r \in saves
                 PROVE  LET s == [r EXCEPT !.here = FALSE]
                        IN  s \in Saves /\ ~s.here /\ (s.step = "stored" => s.items \subseteq accounted)
    BY DEF LeaveView
  <2>2. r \in Saves /\ (r.step = "stored" => r.items \subseteq accounted)
    BY DEF ComposerInv, ComposerTypeOK, SavesCarry, Carries
  <2>3. QED
    BY <2>2 DEF Saves
<1>3. ComposerTypeOK'
  BY <1>1, <1>2 DEF ComposerInv, ComposerTypeOK, LeaveView, NoEdit
<1>4. SendsCarry' /\ SavesCarry'
  BY <1>1, <1>2 DEF SendsCarry, SavesCarry, Carries, LeaveView
<1>5. NothingTypedIsLost'
  BY DEF ComposerInv, NothingTypedIsLost, LeaveView
<1>6. QED
  BY <1>3, <1>4, <1>5 DEF ComposerInv

\* onSend, step by step.
LEMMA PressEnterKeeps ==
  ASSUME ComposerInv, PressEnter
  PROVE  ComposerInv'
<1> DEFINE s == [id |-> asked.sends, to |-> channel, items |-> box \cup files,
                 reply |-> replyTo, here |-> TRUE,
                 step |-> IF files = {} THEN "send" ELSE "upload"]
<1>1. s \in Sends /\ sends' = sends \cup {s}
  BY ComposerAssumption DEF ComposerInv, ComposerTypeOK, PressEnter, Sends, Shown
<1>2. s.here /\ s.items = box \cup files /\ s.step # "stored"
  OBVIOUS
<1> HIDE DEF s
<1>3. ComposerTypeOK'
  BY <1>1 DEF ComposerInv, ComposerTypeOK, PressEnter
<1>4. SendsCarry' /\ SavesCarry'
  BY <1>1, <1>2 DEF ComposerInv, SendsCarry, SavesCarry, Carries, PressEnter, ghosts
<1>5. NothingTypedIsLost'
  BY DEF ComposerInv, NothingTypedIsLost, PressEnter, ghosts
<1>6. QED
  BY <1>3, <1>4, <1>5 DEF ComposerInv

\* A step of one send keeps what it carries, and puts it with the backend.
LEMMA SendMovesKeeps ==
  ASSUME ComposerInv, NEW s \in sends, NEW step \in {"send", "stored"},
         sends' = (sends \ {s}) \cup {[s EXCEPT !.step = step]},
         accounted' = IF step = "stored" THEN accounted \cup s.items ELSE accounted,
         UNCHANGED <<channel, content, saves, asked, entered>>
  PROVE  ComposerInv'
<1> DEFINE r == [s EXCEPT !.step = step]
<1>1. r \in Sends /\ r.here = s.here /\ r.items = s.items /\ r.step = step
  BY DEF ComposerInv, ComposerTypeOK, Sends
<1> HIDE DEF r
<1>2. sends' = (sends \ {s}) \cup {r} /\ accounted \subseteq accounted'
  BY DEF r
<1>3. ComposerTypeOK'
  BY <1>1, <1>2 DEF ComposerInv, ComposerTypeOK, content
<1>4. SendsCarry' /\ SavesCarry'
  BY <1>1, <1>2 DEF ComposerInv, SendsCarry, SavesCarry, Carries, content
<1>5. NothingTypedIsLost'
  BY <1>2 DEF ComposerInv, NothingTypedIsLost, content
<1>6. QED
  BY <1>3, <1>4, <1>5 DEF ComposerInv

\* What a send that succeeded wipes is accounted for.
LEMMA SendDoneKeeps ==
  ASSUME ComposerInv, NEW s \in sends, SendDone(s)
  PROVE  ComposerInv'
<1>1. ComposerTypeOK'
  BY DEF ComposerInv, ComposerTypeOK, SendDone, ghosts
<1>2. SendsCarry' /\ SavesCarry'
  BY DEF ComposerInv, SendsCarry, SavesCarry, Carries, SendDone, ghosts
<1>3. s.here => box \cup files \subseteq accounted
  BY DEF ComposerInv, SendsCarry, Carries, SendDone
<1>4. NothingTypedIsLost'
  BY <1>3 DEF ComposerInv, NothingTypedIsLost, SendDone, ghosts
<1>5. QED
  BY <1>1, <1>2, <1>4 DEF ComposerInv

LEMMA SendFailedKeeps ==
  ASSUME ComposerInv, NEW s \in sends, SendFailed(s)
  PROVE  ComposerInv'
<1>1. ComposerTypeOK'
  BY DEF ComposerInv, ComposerTypeOK, SendFailed, ghosts
<1>2. QED
  BY <1>1 DEF ComposerInv, SendsCarry, SavesCarry, Carries, NothingTypedIsLost,
              SendFailed, ghosts

\* The edit of a message: a draft that makes way is given up.
LEMMA DraftGoesKeeps ==
  ASSUME ComposerInv, NEW c \in Channels \cup {NoChannel},
         edit' = [of |-> c, words |-> {}],
         accounted' = accounted \cup edit.words,
         UNCHANGED <<channel, box, files, replyTo, runs, entered>>
  PROVE  ComposerInv'
<1>1. ComposerTypeOK'
  BY DEF ComposerInv, ComposerTypeOK, runs
<1>2. SendsCarry' /\ SavesCarry'
  BY DEF ComposerInv, SendsCarry, SavesCarry, Carries, runs
<1>3. NothingTypedIsLost'
  BY DEF ComposerInv, NothingTypedIsLost
<1>4. QED
  BY <1>1, <1>2, <1>3 DEF ComposerInv

LEMMA TypeEditKeeps ==
  ASSUME ComposerInv, NEW w \in Words, TypeEdit(w)
  PROVE  ComposerInv'
<1>1. edit'.words = edit.words \cup {w} /\ edit' \in [of : Channels \cup {NoChannel}, words : SUBSET Words]
  BY DEF ComposerInv, ComposerTypeOK, TypeEdit
<1>2. ComposerTypeOK'
  BY <1>1 DEF ComposerInv, ComposerTypeOK, TypeEdit, runs, Enter
<1>3. SendsCarry' /\ SavesCarry'
  BY <1>1 DEF ComposerInv, SendsCarry, SavesCarry, Carries, TypeEdit, runs, Enter
<1>4. NothingTypedIsLost'
  BY <1>1 DEF ComposerInv, NothingTypedIsLost, TypeEdit, Enter
<1>5. QED
  BY <1>2, <1>3, <1>4 DEF ComposerInv

LEMMA SaveEditKeeps ==
  ASSUME ComposerInv, SaveEdit
  PROVE  ComposerInv'
<1> DEFINE s == [id |-> asked.saves, items |-> edit.words, here |-> TRUE, step |-> "save"]
<1>1. s \in Saves /\ saves' = saves \cup {s}
  BY DEF ComposerInv, ComposerTypeOK, SaveEdit, Saves
<1>2. s.here /\ s.items = edit.words /\ s.step # "stored"
  OBVIOUS
<1> HIDE DEF s
<1>3. ComposerTypeOK'
  BY <1>1 DEF ComposerInv, ComposerTypeOK, SaveEdit, content
<1>4. SendsCarry' /\ SavesCarry'
  BY <1>1, <1>2 DEF ComposerInv, SendsCarry, SavesCarry, Carries, SaveEdit, content, ghosts
<1>5. NothingTypedIsLost'
  BY DEF ComposerInv, NothingTypedIsLost, SaveEdit, content, ghosts
<1>6. QED
  BY <1>3, <1>4, <1>5 DEF ComposerInv

LEMMA EditStoredKeeps ==
  ASSUME ComposerInv, NEW s \in saves, EditStored(s)
  PROVE  ComposerInv'
<1> DEFINE r == [s EXCEPT !.step = "stored"]
<1>1. r \in Saves /\ r.here = s.here /\ r.items = s.items
  BY DEF ComposerInv, ComposerTypeOK, Saves
<1> HIDE DEF r
<1>2. saves' = (saves \ {s}) \cup {r} /\ accounted' = accounted \cup s.items
  BY DEF r, EditStored
<1>3. ComposerTypeOK'
  BY <1>1, <1>2 DEF ComposerInv, ComposerTypeOK, EditStored, content
<1>4. SendsCarry' /\ SavesCarry'
  BY <1>1, <1>2 DEF ComposerInv, SendsCarry, SavesCarry, Carries, EditStored, content
<1>5. NothingTypedIsLost'
  BY <1>2 DEF ComposerInv, NothingTypedIsLost, EditStored, content
<1>6. QED
  BY <1>3, <1>4, <1>5 DEF ComposerInv

LEMMA EditDoneKeeps ==
  ASSUME ComposerInv, NEW s \in saves, EditDone(s)
  PROVE  ComposerInv'
<1>1. ComposerTypeOK'
  BY DEF ComposerInv, ComposerTypeOK, EditDone, ghosts, NoEdit
<1>2. SendsCarry' /\ SavesCarry'
  BY DEF ComposerInv, SendsCarry, SavesCarry, Carries, EditDone, ghosts, NoEdit
<1>3. s.here => edit.words \subseteq accounted
  BY DEF ComposerInv, SavesCarry, Carries, EditDone
<1>4. NothingTypedIsLost'
  BY <1>3 DEF ComposerInv, NothingTypedIsLost, EditDone, ghosts, NoEdit
<1>5. QED
  BY <1>1, <1>2, <1>4 DEF ComposerInv

LEMMA EditFailedKeeps ==
  ASSUME ComposerInv, NEW s \in saves, EditFailed(s)
  PROVE  ComposerInv'
<1>1. ComposerTypeOK'
  BY DEF ComposerInv, ComposerTypeOK, EditFailed, content
<1>2. QED
  BY <1>1 DEF ComposerInv, SendsCarry, SavesCarry, Carries, NothingTypedIsLost,
              EditFailed, content, ghosts

\* For any number of channels, words, files and requests: what the user has
\* entered is in the composer, in the draft of the edit, with the backend or
\* given up, whatever is sent twice, fails or is overtaken by a change of
\* channel.
THEOREM TypedIsKept == ComposerSpec => []NothingTypedIsLost
<1>1. ComposerInit => ComposerInv
  BY ComposerInvInit
<1>2. ComposerInv /\ [ComposerNext]_composerVars => ComposerInv'
  <2> SUFFICES ASSUME ComposerInv, [ComposerNext]_composerVars PROVE ComposerInv'
    OBVIOUS
  <2> USE DEF ComposerInv, ComposerTypeOK
  <2>1. CASE \E w \in Words : TypeWord(w)
    BY <2>1, TypeWordKeeps
  <2>2. CASE \E f \in Files : PasteOrDrop(f) \/ PickFile(f)
    BY <2>2, AttachKeeps DEF PasteOrDrop, PickFile
  <2>3. CASE \E f \in Files : RemoveFile(f)
    BY <2>3, RemoveFileKeeps
  <2>4. CASE EraseBox
    BY <2>4, EraseBoxKeeps
  <2>5. CASE Reply \/ CancelReply
    BY <2>5, MovingKeeps DEF Reply, CancelReply, Answer, Shown
  <2>6. CASE \E c \in Channels : SwitchChannel(c) \/ OpenView(c)
    BY <2>6, MovingKeeps DEF SwitchChannel, OpenView, content
  <2>7. CASE LeaveView
    BY <2>7, LeaveViewKeeps
  <2>8. CASE PressEnter
    BY <2>8, PressEnterKeeps
  <2>9. CASE \E s \in sends : Uploaded(s)
    BY <2>9, SendMovesKeeps DEF Uploaded, ghosts
  <2>10. CASE \E s \in sends : SendStored(s)
    BY <2>10, SendMovesKeeps DEF SendStored
  <2>11. CASE \E s \in sends : SendDone(s)
    BY <2>11, SendDoneKeeps
  <2>12. CASE \E s \in sends : SendFailed(s)
    BY <2>12, SendFailedKeeps
  <2>13. CASE OpenEdit
    BY <2>13, DraftGoesKeeps DEF OpenEdit, Shown
  <2>14. CASE \E w \in Words : TypeEdit(w)
    BY <2>14, TypeEditKeeps
  <2>15. CASE CancelEdit
    BY <2>15, DraftGoesKeeps DEF CancelEdit, NoEdit
  <2>16. CASE SaveEdit
    BY <2>16, SaveEditKeeps
  <2>17. CASE \E s \in saves : EditStored(s)
    BY <2>17, EditStoredKeeps
  <2>18. CASE \E s \in saves : EditDone(s)
    BY <2>18, EditDoneKeeps
  <2>19. CASE \E s \in saves : EditFailed(s)
    BY <2>19, EditFailedKeeps
  <2>20. CASE UNCHANGED composerVars
    BY <2>20, MovingKeeps DEF composerVars, content
  <2>21. QED
    BY <2>1, <2>2, <2>3, <2>4, <2>5, <2>6, <2>7, <2>8, <2>9, <2>10, <2>11, <2>12,
       <2>13, <2>14, <2>15, <2>16, <2>17, <2>18, <2>19, <2>20 DEF ComposerNext
<1>3. ComposerInv => NothingTypedIsLost
  BY DEF ComposerInv
<1>4. QED
  BY <1>1, <1>2, <1>3, PTL DEF ComposerSpec

-----------------------------------------------------------------------------
(* The reactions.                                                            *)

ReactionInv == ReactionTypeOK /\ FieldsAgree

LEMMA EveryoneIsFinite == IsFiniteSet(Everyone)
  BY ReactionsAssumption, FS_AddElement DEF Everyone

\* A reaction that is built from its users is typed, and its fields agree.
LEMMA LoadedAgrees ==
  ASSUME NEW users \in SUBSET Everyone
  PROVE  /\ Loaded(users) \in [ids : SUBSET Everyone, count : Nat, has : BOOLEAN]
         /\ Loaded(users).count = Cardinality(Loaded(users).ids)
         /\ (Loaded(users).has <=> Me \in Loaded(users).ids)
<1>1. Cardinality(users) \in Nat
  BY EveryoneIsFinite, FS_Subset, FS_CardinalityType
<1>2. /\ Loaded(users).ids = users /\ Loaded(users).count = Cardinality(users)
      /\ Loaded(users).has = (Me \in users)
  BY DEF Loaded
<1>3. Loaded(users) \in [ids : SUBSET Everyone, count : Nat, has : BOOLEAN]
  BY <1>1 DEF Loaded
<1>4. QED
  BY <1>2, <1>3, Zenon

\* A flip adds or takes away the user, and one of the count.
LEMMA FlippedAgrees ==
  ASSUME ReactionInv
  PROVE  /\ Flipped \in [ids : SUBSET Everyone, count : Nat, has : BOOLEAN]
         /\ Flipped.count = Cardinality(Flipped.ids)
         /\ (Flipped.has <=> Me \in Flipped.ids)
<1>1. /\ shown \in [ids : SUBSET Everyone, count : Nat, has : BOOLEAN]
      /\ shown.count = Cardinality(shown.ids) /\ (shown.has <=> Me \in shown.ids)
  BY DEF ReactionInv, ReactionTypeOK, FieldsAgree
<1>2. IsFiniteSet(shown.ids) /\ Me \in Everyone
  BY <1>1, EveryoneIsFinite, FS_Subset DEF Everyone
<1>3. CASE shown.has
  <2>1. /\ IsFiniteSet(shown.ids \ {Me})
        /\ Cardinality(shown.ids \ {Me}) =
             IF Me \in shown.ids THEN Cardinality(shown.ids) - 1 ELSE Cardinality(shown.ids)
    BY <1>2, FS_RemoveElement, Zenon
  <2>2. Cardinality(shown.ids \ {Me}) = shown.count - 1
    BY <1>1, <1>3, <2>1
  <2>3. Cardinality(shown.ids \ {Me}) \in Nat
    BY <2>1, FS_CardinalityType, Zenon
  <2>4. Flipped = [ids |-> shown.ids \ {Me}, count |-> Cardinality(shown.ids \ {Me}),
                   has |-> FALSE]
    BY <1>3, <2>2 DEF Flipped
  <2>5. /\ Flipped.ids = shown.ids \ {Me} /\ Flipped.has = FALSE
        /\ Flipped.count = Cardinality(shown.ids \ {Me})
    BY <2>4
  <2>6. (Flipped.has <=> Me \in Flipped.ids)
    BY <2>5
  <2>7. Flipped \in [ids : SUBSET Everyone, count : Nat, has : BOOLEAN]
    BY <1>1, <2>3, <2>4
  <2>8. QED
    BY <2>5, <2>6, <2>7, Zenon
<1>4. CASE ~shown.has
  <2> Me \notin shown.ids
    BY <1>1, <1>4
  <2>1. Cardinality(shown.ids \cup {Me}) = Cardinality(shown.ids) + 1
    BY <1>2, FS_AddElement, Zenon
  <2>2. Cardinality(shown.ids \cup {Me}) = shown.count + 1
    BY <1>1, <2>1
  <2>3. Cardinality(shown.ids \cup {Me}) \in Nat
    BY <1>1, <2>2
  <2>4. Flipped = [ids |-> shown.ids \cup {Me}, count |-> Cardinality(shown.ids \cup {Me}),
                   has |-> TRUE]
    BY <1>4, <2>2 DEF Flipped
  <2>5. QED
    BY <1>1, <1>2, <2>3, <2>4
<1>5. QED
  BY <1>1, <1>3, <1>4

LEMMA ReactionInvInit == ASSUME ReactionInit PROVE ReactionInv
<1>1. reactors \subseteq Everyone /\ shown = Loaded(reactors)
  BY DEF ReactionInit, ReactionInitAfter
<1>2. QED
  BY <1>1, LoadedAgrees, ReactionsAssumption
  DEF ReactionInit, ReactionInitAfter, ReactionInv, ReactionTypeOK, FieldsAgree

\* What the backend announces is typed.
LEMMA AnnounceType ==
  ASSUME ReactionTypeOK, NEW u \in Everyone, NEW call \in 0 .. MaxClicks,
         NEW modes \in {<<"add">>, <<"remove">>, <<"add", "remove">>},
         Announce(u, modes, call)
  PROVE  /\ news' \subseteq [mode : {"add", "remove"}, user : Everyone, at : Nat,
                            call : 0 .. MaxClicks]
         /\ settled' \in [sent : Nat, seen : [Everyone -> Nat]]
<1>1. DOMAIN modes \in {1 .. 1, 1 .. 2} /\ \A i \in DOMAIN modes : modes[i] \in {"add", "remove"}
  OBVIOUS
<1>2. Cardinality(DOMAIN modes) \in Nat
  <2> 1 \in Int /\ 2 \in Int
    OBVIOUS
  <2>1. IsFiniteSet(1 .. 1) /\ IsFiniteSet(1 .. 2)
    BY FS_Interval, Zenon
  <2>2. Cardinality(1 .. 1) \in Nat /\ Cardinality(1 .. 2) \in Nat
    BY <2>1, FS_CardinalityType, Zenon
  <2>3. QED
    BY <1>1, <2>2, Zenon
<1>3. QED
  BY <1>1, <1>2 DEF Announce, ReactionTypeOK

LEMMA ToggleType ==
  ASSUME ReactionTypeOK, NEW u \in Everyone, NEW call \in 0 .. MaxClicks,
         Toggle(u, call) \/ TakeBack(u, call)
  PROVE  /\ reactors' \subseteq Everyone
         /\ news' \subseteq [mode : {"add", "remove"}, user : Everyone, at : Nat,
                            call : 0 .. MaxClicks]
         /\ settled' \in [sent : Nat, seen : [Everyone -> Nat]]
<1>1. reactors' \subseteq Everyone
  BY DEF Toggle, TakeBack, ReactionTypeOK
<1>2. \E modes \in {<<"add">>, <<"remove">>, <<"add", "remove">>} : Announce(u, modes, call)
  BY DEF Toggle, TakeBack
<1>3. QED
  BY <1>1, <1>2, AnnounceType

LEMMA ClickKeeps == ASSUME ReactionInv, Click PROVE ReactionInv'
<1>1. Me \in Everyone /\ clicks' \in 1 .. MaxClicks
  BY ReactionsAssumption DEF Everyone, ReactionInv, ReactionTypeOK, Click
<1>2. clicks' \in 0 .. MaxClicks /\ (Toggle(Me, clicks') \/ TakeBack(Me, clicks'))
  BY <1>1 DEF Click
<1>3. /\ reactors' \subseteq Everyone
      /\ news' \subseteq [mode : {"add", "remove"}, user : Everyone, at : Nat,
                         call : 0 .. MaxClicks]
      /\ settled' \in [sent : Nat, seen : [Everyone -> Nat]]
  BY <1>1, <1>2, ToggleType DEF ReactionInv
<1>4. QED
  BY <1>1, <1>3 DEF ReactionInv, ReactionTypeOK, FieldsAgree, Click

LEMMA ReturnsKeeps ==
  ASSUME ReactionInv, NEW k \in calls, Returns(k)
  PROVE  ReactionInv'
<1>1. Me \in Everyone
  BY DEF Everyone
<1>2. ReactionTypeOK'
  BY <1>1, FlippedAgrees DEF ReactionInv, ReactionTypeOK, Returns
<1>3. FieldsAgree'
  BY FlippedAgrees DEF FieldsAgree, Returns
<1>4. QED
  BY <1>2, <1>3 DEF ReactionInv

LEMMA OtherTogglesKeeps ==
  ASSUME ReactionInv, NEW u \in Others, OtherToggles(u)
  PROVE  ReactionInv'
<1>1. u \in Everyone /\ 0 \in 0 .. MaxClicks
  BY ReactionsAssumption DEF Everyone
<1>2. /\ reactors' \subseteq Everyone
      /\ news' \subseteq [mode : {"add", "remove"}, user : Everyone, at : Nat,
                         call : 0 .. MaxClicks]
      /\ settled' \in [sent : Nat, seen : [Everyone -> Nat]]
  BY <1>1, ToggleType DEF ReactionInv, OtherToggles
<1>3. QED
  BY <1>2, ReactionsAssumption DEF ReactionInv, ReactionTypeOK, FieldsAgree, OtherToggles

LEMMA EventArrivesKeeps ==
  ASSUME ReactionInv, NEW e \in news, EventArrives(e)
  PROVE  ReactionInv'
<1>1. /\ e.user \in Everyone /\ e.at \in Nat
      /\ shown.ids \subseteq Everyone /\ settled \in [sent : Nat, seen : [Everyone -> Nat]]
  BY DEF ReactionInv, ReactionTypeOK
<1>2. PICK users \in SUBSET Everyone : shown' = Loaded(users)
  BY <1>1 DEF EventArrives, Delta
<1>3. settled' \in [sent : Nat, seen : [Everyone -> Nat]]
  BY <1>1 DEF EventArrives
<1>4. ReactionTypeOK'
  BY <1>1, <1>2, <1>3, LoadedAgrees DEF ReactionInv, ReactionTypeOK, EventArrives
<1>5. FieldsAgree'
  BY <1>2, LoadedAgrees DEF FieldsAgree
<1>6. QED
  BY <1>4, <1>5 DEF ReactionInv

LEMMA EventsAreLostKeeps == ASSUME ReactionInv, EventsAreLost PROVE ReactionInv'
<1>1. \A e \in news : e.user \in Everyone
  BY DEF ReactionInv, ReactionTypeOK
<1>2. QED
  BY <1>1, ReactionsAssumption DEF ReactionInv, ReactionTypeOK, FieldsAgree, EventsAreLost

LEMMA ReloadKeeps == ASSUME ReactionInv, Reload PROVE ReactionInv'
<1>1. reactors \in SUBSET Everyone /\ shown' = Loaded(reactors)
  BY DEF ReactionInv, ReactionTypeOK, Reload
<1>2. ReactionTypeOK'
  BY <1>1, LoadedAgrees, ReactionsAssumption DEF ReactionInv, ReactionTypeOK, Reload
<1>3. FieldsAgree'
  BY <1>1, LoadedAgrees DEF FieldsAgree
<1>4. QED
  BY <1>2, <1>3 DEF ReactionInv

\* The users, the count and the user's own mark of a reaction agree for any
\* number of users, and the count stays a natural number, although responses
\* flip what events set.
THEOREM ReactionFieldsAgree == ReactionSpec => [](ReactionTypeOK /\ FieldsAgree)
<1>1. ReactionInit => ReactionInv
  BY ReactionInvInit
<1>2. ReactionInv /\ [ReactionNext]_reactionVars => ReactionInv'
  <2>1. SUFFICES ASSUME ReactionInv, [ReactionNext]_reactionVars PROVE ReactionInv'
    OBVIOUS
  <2>2. CASE Click
    BY <2>1, <2>2, ClickKeeps
  <2>3. CASE \E k \in calls : Returns(k)
    BY <2>1, <2>3, ReturnsKeeps
  <2>4. CASE \E k \in calls : Fails(k)
    BY <2>1, <2>4 DEF ReactionInv, ReactionTypeOK, FieldsAgree, Fails
  <2>5. CASE \E u \in Others : OtherToggles(u)
    BY <2>1, <2>5, OtherTogglesKeeps
  <2>6. CASE \E e \in news : EventArrives(e)
    BY <2>1, <2>6, EventArrivesKeeps
  <2>7. CASE EventsAreLost
    BY <2>1, <2>7, EventsAreLostKeeps
  <2>8. CASE Reload
    BY <2>1, <2>8, ReloadKeeps
  <2>9. CASE UNCHANGED reactionVars
    BY <2>1, <2>9 DEF ReactionInv, ReactionTypeOK, FieldsAgree, reactionVars
  <2>10. QED
    BY <2>1, <2>2, <2>3, <2>4, <2>5, <2>6, <2>7, <2>8, <2>9 DEF ReactionNext
<1>3. ReactionInv => ReactionTypeOK /\ FieldsAgree
  BY DEF ReactionInv
<1>4. QED
  BY <1>1, <1>2, <1>3, PTL DEF ReactionSpec

-----------------------------------------------------------------------------
(* What is shown of everybody's reaction is what the backend has.            *)

\* Events are numbered as they are sent, and only clicks of the user have a
\* request that they belong to.
NewsInOrder ==
  /\ \A u \in Everyone : settled.seen[u] <= settled.sent
  /\ \A e \in news : /\ e.at <= settled.sent /\ e.at # settled.seen[e.user]
                     /\ e.call # 0 => e.user = Me
                     /\ \A f \in news : f.at = e.at => f = e

\* The newest event of a user, as long as it is not too late.
IsNewest(e) ==
  e.at > settled.seen[e.user] /\ \A f \in news : f.user = e.user => f.at <= e.at

\* It tells what the backend has.
NewestTells ==
  \A e \in news : IsNewest(e) => (e.mode = "add" <=> e.user \in reactors)

\* Of whom there is no event, and no doubt, the truth is shown.
QuietIsTrue ==
  \A u \in Everyone \ unsure :
     (\A e \in news : e.user # u) => (u \in shown.ids <=> u \in reactors)

TruthInv == ReactionInv /\ NewsInOrder /\ NewestTells /\ QuietIsTrue

\* An announcement adds one or two events of one user, newer than all others,
\* and the newest one has the last of the modes.
Announced(u, modes, call, n) ==
  /\ n \in DOMAIN modes /\ n = Len(modes)
  /\ settled'.sent = settled.sent + n /\ settled'.seen = settled.seen
  /\ news \subseteq news'
  /\ \A f \in news' : f \in news \/
       /\ f.user = u /\ f.call = call
       /\ f.at \in Int /\ settled.sent < f.at /\ f.at <= settled.sent + n
       /\ f.at = settled.sent + n => f.mode = modes[n]
       /\ \A g \in news' : f.at = g.at => g \in news \/ f = g
  /\ \E f \in news' : f.user = u /\ f.at = settled.sent + n

LEMMA AnnounceAdds ==
  ASSUME ReactionTypeOK, NEW u \in Everyone, NEW call \in 0 .. MaxClicks,
         NEW modes \in {<<"add">>, <<"remove">>, <<"add", "remove">>},
         Announce(u, modes, call)
  PROVE  \E n \in {1, 2} : Announced(u, modes, call, n)
<1> DEFINE E(i) == [mode |-> modes[i], user |-> u, at |-> settled.sent + i, call |-> call]
           n == Len(modes)
<1>1. n \in {1, 2} /\ DOMAIN modes = 1 .. n /\ n = Len(modes) /\ n \in DOMAIN modes
  OBVIOUS
<1>2. Cardinality(1 .. n) = n
  <2>1. 1 \in Int /\ n \in Int
    BY <1>1
  <2>2. Cardinality(1 .. n) = IF 1 > n THEN 0 ELSE n - 1 + 1
    BY <2>1, FS_Interval, Zenon
  <2>3. QED
    BY <1>1, <2>2
<1>3. settled.sent \in Nat
  BY DEF ReactionTypeOK
<1>4. news' = news \cup {E(i) : i \in 1 .. n}
  BY <1>1 DEF Announce
<1>5. settled'.sent = settled.sent + n /\ settled'.seen = settled.seen
  BY <1>1, <1>2 DEF Announce, ReactionTypeOK
<1>6. \A i \in 1 .. n : /\ E(i).user = u /\ E(i).call = call /\ E(i).at = settled.sent + i
                        /\ E(i).mode = modes[i]
  OBVIOUS
<1> HIDE DEF E, n
<1>7. \A f \in news' : f \in news \/
                /\ f.user = u /\ f.call = call
                /\ f.at \in Int /\ settled.sent < f.at /\ f.at <= settled.sent + n
                /\ f.at = settled.sent + n => f.mode = modes[n]
                /\ \A g \in news' : f.at = g.at => g \in news \/ f = g
  <2>1. SUFFICES ASSUME NEW i \in 1 .. n
        PROVE  LET f == E(i) IN
                /\ f.user = u /\ f.call = call
                /\ f.at \in Int /\ settled.sent < f.at /\ f.at <= settled.sent + n
                /\ f.at = settled.sent + n => f.mode = modes[n]
                /\ \A g \in news' : f.at = g.at => g \in news \/ f = g
    BY <1>4
  <2>2. \A j \in 1 .. n : E(i).at = E(j).at => i = j
    BY <1>1, <1>3, <1>6
  <2>3. \A g \in news' : E(i).at = g.at => g \in news \/ E(i) = g
    BY <2>2, <1>4
  <2>4. /\ E(i).at \in Int /\ settled.sent < E(i).at /\ E(i).at <= settled.sent + n
        /\ E(i).at = settled.sent + n => i = n
    <3>1. n \in Int /\ i \in Int /\ 1 <= i /\ i <= n /\ E(i).at = settled.sent + i
      BY <1>1, <1>6
    <3>2. QED
      BY <1>3, <3>1
  <2>5. QED
    BY <1>6, <2>3, <2>4
<1>8. E(n) \in news' /\ E(n).user = u /\ E(n).at = settled.sent + n
  BY <1>1, <1>4, <1>6
<1>9. QED
  <2>1. news \subseteq news' /\ \E f \in news' : f.user = u /\ f.at = settled.sent + n
    BY <1>4, <1>8
  <2>2. Announced(u, modes, call, n)
    BY <1>1, <1>5, <1>7, <2>1, Zenon DEF Announced
  <2>3. QED
    BY <1>1, <2>2

\* After the backend changed the reaction of u, its newest event tells so.
LEMMA AnnouncedIsTrue ==
  ASSUME TruthInv, NEW u \in Everyone, NEW call \in 0 .. MaxClicks, call # 0 => u = Me,
         NEW modes \in {<<"add">>, <<"remove">>, <<"add", "remove">>},
         Announce(u, modes, call),
         reactors' \ {u} = reactors \ {u}, u \in reactors' <=> modes[Len(modes)] = "add",
         UNCHANGED <<shown, unsure>>
  PROVE  NewsInOrder' /\ NewestTells' /\ QuietIsTrue'
<1>1. /\ ReactionTypeOK /\ NewsInOrder /\ NewestTells /\ QuietIsTrue
      /\ settled.sent \in Nat /\ settled.seen \in [Everyone -> Nat]
      /\ \A e \in news : e.at \in Nat /\ e.user \in Everyone
  BY DEF TruthInv, ReactionInv, ReactionTypeOK
<1>2a. PICK n \in {1, 2} : Announced(u, modes, call, n)
  BY <1>1, AnnounceAdds
<1>2. /\ n \in DOMAIN modes /\ n = Len(modes)
      /\ settled'.sent = settled.sent + n /\ settled'.seen = settled.seen
      /\ news \subseteq news'
      /\ \A f \in news' : f \in news \/
           /\ f.user = u /\ f.call = call
           /\ f.at \in Int /\ settled.sent < f.at /\ f.at <= settled.sent + n
           /\ f.at = settled.sent + n => f.mode = modes[n]
           /\ \A g \in news' : f.at = g.at => g \in news \/ f = g
      /\ \E f \in news' : f.user = u /\ f.at = settled.sent + n
  BY <1>2a DEF Announced
<1>3. NewsInOrder'
  <2>1. \A v \in Everyone : settled'.seen[v] <= settled'.sent
    BY <1>1, <1>2 DEF NewsInOrder
  <2>2. ASSUME NEW e \in news, NEW f \in news', f.at = e.at
        PROVE  f = e
    BY <1>1, <1>2, <2>2 DEF NewsInOrder
  <2>3. ASSUME NEW e \in news'
        PROVE  /\ e.at <= settled'.sent /\ e.at # settled'.seen[e.user]
               /\ e.call # 0 => e.user = Me
    <3>1. CASE e \in news
      BY <1>1, <1>2, <3>1 DEF NewsInOrder
    <3>2. CASE e \notin news
      BY <1>1, <1>2, <3>2 DEF NewsInOrder
    <3>3. QED
      BY <3>1, <3>2
  <2>4. ASSUME NEW e \in news', NEW f \in news', f.at = e.at
        PROVE  f = e
    BY <1>2, <2>2, <2>4
  <2>5. QED
    BY <2>1, <2>3, <2>4 DEF NewsInOrder
<1>4. NewestTells'
  <2>1. SUFFICES ASSUME NEW e \in news', IsNewest(e)'
                 PROVE  e.mode = "add" <=> e.user \in reactors'
    BY DEF NewestTells
  <2>2. CASE e.user = u
    <3>1. PICK f \in news' : f.user = u /\ f.at = settled.sent + n
      BY <1>2
    <3>2. settled.sent + n <= e.at
      BY <2>1, <2>2, <3>1 DEF IsNewest
    <3>3. e \notin news
      BY <1>1, <3>2 DEF NewsInOrder
    <3>4. e.at = settled.sent + n
      BY <1>1, <1>2, <3>2, <3>3
    <3>5. QED
      BY <1>2, <2>2, <3>3, <3>4
  <2>3. CASE e.user # u
    <3>1. e \in news /\ IsNewest(e)
      BY <1>2, <2>1, <2>3 DEF IsNewest
    <3>2. QED
      BY <1>1, <2>3, <3>1 DEF NewestTells
  <2>4. QED
    BY <2>2, <2>3
<1>5. QuietIsTrue'
  <2>1. SUFFICES ASSUME NEW v \in Everyone \ unsure', \A e \in news' : e.user # v
                 PROVE  v \in shown'.ids <=> v \in reactors'
    BY DEF QuietIsTrue
  <2>2. v # u /\ \A e \in news : e.user # v
    BY <1>2, <2>1
  <2>3. v \in shown.ids <=> v \in reactors
    BY <1>1, <2>1, <2>2 DEF QuietIsTrue
  <2>4. QED
    BY <2>2, <2>3
<1>6. QED
  BY <1>3, <1>4, <1>5

LEMMA ToggleIsTrue ==
  ASSUME TruthInv, NEW u \in Everyone, NEW call \in 0 .. MaxClicks, call # 0 => u = Me,
         Toggle(u, call) \/ TakeBack(u, call), UNCHANGED <<shown, unsure>>
  PROVE  NewsInOrder' /\ NewestTells' /\ QuietIsTrue'
<1>1. \E modes \in {<<"add">>, <<"remove">>, <<"add", "remove">>} :
        /\ Announce(u, modes, call) /\ reactors' \ {u} = reactors \ {u}
        /\ u \in reactors' <=> modes[Len(modes)] = "add"
  <2>1. CASE u \in reactors
    <3>1. /\ Announce(u, <<"remove">>, call) /\ reactors' \ {u} = reactors \ {u}
          /\ u \notin reactors'
      BY <2>1 DEF Toggle, TakeBack
    <3>2. QED
      BY <3>1
  <2>2. CASE u \notin reactors /\ Toggle(u, call)
    <3>1. /\ Announce(u, <<"add">>, call) /\ reactors' \ {u} = reactors \ {u}
          /\ u \in reactors'
      BY <2>2 DEF Toggle
    <3>2. QED
      BY <3>1
  <2>3. CASE u \notin reactors /\ TakeBack(u, call)
    <3>1. /\ Announce(u, <<"add", "remove">>, call) /\ reactors' \ {u} = reactors \ {u}
          /\ u \notin reactors'
      BY <2>3 DEF TakeBack
    <3>2. QED
      BY <3>1
  <2>4. QED
    BY <2>1, <2>2, <2>3
<1>2. QED
  BY <1>1, AnnouncedIsTrue

LEMMA ClickIsTrue == ASSUME TruthInv, Click PROVE TruthInv'
<1>1. Me \in Everyone /\ clicks' \in 0 .. MaxClicks
  BY ReactionsAssumption DEF Everyone, TruthInv, ReactionInv, ReactionTypeOK, Click
<1>2. NewsInOrder' /\ NewestTells' /\ QuietIsTrue'
  BY <1>1, ToggleIsTrue DEF Click
<1>3. QED
  BY <1>2, ClickKeeps DEF TruthInv

LEMMA OtherTogglesIsTrue ==
  ASSUME TruthInv, NEW u \in Others, OtherToggles(u)
  PROVE  TruthInv'
<1>1. u \in Everyone /\ 0 \in 0 .. MaxClicks
  BY ReactionsAssumption DEF Everyone
<1>2. NewsInOrder' /\ NewestTells' /\ QuietIsTrue'
  BY <1>1, ToggleIsTrue DEF OtherToggles
<1>3. QED
  BY <1>2, OtherTogglesKeeps DEF TruthInv

\* A response flips the user's reaction alone: its own event is still to come,
\* or the user becomes unsure.
LEMMA ReturnsIsTrue ==
  ASSUME TruthInv, NEW k \in calls, Returns(k)
  PROVE  TruthInv'
<1>1. ReactionInv /\ NewsInOrder /\ NewestTells /\ QuietIsTrue /\ k # 0
  BY DEF TruthInv, ReactionInv, ReactionTypeOK
<1>2. NewsInOrder' /\ NewestTells'
  BY <1>1 DEF Returns, NewsInOrder, NewestTells, IsNewest
<1>3. \A v \in Everyone \ {Me} : v \in shown'.ids <=> v \in shown.ids
  BY DEF Returns, Flipped
<1>4. (\A e \in news : e.user # Me) => Me \in unsure'
  BY <1>1 DEF Returns, NewsInOrder
<1>5. QuietIsTrue'
  BY <1>1, <1>3, <1>4 DEF Returns, QuietIsTrue
<1>6. QED
  BY <1>1, <1>2, <1>5, ReturnsKeeps DEF TruthInv

\* The last event of a user tells the truth, or came too late.
LEMMA EventArrivesIsTrue ==
  ASSUME TruthInv, NEW e \in news, EventArrives(e)
  PROVE  TruthInv'
<1>1. /\ ReactionInv /\ NewsInOrder /\ NewestTells /\ QuietIsTrue
      /\ settled.sent \in Nat /\ settled.seen \in [Everyone -> Nat]
      /\ \A f \in news : f.at \in Nat /\ f.user \in Everyone /\ f.mode \in {"add", "remove"}
      /\ settled \in [sent : Nat, seen : [Everyone -> Nat]]
  BY DEF TruthInv, ReactionInv, ReactionTypeOK
<1>2. /\ news' = news \ {e} /\ settled'.sent = settled.sent
      /\ \A v \in Everyone : settled'.seen[v] =
           IF v = e.user /\ settled.seen[v] < e.at THEN e.at ELSE settled.seen[v]
  BY <1>1 DEF EventArrives
<1>3. /\ \A v \in Everyone \ {e.user} : v \in shown'.ids <=> v \in shown.ids
      /\ e.user \in shown'.ids <=> e.mode = "add"
  BY <1>1 DEF EventArrives, Delta, Loaded
<1>4. NewsInOrder'
  BY <1>1, <1>2 DEF NewsInOrder
<1>5. NewestTells'
  <2>1. SUFFICES ASSUME NEW f \in news', IsNewest(f)'
                 PROVE  f.mode = "add" <=> f.user \in reactors
    BY DEF NewestTells, EventArrives
  <2>2. IsNewest(f)
    BY <1>1, <1>2, <2>1 DEF IsNewest, NewsInOrder
  <2>3. QED
    BY <1>1, <1>2, <2>2 DEF NewestTells
<1>6. QuietIsTrue'
  <2>1. SUFFICES ASSUME NEW v \in Everyone \ unsure', \A f \in news' : f.user # v
                 PROVE  v \in shown'.ids <=> v \in reactors
    BY DEF QuietIsTrue, EventArrives
  <2>2. CASE v = e.user
    <3>1. e.at > settled.seen[v]
      BY <1>1, <2>1, <2>2 DEF EventArrives, NewsInOrder
    <3>2. IsNewest(e)
      BY <1>1, <1>2, <2>1, <2>2, <3>1 DEF IsNewest
    <3>3. QED
      BY <1>1, <1>3, <2>2, <3>2 DEF NewestTells
  <2>3. CASE v # e.user
    <3>1. v \notin unsure /\ \A f \in news : f.user # v
      BY <1>2, <2>1, <2>3 DEF EventArrives
    <3>2. QED
      BY <1>1, <1>3, <2>3, <3>1 DEF QuietIsTrue
  <2>4. QED
    BY <2>2, <2>3
<1>7. QED
  BY <1>1, <1>4, <1>5, <1>6, EventArrivesKeeps DEF TruthInv

LEMMA EventsAreLostIsTrue == ASSUME TruthInv, EventsAreLost PROVE TruthInv'
<1>1. NewsInOrder' /\ NewestTells' /\ QuietIsTrue'
  BY DEF TruthInv, EventsAreLost, NewsInOrder, NewestTells, QuietIsTrue
<1>2. QED
  BY <1>1, EventsAreLostKeeps DEF TruthInv

LEMMA ReloadIsTrue == ASSUME TruthInv, Reload PROVE TruthInv'
<1>1. NewsInOrder' /\ NewestTells' /\ QuietIsTrue'
  BY DEF TruthInv, Reload, NewsInOrder, NewestTells, QuietIsTrue, Loaded
<1>2. QED
  BY <1>1, ReloadKeeps DEF TruthInv

\* For any number of users, clicks and changes, and in whatever order the
\* responses and the events of two topics come: once nothing is on its way,
\* everybody's reaction is shown as the backend has it, but for the users
\* whose news was lost or overtaken.
THEOREM ReactionsAreTrue == ReactionSpec => []ShownIsTrue
<1>1. ReactionInit => TruthInv
  <2>1. SUFFICES ASSUME ReactionInit PROVE TruthInv
    OBVIOUS
  <2>2. /\ news = {} /\ shown.ids = reactors
        /\ settled.sent = 0 /\ \A u \in Everyone : settled.seen[u] = 0
    BY <2>1 DEF ReactionInit, ReactionInitAfter, Loaded
  <2>3. NewsInOrder /\ NewestTells /\ QuietIsTrue
    BY <2>2 DEF NewsInOrder, NewestTells, QuietIsTrue
  <2>4. QED
    BY <2>1, <2>3, ReactionInvInit DEF TruthInv
<1>2. TruthInv /\ [ReactionNext]_reactionVars => TruthInv'
  <2>1. SUFFICES ASSUME TruthInv, [ReactionNext]_reactionVars PROVE TruthInv'
    OBVIOUS
  <2>2. CASE Click
    BY <2>1, <2>2, ClickIsTrue
  <2>3. CASE \E k \in calls : Returns(k)
    BY <2>1, <2>3, ReturnsIsTrue
  <2>4. CASE \/ \E k \in calls : Fails(k)
             \/ UNCHANGED reactionVars
    <3>1. UNCHANGED <<reactors, shown, news, settled, unsure, clicks, changes>>
      BY <2>4 DEF Fails, reactionVars
    <3>2. calls' \subseteq calls
      BY <2>4 DEF Fails, reactionVars
    <3>3. ReactionInv'
      BY <2>1, <3>1, <3>2 DEF TruthInv, ReactionInv, ReactionTypeOK, FieldsAgree
    <3>4. QED
      BY <2>1, <3>1, <3>3 DEF TruthInv, NewsInOrder, NewestTells, IsNewest, QuietIsTrue
  <2>5. CASE \E u \in Others : OtherToggles(u)
    BY <2>1, <2>5, OtherTogglesIsTrue
  <2>6. CASE \E e \in news : EventArrives(e)
    BY <2>1, <2>6, EventArrivesIsTrue
  <2>7. CASE EventsAreLost
    BY <2>1, <2>7, EventsAreLostIsTrue
  <2>8. CASE Reload
    BY <2>1, <2>8, ReloadIsTrue
  <2>9. QED
    BY <2>1, <2>2, <2>3, <2>4, <2>5, <2>6, <2>7, <2>8 DEF ReactionNext
<1>3. TruthInv => ShownIsTrue
  BY DEF TruthInv, QuietIsTrue, ShownIsTrue
<1>4. QED
  BY <1>1, <1>2, <1>3, PTL DEF ReactionSpec

-----------------------------------------------------------------------------
(* The list of messages.  First, numbers in their order.                     *)

LEMMA LeastNumber ==
  ASSUME NEW S \in SUBSET Nat, S # {}
  PROVE  \E x \in S : \A y \in S : x <= y
<1>1. PICK x \in S : \A y \in S : ~(<<y, x>> \in OpToRel(<, Nat))
  BY WFMin, NatLessThanWellFounded
<1>2. \A y \in S : ~(y < x)
  BY <1>1 DEF OpToRel
<1>3. QED
  BY <1>2

UpTo(S, x) == {y \in S : y <= x}
Rank(S, x) == Cardinality(UpTo(S, x))

LEMMA RanksAre ==
  ASSUME NEW S \in SUBSET Nat, IsFiniteSet(S)
  PROVE  /\ \A x \in S : IsFiniteSet(UpTo(S, x)) /\ Rank(S, x) \in 1 .. Cardinality(S)
         /\ \A x, y \in S : x < y => Rank(S, x) < Rank(S, y)
<1>0. \A x \in S : x \in Nat
  OBVIOUS
<1>1. ASSUME NEW x \in S PROVE IsFiniteSet(UpTo(S, x)) /\ Rank(S, x) \in 1 .. Cardinality(S)
  <2>1. UpTo(S, x) \in SUBSET S /\ x \in UpTo(S, x)
    BY DEF UpTo
  <2>2. IsFiniteSet(UpTo(S, x)) /\ Rank(S, x) <= Cardinality(S)
    BY <2>1, FS_Subset DEF Rank
  <2>3. Cardinality(S) \in Nat /\ Rank(S, x) \in Nat /\ Rank(S, x) # 0
    BY <2>1, <2>2, FS_CardinalityType, FS_EmptySet DEF Rank
  <2>4. QED
    BY <2>2, <2>3
<1>2. ASSUME NEW x \in S, NEW y \in S, x < y PROVE Rank(S, x) < Rank(S, y)
  <2>1. y \notin UpTo(S, x) /\ UpTo(S, x) \cup {y} \in SUBSET UpTo(S, y)
    <3>1. y \notin UpTo(S, x)
      BY <1>0, <1>2 DEF UpTo
    <3>2. \A z \in UpTo(S, x) \cup {y} : z \in UpTo(S, y)
      BY <1>0, <1>2 DEF UpTo
    <3>3. QED
      BY <3>1, <3>2
  <2>2. Cardinality(UpTo(S, x) \cup {y}) = Rank(S, x) + 1
    BY <1>1, <2>1, FS_AddElement DEF Rank
  <2>3. Cardinality(UpTo(S, x) \cup {y}) <= Rank(S, y)
    BY <1>1, <2>1, FS_Subset DEF Rank
  <2>4. QED
    BY <1>1, <2>2, <2>3
<1>3. QED
  BY <1>1, <1>2

\* The least element has rank 1, and the least one above a rank has the next.
LEMMA RanksAreAll ==
  ASSUME NEW S \in SUBSET Nat, IsFiniteSet(S), NEW k \in 1 .. Cardinality(S)
  PROVE  \E x \in S : Rank(S, x) = k
<1> DEFINE None == {j \in Nat : j \in 1 .. Cardinality(S) /\ \A x \in S : Rank(S, x) # j}
<1>0. Cardinality(S) \in Nat /\ \A x \in S : x \in Nat
  BY FS_CardinalityType
<1>1. SUFFICES ASSUME None # {} PROVE FALSE
  BY <1>0
<1>2. None \in SUBSET Nat
  OBVIOUS
<1> HIDE DEF None
<1>3. PICK j \in None : \A i \in None : j <= i
  BY <1>1, <1>2, LeastNumber
<1>4. j \in 1 .. Cardinality(S) /\ \A x \in S : Rank(S, x) # j
  BY <1>3 DEF None
<1>5. \E T \in SUBSET S :
        T # {} /\ \A x \in T : (\A y \in T : x <= y) => Rank(S, x) = j
  <2>1. CASE j = 1
    <3>1. S # {}
      BY <1>0, <1>4, FS_EmptySet
    <3>2. ASSUME NEW x \in S, \A y \in S : x <= y PROVE Rank(S, x) = 1
      <4>1. \A z \in S : z <= x <=> z = x
        BY <1>0, <3>2
      <4>2. UpTo(S, x) = {x}
        BY <4>1 DEF UpTo
      <4>3. QED
        BY <4>2, FS_Singleton DEF Rank
    <3>3. QED
      BY <2>1, <3>1, <3>2
  <2>2. CASE j # 1
    <3>1. j - 1 \in Nat /\ j - 1 \in 1 .. Cardinality(S) /\ j - 1 \notin None
      BY <1>0, <1>2, <1>3, <1>4, <2>2
    <3>2. PICK x \in S : Rank(S, x) = j - 1
      BY <3>1 DEF None
    <3> DEFINE T == {y \in S : y > x}
    <3>3. T # {}
      <4>1. SUFFICES ASSUME T = {} PROVE FALSE
        OBVIOUS
      <4>2. \A z \in S : z <= x
        BY <1>0, <4>1
      <4>3. UpTo(S, x) = S
        BY <4>2 DEF UpTo
      <4>4. QED
        BY <1>0, <1>4, <3>2, <4>3 DEF Rank
    <3>4. ASSUME NEW y \in T, \A z \in T : y <= z PROVE Rank(S, y) = j
      <4>1. \A z \in S : z <= y <=> z <= x \/ z = y
        BY <1>0, <3>4
      <4>2. \A z : z \in UpTo(S, y) <=> z \in UpTo(S, x) \/ z = y
        BY <4>1 DEF UpTo
      <4>3. UpTo(S, y) = UpTo(S, x) \cup {y}
        BY <4>2
      <4>4. y \notin UpTo(S, x)
        BY <1>0 DEF UpTo
      <4>5. QED
        BY <1>4, <3>2, <4>3, <4>4, FS_AddElement, RanksAre DEF Rank
    <3>5. QED
      BY <3>3, <3>4
  <2>3. QED
    BY <2>1, <2>2
<1>6. QED
  BY <1>4, <1>5, LeastNumber

LEMMA NthIs ==
  ASSUME NEW S \in SUBSET Nat, IsFiniteSet(S)
  PROVE  /\ Cardinality(S) \in Nat
         /\ \A k \in 1 .. Cardinality(S) : Nth(S, k) \in S /\ Rank(S, Nth(S, k)) = k
         /\ \A x \in S : Rank(S, x) \in 1 .. Cardinality(S) /\ Nth(S, Rank(S, x)) = x
<1>1. Cardinality(S) \in Nat /\ \A x \in S : x \in Nat
  BY FS_CardinalityType
<1>2. \A k \in 1 .. Cardinality(S) : Nth(S, k) \in S /\ Rank(S, Nth(S, k)) = k
  BY RanksAreAll DEF Nth, Rank, UpTo
<1>3. ASSUME NEW x \in S PROVE Rank(S, x) \in 1 .. Cardinality(S) /\ Nth(S, Rank(S, x)) = x
  <2>1. Rank(S, x) \in 1 .. Cardinality(S)
    BY RanksAre
  <2> DEFINE y == Nth(S, Rank(S, x))
  <2>2. y \in S /\ Rank(S, y) = Rank(S, x)
    BY <1>2, <2>1
  <2> HIDE DEF y
  <2>3. ~(x < y) /\ ~(y < x)
    <3>1. ~(Rank(S, x) < Rank(S, y)) /\ ~(Rank(S, y) < Rank(S, x))
      BY <1>1, <2>1, <2>2
    <3>2. QED
      BY <2>2, <3>1, RanksAre
  <2>4. y = x
    BY <1>1, <2>2, <2>3
  <2>5. QED
    BY <2>1, <2>4 DEF y
<1>4. QED
  BY <1>1, <1>2, <1>3

Once(s) == \A i, j \in DOMAIN s : s[i] = s[j] => i = j

LEMMA InOrderIs ==
  ASSUME NEW S \in SUBSET Nat, IsFiniteSet(S)
  PROVE  LET s == InOrder(S)
         IN  /\ s \in Seq(S) /\ Len(s) = Cardinality(S) /\ Once(s)
             /\ \A x : Contains(s, x) <=> x \in S
             /\ Len(s) # 0 => \A x \in S : s[1] <= x
<1> DEFINE s == InOrder(S)
<1>1. /\ Cardinality(S) \in Nat /\ DOMAIN s = 1 .. Cardinality(S)
      /\ \A k \in 1 .. Cardinality(S) : s[k] = Nth(S, k) /\ s[k] \in S
  BY NthIs DEF InOrder
<1>2. s = [k \in 1 .. Cardinality(S) |-> Nth(S, k)]
  BY DEF InOrder
<1>3. s \in Seq(S) /\ Len(s) = Cardinality(S)
  <2>1. s \in [1 .. Cardinality(S) -> S]
    BY <1>1, <1>2
  <2> HIDE DEF s
  <2>2. QED
    BY <1>1, <2>1
<1> HIDE DEF s
<1>4. Once(s)
  BY <1>1, NthIs DEF Once
<1>5. \A x : Contains(s, x) <=> x \in S
  <2>1. ASSUME NEW x, Contains(s, x) PROVE x \in S
    BY <1>1, <1>3, <2>1 DEF Contains
  <2>2. ASSUME NEW x \in S PROVE Contains(s, x)
    <3>1. Rank(S, x) \in 1 .. Cardinality(S) /\ Nth(S, Rank(S, x)) = x
      BY NthIs
    <3>2. s[Rank(S, x)] = x
      BY <1>1, <3>1
    <3>3. QED
      BY <1>3, <3>1, <3>2 DEF Contains
  <2>3. QED
    BY <2>1, <2>2
<1>6. ASSUME Len(s) # 0, NEW x \in S PROVE s[1] <= x
  <2>1. s[1] \in S /\ Rank(S, s[1]) = 1
    BY <1>1, <1>3, <1>6, NthIs
  <2>2. ~(x < s[1])
    <3>1. Rank(S, x) \in 1 .. Cardinality(S)
      BY NthIs
    <3>2. ~(Rank(S, x) < Rank(S, s[1]))
      BY <2>1, <3>1
    <3>3. QED
      BY <2>1, <3>2, RanksAre
  <2>3. x \in Nat /\ s[1] \in Nat
    BY <2>1
  <2>4. QED
    BY <2>2, <2>3
<1>7. QED
  BY <1>3, <1>4, <1>5, <1>6 DEF s

\* What is picked of a sequence: the same, from different places.
LEMMA PickedIs ==
  ASSUME NEW T, NEW s \in Seq(T), NEW places \in SUBSET (DOMAIN s)
  PROVE  LET r == Picked(s, places)
         IN  /\ r \in Seq(T)
             /\ \A x : Contains(r, x) <=> \E i \in places : s[i] = x
             /\ \A i, j \in DOMAIN r : r[i] = r[j] /\ i # j =>
                  \E p, q \in places : p # q /\ s[p] = s[q] /\ s[p] = r[i]
<1> DEFINE r == Picked(s, places)
           n == Cardinality(places)
<1>1. places \in SUBSET Nat /\ IsFiniteSet(places)
  BY FS_Interval, FS_Subset
<1>2. /\ n \in Nat
      /\ \A k \in 1 .. n : Nth(places, k) \in places /\ Rank(places, Nth(places, k)) = k
      /\ \A x \in places : Rank(places, x) \in 1 .. n /\ Nth(places, Rank(places, x)) = x
  BY <1>1, NthIs
<1>3. r = [k \in 1 .. n |-> s[Nth(places, k)]]
  BY DEF Picked
<1> HIDE DEF r, n
<1>4. r \in Seq(T) /\ Len(r) = n /\ DOMAIN r = 1 .. n
  <2>1. r \in [1 .. n -> T]
    BY <1>2, <1>3
  <2>2. QED
    BY <1>2, <2>1
<1>5. \A x : Contains(r, x) <=> \E i \in places : s[i] = x
  <2>1. ASSUME NEW x, Contains(r, x) PROVE \E i \in places : s[i] = x
    BY <1>2, <1>3, <1>4, <2>1 DEF Contains
  <2>2. ASSUME NEW i \in places PROVE Contains(r, s[i])
    <3>1. r[Rank(places, i)] = s[i] /\ Rank(places, i) \in 1 .. Len(r)
      BY <1>2, <1>3, <1>4
    <3>2. QED
      BY <3>1 DEF Contains
  <2>3. QED
    BY <2>1, <2>2
<1>6. ASSUME NEW i \in DOMAIN r, NEW j \in DOMAIN r, r[i] = r[j], i # j
      PROVE  \E p, q \in places : p # q /\ s[p] = s[q] /\ s[p] = r[i]
  <2>1. Nth(places, i) # Nth(places, j)
    BY <1>2, <1>4, <1>6
  <2>2. r[i] = s[Nth(places, i)] /\ r[j] = s[Nth(places, j)]
    BY <1>3, <1>4
  <2>3. QED
    BY <1>2, <1>4, <1>6, <2>1, <2>2
<1>7. QED
  BY <1>4, <1>5, <1>6 DEF r

LEMMA WithoutIs ==
  ASSUME NEW T, NEW s \in Seq(T), NEW m, NEW M,
         \A i, j \in DOMAIN s : s[i] = s[j] => i = j \/ s[i] \in M
  PROVE  LET r == Without(s, m)
         IN  /\ r \in Seq(T)
             /\ \A x : Contains(r, x) <=> Contains(s, x) /\ x # m
             /\ \A i, j \in DOMAIN r : r[i] = r[j] => i = j \/ r[i] \in M
<1> DEFINE r == Without(s, m)
           places == {i \in DOMAIN s : s[i] # m}
<1>0. r = Picked(s, places) /\ places \in SUBSET (DOMAIN s) /\ DOMAIN s = 1 .. Len(s)
  BY DEF Without
<1> HIDE DEF r
<1>1. /\ r \in Seq(T)
      /\ \A x : Contains(r, x) <=> \E i \in places : s[i] = x
      /\ \A i, j \in DOMAIN r : r[i] = r[j] /\ i # j =>
           \E p, q \in places : p # q /\ s[p] = s[q] /\ s[p] = r[i]
  <2> HIDE DEF places
  <2>1. QED
    BY <1>0, PickedIs
<1>2. \A x : Contains(r, x) <=> Contains(s, x) /\ x # m
  <2>1. \A x : Contains(s, x) <=> \E i \in DOMAIN s : s[i] = x
    BY <1>0 DEF Contains
  <2>2. QED
    BY <1>1, <2>1
<1>3. \A i, j \in DOMAIN r : r[i] = r[j] => i = j \/ r[i] \in M
  BY <1>1
<1>4. QED
  BY <1>1, <1>2, <1>3 DEF r

LEMMA DedupedIs ==
  ASSUME NEW T, NEW s \in Seq(T)
  PROVE  LET r == Deduped(s)
         IN  r \in Seq(T) /\ Once(r) /\ \A x : Contains(r, x) <=> Contains(s, x)
<1> DEFINE r == Deduped(s)
           places == {i \in DOMAIN s : \A j \in 1 .. i - 1 : s[j] # s[i]}
<1>0. /\ r = Picked(s, places) /\ places \in SUBSET (DOMAIN s)
      /\ DOMAIN s = 1 .. Len(s) /\ Len(s) \in Nat
  BY DEF Deduped
<1> HIDE DEF r
<1>1. /\ r \in Seq(T)
      /\ \A x : Contains(r, x) <=> \E i \in places : s[i] = x
      /\ \A i, j \in DOMAIN r : r[i] = r[j] /\ i # j =>
           \E p, q \in places : p # q /\ s[p] = s[q] /\ s[p] = r[i]
  <2> HIDE DEF places
  <2>1. QED
    BY <1>0, PickedIs
<1>2. \A p, q \in places : s[p] = s[q] => p = q
  <2> SUFFICES ASSUME NEW p \in places, NEW q \in places, s[p] = s[q], p # q PROVE FALSE
    OBVIOUS
  <2>1. p \in 1 .. Len(s) /\ q \in 1 .. Len(s)
    BY <1>0
  <2>2. CASE p < q
    <3>1. p \in 1 .. q - 1
      BY <2>1, <2>2
    <3>2. QED
      BY <3>1
  <2>3. CASE q < p
    <3>1. q \in 1 .. p - 1
      BY <2>1, <2>3
    <3>2. QED
      BY <3>1
  <2>4. QED
    BY <2>1, <2>2, <2>3
<1>3. Once(r)
  BY <1>1, <1>2 DEF Once
<1>4. ASSUME NEW x, Contains(s, x) PROVE \E i \in places : s[i] = x
  <2> DEFINE at == {i \in Nat : i \in 1 .. Len(s) /\ s[i] = x}
  <2>1. at # {} /\ at \in SUBSET Nat
    BY <1>0, <1>4 DEF Contains
  <2>2. PICK i \in at : \A j \in at : i <= j
    BY <2>1, LeastNumber
  <2>3. ASSUME NEW j \in 1 .. i - 1 PROVE s[j] # s[i]
    <3>1. j \in Nat /\ j \in 1 .. Len(s) /\ ~(i <= j)
      BY <1>0, <2>2
    <3>2. QED
      BY <2>2, <3>1
  <2>4. QED
    BY <1>0, <2>2, <2>3
<1>5. \A x : Contains(r, x) <=> Contains(s, x)
  BY <1>0, <1>1, <1>4 DEF Contains
<1>6. QED
  BY <1>1, <1>3, <1>5 DEF r

LEMMA AliveIs ==
  ASSUME created \in Nat
  PROVE  /\ Alive \in SUBSET Nat /\ IsFiniteSet(Alive) /\ \A m \in Alive : m \in 1 .. created
         /\ \A m : IsFiniteSet(Newer(m)) /\ Cardinality(Newer(m)) \in Nat
<1>1. Alive \in SUBSET (1 .. created) /\ IsFiniteSet(1 .. created)
  BY FS_Interval DEF Alive
<1>2. IsFiniteSet(Alive)
  BY <1>1, FS_Subset
<1>3. \A m : Newer(m) \in SUBSET Alive
  BY DEF Newer
<1>4. \A m : IsFiniteSet(Newer(m)) /\ Cardinality(Newer(m)) \in Nat
  BY <1>2, <1>3, FS_Subset, FS_CardinalityType
<1>5. QED
  BY <1>1, <1>2, <1>4

LEMMA PageIs ==
  ASSUME created \in Nat, NEW offset \in Nat
  PROVE  LET P == Page(offset)
         IN  /\ P \in Seq(Alive) /\ Once(P)
             /\ \A m : Contains(P, m) <=>
                  m \in Alive /\ Cardinality(Newer(m)) \in offset .. offset + PageSize - 1
             /\ Len(P) # 0 => \A m : Contains(P, m) => P[1] <= m
<1> DEFINE W == {m \in Alive : Cardinality(Newer(m)) \in offset .. offset + PageSize - 1}
           P == Page(offset)
<1>1. W \in SUBSET Nat /\ IsFiniteSet(W)
  BY AliveIs, FS_Subset
<1>2. P = InOrder(W)
  BY DEF Page
<1> HIDE DEF W
<1>3. /\ P \in Seq(W) /\ Once(P) /\ \A m : Contains(P, m) <=> m \in W
      /\ Len(P) # 0 => \A m \in W : P[1] <= m
  BY <1>1, <1>2, InOrderIs
<1> HIDE DEF P
<1>4. W \subseteq Alive
  BY DEF W
<1>5. P \in Seq(Alive)
  BY <1>3, <1>4
<1>6. QED
  BY <1>3, <1>5 DEF W, P

LEMMA PageLengthIs ==
  ASSUME created \in Nat, NEW offset \in Nat
  PROVE  Len(Page(offset)) =
           Cardinality({m \in Alive : Cardinality(Newer(m)) \in offset .. offset + PageSize - 1})
<1> DEFINE W == {m \in Alive : Cardinality(Newer(m)) \in offset .. offset + PageSize - 1}
<1>1. W \in SUBSET Nat /\ IsFiniteSet(W)
  BY AliveIs, FS_Subset
<1>2. Page(offset) = InOrder(W)
  BY DEF Page
<1> HIDE DEF W
<1>3. Len(Page(offset)) = Cardinality(W)
  BY <1>1, <1>2, InOrderIs
<1>4. QED
  BY <1>3 DEF W

\* The first page holds what is alive from its oldest message on, and when it
\* is not full, all that is alive.
Oldest(P) == IF Len(P) = PageSize THEN P[1] ELSE 1

LEMMA FirstPageIs ==
  ASSUME created \in Nat
  PROVE  LET P == Page(0)
         IN  /\ P \in Seq(Alive) /\ Once(P) /\ Oldest(P) \in Nat \ {0}
             /\ Len(P) = PageSize => Oldest(P) \in Alive
             /\ \A m : Contains(P, m) <=> m \in Alive /\ m >= Oldest(P)
<1> DEFINE P == Page(0)
           W == {m \in Alive : Cardinality(Newer(m)) \in 0 .. 0 + PageSize - 1}
<1>0. /\ PageSize \in Nat \ {0}
      /\ Alive \in SUBSET Nat /\ \A m \in Alive : m \in 1 .. created
      /\ \A m : IsFiniteSet(Newer(m)) /\ Cardinality(Newer(m)) \in Nat
  BY AliveIs, ChatAssumption
<1>1. /\ P \in Seq(Alive) /\ Once(P)
      /\ \A m : Contains(P, m) <=> m \in Alive /\ Cardinality(Newer(m)) \in 0 .. 0 + PageSize - 1
      /\ Len(P) # 0 => \A m : Contains(P, m) => P[1] <= m
  BY PageIs
<1>2. Len(P) = Cardinality(W) /\ IsFiniteSet(W)
  BY AliveIs, PageLengthIs, FS_Subset
<1> HIDE DEF P
<1>3. \A m : Contains(P, m) <=> m \in W
  BY <1>1
<1>4. Len(P) # 0 => P[1] \in W
  <2> SUFFICES ASSUME Len(P) # 0 PROVE Contains(P, P[1])
    BY <1>3
  <2>1. Len(P) \in Nat
    BY <1>1
  <2>2. 1 \in 1 .. Len(P)
    BY <2>1
  <2>3. QED
    BY <2>2 DEF Contains
<1>5. CASE Len(P) = PageSize
  <2>1. P[1] \in W /\ Oldest(P) = P[1] /\ P[1] \in Alive /\ P[1] \in 1 .. created
    BY <1>0, <1>4, <1>5 DEF Oldest
  <2>2. ASSUME NEW m \in Alive, m >= P[1] PROVE m \in W
    <3>1. Newer(m) \in SUBSET Newer(P[1])
      <4>1. \A x \in Alive : x > m => x > P[1]
        <5>1. m \in 1 .. created /\ P[1] \in 1 .. created
          BY <1>0, <2>1
        <5>2. \A x \in 1 .. created : x > m => x > P[1]
          BY <2>2, <5>1
        <5>3. QED
          BY <1>0, <5>2
      <4>2. QED
        BY <4>1 DEF Newer
    <3>2. Cardinality(Newer(m)) <= Cardinality(Newer(P[1]))
      BY <1>0, <3>1, FS_Subset
    <3>3. QED
      BY <1>0, <2>1, <3>2
  <2>3. \A m \in W : m >= P[1]
    <3>1. \A m \in W : P[1] <= m
      BY <1>0, <1>1, <1>3, <1>5
    <3>2. QED
      BY <1>0, <2>1, <3>1
  <2>4. Oldest(P) \in Nat \ {0}
    BY <2>1
  <2>5. QED
    BY <1>1, <1>3, <2>1, <2>2, <2>3, <2>4 DEF P
<1>6. CASE Len(P) # PageSize
  <2> DEFINE out == {m \in Alive : m \notin W}
  <2>1. out = {}
    <3> SUFFICES ASSUME out # {} PROVE FALSE
      OBVIOUS
    <3>1. PICK m \in out : \A x \in out : x <= m
      <4> DEFINE below == {created - x : x \in out}
      <4>1. below \in SUBSET Nat /\ below # {}
        <5>1. \A x \in out : x \in 1 .. created
          BY <1>0
        <5>2. \A x \in out : created - x \in Nat
          BY <5>1
        <5>3. QED
          BY <5>2
      <4>2. PICK b \in below : \A c \in below : b <= c
        BY <4>1, LeastNumber
      <4>3. PICK m \in out : b = created - m
        BY <4>2
      <4>4. ASSUME NEW x \in out PROVE x <= m
        <5>1. created - x \in below
          OBVIOUS
        <5>2. created - m <= created - x
          BY <4>2, <4>3, <5>1
        <5>3. QED
          BY <1>0, <5>2
      <4>5. QED
        BY <4>4
    <3>2. Newer(m) \in SUBSET W
      <4>1. \A x \in Alive : x > m => x \in W
        BY <1>0, <3>1
      <4>2. QED
        BY <4>1 DEF Newer
    <3>3. Cardinality(Newer(m)) <= Cardinality(W)
      BY <1>2, <3>2, FS_Subset
    <3>4. Cardinality(Newer(m)) >= PageSize
      BY <1>0
    <3>5. Cardinality(W) \in Nat /\ Cardinality(W) > PageSize
      BY <1>0, <1>2, <1>6, <3>3, <3>4, FS_CardinalityType
    <3>6. P[1] \in W /\ P[1] \in Nat
      <4>1. Len(P) # 0
        BY <1>0, <1>2, <3>5
      <4>2. QED
        BY <1>0, <1>4, <4>1
    <3>7. Cardinality(Newer(P[1])) < PageSize
      BY <1>0, <3>6
    <3>8. W \ {P[1]} \in SUBSET Newer(P[1])
      <4>1. \A x \in W : P[1] <= x
        BY <1>0, <1>1, <1>2, <1>3, <3>5
      <4>2. \A x \in W : x # P[1] => x > P[1]
        BY <1>0, <3>6, <4>1
      <4>3. QED
        BY <4>2 DEF Newer
    <3>9. Cardinality(W \ {P[1]}) <= Cardinality(Newer(P[1]))
      BY <1>0, <3>8, FS_Subset
    <3>10. Cardinality(W \ {P[1]}) = Cardinality(W) - 1
      BY <1>2, <3>6, FS_RemoveElement
    <3>11. QED
      BY <1>0, <3>5, <3>7, <3>9, <3>10
  <2>2. Oldest(P) = 1
    BY <1>6 DEF Oldest
  <2>3. \A m : Contains(P, m) <=> m \in Alive /\ m >= 1
    <3>1. \A m : Contains(P, m) <=> m \in Alive
      BY <1>3, <2>1
    <3>2. \A m \in Alive : m >= 1
      BY <1>0
    <3>3. QED
      BY <3>1, <3>2
  <2>4. QED
    BY <1>1, <1>6, <2>2, <2>3 DEF P
<1>7. QED
  BY <1>5, <1>6

\* While nothing is deleted, pages are intervals.
LEMMA WholePageIs ==
  ASSUME created \in Nat, deleted = {}, NEW offset \in Nat
  PROVE  LET P == Page(offset)
         IN  /\ Len(P) <= PageSize
             /\ \A m : Contains(P, m) <=>
                  /\ m \in 1 .. created
                  /\ m > created - offset - PageSize /\ m <= created - offset
<1> DEFINE W == {m \in Alive : Cardinality(Newer(m)) \in offset .. offset + PageSize - 1}
           I == created - offset - PageSize + 1 .. created - offset
<1>0. PageSize \in Nat \ {0} /\ Alive = 1 .. created
  BY ChatAssumption DEF Alive
<1>1. ASSUME NEW m \in Alive PROVE Cardinality(Newer(m)) = created - m
  <2>1. Newer(m) = m + 1 .. created
    BY <1>0 DEF Newer
  <2>2. QED
    BY <1>0, <2>1, FS_Interval
<1>2. \A m : m \in W <=> /\ m \in 1 .. created
                         /\ m > created - offset - PageSize /\ m <= created - offset
  BY <1>0, <1>1
<1>3. IsFiniteSet(I) /\ Cardinality(I) = PageSize
  BY <1>0, FS_Interval
<1>4. W \in SUBSET I
  BY <1>0, <1>2
<1>5. Cardinality(W) <= PageSize
  <2> HIDE DEF W, I
  <2>1. QED
    BY <1>3, <1>4, FS_Subset
<1>6. Len(Page(offset)) = Cardinality(W)
  BY PageLengthIs
<1>7. \A m : Contains(Page(offset), m) <=> m \in W
  BY PageIs
<1>8. QED
  BY <1>2, <1>5, <1>6, <1>7

LEMMA SequenceOfMore ==
  ASSUME NEW S, NEW T, S \subseteq T, NEW s \in Seq(S)
  PROVE  s \in Seq(T)
OBVIOUS

\* How the list grows.
AlmostOnce(s, M) == \A i, j \in DOMAIN s : s[i] = s[j] => i = j \/ s[i] \in M

LEMMA AppendedIs ==
  ASSUME NEW s \in Seq(Nat), NEW m \in Nat
  PROVE  LET r == Append(s, m)
         IN  /\ r \in Seq(Nat) /\ \A x : Contains(r, x) <=> Contains(s, x) \/ x = m
             /\ \A M : AlmostOnce(s, M) /\ (~Contains(s, m) \/ m \in M) => AlmostOnce(r, M)
<1> DEFINE r == Append(s, m)
<1>1. /\ r \in Seq(Nat) /\ Len(r) = Len(s) + 1 /\ Len(s) \in Nat
      /\ DOMAIN s = 1 .. Len(s) /\ DOMAIN r = 1 .. Len(s) + 1
      /\ r[Len(s) + 1] = m /\ \A i \in 1 .. Len(s) : r[i] = s[i]
  OBVIOUS
<1> HIDE DEF r
<1>2. \A x : Contains(r, x) <=> Contains(s, x) \/ x = m
  <2>1. ASSUME NEW x, Contains(r, x) PROVE Contains(s, x) \/ x = m
    BY <1>1, <2>1 DEF Contains
  <2>2. ASSUME NEW x, Contains(s, x) PROVE Contains(r, x)
    BY <1>1, <2>2 DEF Contains
  <2>3. Contains(r, m)
    <3>1. Len(s) + 1 \in 1 .. Len(r)
      BY <1>1
    <3>2. QED
      BY <1>1, <3>1 DEF Contains
  <2>4. QED
    BY <2>1, <2>2, <2>3
<1>3. ASSUME NEW M, AlmostOnce(s, M), ~Contains(s, m) \/ m \in M PROVE AlmostOnce(r, M)
  <2>1. SUFFICES ASSUME NEW i \in DOMAIN r, NEW j \in DOMAIN r, r[i] = r[j], r[i] \notin M
                 PROVE  i = j
    BY DEF AlmostOnce
  <2>2. CASE i \in DOMAIN s /\ j \in DOMAIN s
    BY <1>1, <1>3, <2>1, <2>2 DEF AlmostOnce
  <2>3. ASSUME NEW k \in DOMAIN s, r[k] = m PROVE m \in M
    <3>1. s[k] = m
      BY <1>1, <2>3
    <3>2. Contains(s, m)
      BY <1>1, <2>3, <3>1 DEF Contains
    <3>3. QED
      BY <1>3, <3>2
  <2>4. \A k \in DOMAIN r : k \in DOMAIN s \/ k = Len(s) + 1
    BY <1>1
  <2>5. QED
    BY <1>1, <2>1, <2>2, <2>3, <2>4
<1>4. QED
  BY <1>1, <1>2, <1>3 DEF r

LEMMA JoinedIs ==
  ASSUME NEW s \in Seq(Nat), NEW t \in Seq(Nat)
  PROVE  /\ s \o t \in Seq(Nat)
         /\ \A x : Contains(s \o t, x) <=> Contains(s, x) \/ Contains(t, x)
<1>1. /\ s \o t \in Seq(Nat) /\ Len(s \o t) = Len(s) + Len(t) /\ Len(s) \in Nat /\ Len(t) \in Nat
      /\ \A i \in 1 .. Len(s) : (s \o t)[i] = s[i]
      /\ \A i \in 1 .. Len(t) : (s \o t)[Len(s) + i] = t[i]
  OBVIOUS
<1>2. ASSUME NEW x, Contains(s \o t, x) PROVE Contains(s, x) \/ Contains(t, x)
  <2>1. PICK i \in 1 .. Len(s) + Len(t) : (s \o t)[i] = x
    BY <1>1, <1>2 DEF Contains
  <2>2. CASE i <= Len(s)
    BY <1>1, <2>1, <2>2 DEF Contains
  <2>3. CASE i > Len(s)
    <3>1. i - Len(s) \in 1 .. Len(t) /\ Len(s) + (i - Len(s)) = i
      BY <1>1, <2>1, <2>3
    <3>2. t[i - Len(s)] = x
      BY <1>1, <2>1, <3>1
    <3>3. QED
      BY <3>1, <3>2 DEF Contains
  <2>4. QED
    BY <1>1, <2>1, <2>2, <2>3
<1>3. ASSUME NEW x, Contains(s, x) \/ Contains(t, x) PROVE Contains(s \o t, x)
  <2>1. CASE Contains(s, x)
    <3>1. PICK i \in 1 .. Len(s) : s[i] = x
      BY <2>1 DEF Contains
    <3>2. i \in 1 .. Len(s \o t) /\ (s \o t)[i] = x
      BY <1>1, <3>1
    <3>3. QED
      BY <3>2 DEF Contains
  <2>2. CASE Contains(t, x)
    <3>1. PICK i \in 1 .. Len(t) : t[i] = x
      BY <2>2 DEF Contains
    <3>2. Len(s) + i \in 1 .. Len(s \o t) /\ (s \o t)[Len(s) + i] = x
      BY <1>1, <3>1
    <3>3. QED
      BY <3>2 DEF Contains
  <2>3. QED
    BY <1>3, <2>1, <2>2
<1>4. QED
  BY <1>1, <1>2, <1>3

EventKinds == {"popup", "created", "deleted"}

ChatTyped ==
  /\ created \in 0 .. MaxMessages
  /\ deleted \subseteq 1 .. created /\ mine \subseteq 1 .. created
  /\ sent \subseteq mine /\ erased \subseteq deleted
  /\ \A e \in events : /\ e.kind \in EventKinds /\ e.message \in 1 .. created
                       /\ e.kind = "deleted" => e.message \in deleted
  /\ list \in Seq(Nat) /\ floor \in Nat
  /\ DOMAIN paging = {"offset", "hasMore", "loading"} /\ paging.offset \in Nat
  /\ \A r \in more : r.offset \in Nat

\* The first page holds what was seen from some message on.
LoadHolds ==
  load.step = "answered" =>
    /\ load.items \in Seq(Nat) /\ Once(load.items)
    /\ load.seen \subseteq 1 .. created /\ Oldest(load.items) \in Nat \ {0}
    /\ \A m : Contains(load.items, m) <=> m \in load.seen /\ m >= Oldest(load.items)
    /\ deleted = {} /\ Len(load.items) = PageSize =>
         Oldest(load.items) <= created - PageSize + 1

\* What the list lacks is to come, and what it has too much is to go.
ListTells ==
  floor # 0 => \A m \in 1 .. created : floor <= m /\ m \notin stale =>
    /\ m \notin deleted => \/ Contains(list, m) \/ m \in sent
                           \/ InFlight({"popup", "created"}, m)
    /\ m \in deleted /\ Contains(list, m) => m \in erased \/ InFlight({"deleted"}, m)

\* What is older than the first page is in the list from some message on, and
\* down to the page that is asked for, or will be.
Offsets == {paging.offset} \cup {r.offset : r \in more}
HistoryHolds ==
  deleted = {} /\ ~outlived /\ floor # 0 =>
    \A m \in Nat \ {0} : m < floor =>
      /\ (\E n \in 1 .. m : Contains(list, n)) => Contains(list, m)
      /\ \A offset \in Offsets : m > created - offset => Contains(list, m)

ChatInv ==
  ChatTyped /\ LoadHolds /\ AlmostOnce(list, mine) /\ ListTells /\ HistoryHolds

LEMMA ChatInvInit == ASSUME Init PROVE ChatInv
<1>1. created \in 0 .. MaxMessages
  BY ChatAssumption DEF Init
<1>2. << >> \in Seq(Nat) /\ DOMAIN << >> = {}
  OBVIOUS
<1>3. ChatTyped
  BY <1>1, <1>2 DEF Init, ChatTyped, NotPaged
<1>4. LoadHolds /\ AlmostOnce(list, mine) /\ ListTells /\ HistoryHolds
  BY <1>2 DEF Init, LoadHolds, NoLoad, AlmostOnce, ListTells, HistoryHolds
<1>5. QED
  BY <1>3, <1>4 DEF ChatInv

\* What was loaded stays true while messages come and go.
LEMMA LoadHoldsOn ==
  ASSUME LoadHolds, created \in Nat, created' \in Nat, created <= created', deleted \subseteq deleted',
         load' = load \/ load'.step # "answered"
  PROVE  LoadHolds'
<1> SUFFICES ASSUME load'.step = "answered" PROVE LoadHolds'
  BY DEF LoadHolds
<1>1. load' = load /\ PageSize \in Nat
  BY ChatAssumption
<1>2. deleted' = {} => deleted = {}
  OBVIOUS
<1>3. \A m \in 1 .. created : m \in 1 .. created'
  OBVIOUS
<1> HIDE DEF Oldest
<1>4. QED
  BY <1>1, <1>2, <1>3 DEF LoadHolds, Oldest

\* Nothing happens to the list, and nothing of its own is lost.
LEMMA RestKeeps ==
  ASSUME ChatInv, UNCHANGED <<server, events, list, sent, erased, stale, floor, outlived>>,
         load' = load \/ load'.step # "answered",
         DOMAIN paging' = {"offset", "hasMore", "loading"},
         paging'.offset = paging.offset,
         \A r \in more' : r \in more \/ r.offset = paging.offset
  PROVE  ChatInv'
<1> USE DEF server
<1>1. ChatTyped'
  BY DEF ChatInv, ChatTyped
<1>2. LoadHolds'
  BY LoadHoldsOn DEF ChatInv, ChatTyped
<1>3. AlmostOnce(list, mine)' /\ ListTells'
  BY DEF ChatInv, AlmostOnce, ListTells, InFlight
<1>4. HistoryHolds'
  <2>1. Offsets' \subseteq Offsets
    BY DEF Offsets
  <2>2. QED
    BY <2>1 DEF ChatInv, HistoryHolds
<1>5. QED
  BY <1>1, <1>2, <1>3, <1>4 DEF ChatInv

\* A message is stored, and announced or missed.
LEMMA PostingKeeps ==
  ASSUME ChatInv, created < MaxMessages, NEW new, new = created + 1, created' = new,
         mine \subseteq mine', mine' \subseteq mine \cup {new},
         sent \subseteq sent', sent' \subseteq sent \cup {new}, sent' \subseteq mine',
         Publish(Announcement(new), new),
         UNCHANGED <<deleted, list, paging, load, more, erased, floor, outlived>>
  PROVE  ChatInv'
<1>0. /\ created \in Nat /\ created' \in 0 .. MaxMessages /\ new \in 1 .. created'
      /\ \A m \in 1 .. created : m \in 1 .. created'
      /\ \A m \in 1 .. created' : m \in 1 .. created \/ m = new
  BY ChatAssumption DEF ChatInv, ChatTyped
<1>1. /\ events \subseteq events' /\ stale \subseteq stale'
      /\ \A e \in events' : \/ e \in events
                            \/ e.kind \in {"popup", "created"} /\ e.message = new
      /\ new \in stale' \/ \E e \in events' : e.kind = "popup" /\ e.message = new
  <2> DEFINE A == Announcement(new)
  <2>1. /\ \A e \in A : e.kind \in {"popup", "created"} /\ e.message = new
        /\ \E e \in A : e.kind = "popup" /\ e.message = new
    <3>1. ASSUME NEW e \in A PROVE e.kind \in {"popup", "created"} /\ e.message = new
      <4>1. PICK k \in {"popup", "created"} : e = [kind |-> k, message |-> new]
        BY DEF Announcement
      <4>2. QED
        BY <4>1
    <3> DEFINE e == [kind |-> "popup", message |-> new]
    <3>2. e \in A /\ e.kind = "popup" /\ e.message = new
      BY DEF Announcement
    <3>3. QED
      BY <3>1, <3>2
  <2>2. \/ events' = events \cup A /\ stale' = stale
        \/ events' = events /\ stale' = stale \cup {new}
    BY DEF Publish
  <2> HIDE DEF A
  <2>3. QED
    BY <2>1, <2>2
<1>2. ChatTyped'
  BY <1>0, <1>1 DEF ChatInv, ChatTyped, EventKinds
<1>3. LoadHolds'
  BY <1>0, LoadHoldsOn DEF ChatInv
<1>4. AlmostOnce(list, mine)'
  BY DEF ChatInv, AlmostOnce
<1>5. ListTells'
  <2>1. new \notin deleted'
    BY <1>0 DEF ChatInv, ChatTyped
  <2>2. new \in stale' \/ InFlight({"popup", "created"}, new)'
    BY <1>1 DEF InFlight
  <2>3. \A m : InFlight({"popup", "created"}, m) => InFlight({"popup", "created"}, m)'
    BY <1>1 DEF InFlight
  <2>4. \A m : InFlight({"deleted"}, m) => InFlight({"deleted"}, m)'
    BY <1>1 DEF InFlight
  <2>5. QED
    BY <1>0, <1>1, <2>1, <2>2, <2>3, <2>4 DEF ChatInv, ListTells
<1>6. HistoryHolds'
  <2>1. Offsets' = Offsets /\ \A offset \in Offsets : offset \in Nat
    BY DEF Offsets, ChatInv, ChatTyped
  <2>2. \A m \in Nat, offset \in Offsets : m > created' - offset => m > created - offset
    BY <1>0, <2>1
  <2>3. QED
    BY <2>1, <2>2 DEF ChatInv, HistoryHolds
<1>7. QED
  BY <1>2, <1>3, <1>4, <1>5, <1>6 DEF ChatInv

\* A message is deleted, and that is announced or missed.
LEMMA DeletingKeeps ==
  ASSUME ChatInv, NEW m \in Alive, deleted' = deleted \cup {m},
         erased \subseteq erased', erased' \subseteq erased \cup {m},
         Publish({[kind |-> "deleted", message |-> m]}, m),
         UNCHANGED <<created, mine, list, paging, load, more, sent, floor, outlived>>
  PROVE  ChatInv'
<1>0. m \in 1 .. created /\ created \in Nat
  BY ChatAssumption DEF Alive, ChatInv, ChatTyped
<1>1. /\ events \subseteq events' /\ stale \subseteq stale'
      /\ \A e \in events' : e \in events \/ (e.kind = "deleted" /\ e.message = m)
      /\ m \in stale' \/ \E e \in events' : e.kind = "deleted" /\ e.message = m
  <2> DEFINE d == [kind |-> "deleted", message |-> m]
  <2>1. d.kind = "deleted" /\ d.message = m
    OBVIOUS
  <2>2. \/ events' = events \cup {d} /\ stale' = stale
        \/ events' = events /\ stale' = stale \cup {m}
    BY DEF Publish
  <2> HIDE DEF d
  <2>3. QED
    BY <2>1, <2>2
<1>2. ChatTyped'
  BY <1>0, <1>1 DEF ChatInv, ChatTyped, EventKinds
<1>3. LoadHolds'
  BY <1>0, LoadHoldsOn DEF ChatInv
<1>4. AlmostOnce(list, mine)'
  BY DEF ChatInv, AlmostOnce
<1>5. ListTells'
  <2>1. m \in stale' \/ InFlight({"deleted"}, m)'
    BY <1>1 DEF InFlight
  <2>2. \A x : InFlight({"popup", "created"}, x) => InFlight({"popup", "created"}, x)'
    BY <1>1 DEF InFlight
  <2>3. \A x : InFlight({"deleted"}, x) => InFlight({"deleted"}, x)'
    BY <1>1 DEF InFlight
  <2>4. QED
    BY <1>1, <2>1, <2>2, <2>3 DEF ChatInv, ListTells
<1>6. HistoryHolds'
  BY DEF HistoryHolds
<1>7. QED
  BY <1>2, <1>3, <1>4, <1>5, <1>6 DEF ChatInv

\* What is on its way is lost, and known to be.
LEMMA DisconnectKeeps == ASSUME ChatInv, Disconnect PROVE ChatInv'
<1> USE DEF server, requests
<1>1. /\ events' = {} /\ stale' = stale \cup {e.message : e \in events}
      /\ UNCHANGED <<server, list, paging, requests, floor, outlived>>
  BY DEF Disconnect, LoseEvents
<1>2. ChatTyped'
  BY <1>1 DEF ChatInv, ChatTyped
<1>3. LoadHolds'
  BY <1>1, ChatAssumption, LoadHoldsOn DEF ChatInv, ChatTyped
<1>4. AlmostOnce(list, mine)' /\ HistoryHolds'
  BY <1>1 DEF ChatInv, AlmostOnce, HistoryHolds, Offsets
<1>5. ListTells'
  <2>1. \A kinds, m : InFlight(kinds, m) => m \in stale'
    BY <1>1 DEF InFlight
  <2>2. QED
    BY <1>1, <2>1 DEF ChatInv, ListTells
<1>6. QED
  BY <1>2, <1>3, <1>4, <1>5 DEF ChatInv

LEMMA UnmountKeeps == ASSUME ChatInv, Unmount PROVE ChatInv'
<1>1. /\ events' = {} /\ list' = << >> /\ paging' = NotPaged /\ load'.step = "none"
      /\ more' = {} /\ sent' = {} /\ erased' = {} /\ floor' = 0
      /\ UNCHANGED <<created, deleted, mine>>
  BY DEF Unmount, LoseEvents, NoLoad, server
<1>2. << >> \in Seq(Nat) /\ DOMAIN << >> = {}
  OBVIOUS
<1>3. ChatTyped'
  BY <1>1, <1>2 DEF ChatInv, ChatTyped, NotPaged
<1>4. LoadHolds' /\ AlmostOnce(list, mine)' /\ ListTells' /\ HistoryHolds'
  BY <1>1, <1>2 DEF LoadHolds, AlmostOnce, ListTells, HistoryHolds
<1>5. QED
  BY <1>3, <1>4 DEF ChatInv

\* The news of a message: it is in the list then.
LEMMA CreatedArrivesKeeps ==
  ASSUME ChatInv, NEW m \in Messages, CreatedArrives(m)
  PROVE  ChatInv'
<1> USE DEF server, requests
<1>0. PICK k \in {"popup", "created"} :
         InFlight({k}, m) /\ events' = events \ {[kind |-> k, message |-> m]}
  BY DEF CreatedArrives
<1>1. /\ list' = IF Contains(list, m) THEN list ELSE Append(list, m)
      /\ stale' = IF m \in deleted /\ ~InFlight({"deleted"}, m) THEN stale \cup {m} ELSE stale
      /\ outlived' = (outlived \/ m < floor)
      /\ UNCHANGED <<server, paging, requests, floor>>
  BY DEF CreatedArrives
<1>2. m \in 1 .. created /\ m \in Nat
  BY <1>0 DEF InFlight, ChatInv, ChatTyped, Messages
<1>3. /\ list' \in Seq(Nat) /\ AlmostOnce(list', mine)
      /\ \A x : Contains(list', x) <=> Contains(list, x) \/ x = m
  BY <1>1, <1>2, AppendedIs DEF ChatInv, ChatTyped
<1>4. ChatTyped'
  BY <1>0, <1>1, <1>3 DEF ChatInv, ChatTyped
<1>5. LoadHolds'
  BY <1>1, ChatAssumption, LoadHoldsOn DEF ChatInv, ChatTyped
<1>6. AlmostOnce(list, mine)'
  BY <1>1, <1>3 DEF AlmostOnce
<1>7. ListTells'
  <2>1. /\ \A x : x # m /\ InFlight({"popup", "created"}, x) => InFlight({"popup", "created"}, x)'
        /\ \A x : InFlight({"deleted"}, x) => InFlight({"deleted"}, x)'
    BY <1>0 DEF InFlight
  <2>2. m \in deleted => m \in stale' \/ InFlight({"deleted"}, m)'
    BY <1>1, <2>1
  <2>3. stale \subseteq stale'
    BY <1>1
  <2>4. QED
    BY <1>1, <1>3, <2>1, <2>2, <2>3 DEF ChatInv, ListTells
<1>8. HistoryHolds'
  <2> SUFFICES ASSUME deleted = {}, ~outlived, floor # 0, ~(m < floor) PROVE HistoryHolds'
    BY <1>1 DEF HistoryHolds
  <2>1. \A x \in Nat : x < floor => x # m /\ (Contains(list', x) <=> Contains(list, x))
    BY <1>3
  <2>2. \A x \in Nat : x < floor => \A n \in 1 .. x : n \in Nat /\ n < floor
    BY DEF ChatInv, ChatTyped
  <2>3. Offsets' = Offsets
    BY <1>1 DEF Offsets
  <2>4. QED
    BY <1>1, <2>1, <2>2, <2>3 DEF ChatInv, HistoryHolds
<1>9. QED
  BY <1>4, <1>5, <1>6, <1>7, <1>8 DEF ChatInv

\* A deleted message leaves the list.
LEMMA RemovingKeeps ==
  ASSUME ChatInv, NEW m \in deleted, list' = Without(list, m),
         events' \subseteq events,
         \A e \in events : e \in events' \/ (e.kind = "deleted" /\ e.message = m),
         erased' \subseteq erased, erased \subseteq erased' \cup {m},
         UNCHANGED <<server, paging, load, more, sent, stale, floor, outlived>>
  PROVE  ChatInv'
<1> USE DEF server
<1>1. /\ list' \in Seq(Nat) /\ AlmostOnce(list', mine)
      /\ \A x : Contains(list', x) <=> Contains(list, x) /\ x # m
  <2>1. list \in Seq(Nat) /\ \A i, j \in DOMAIN list : list[i] = list[j] => i = j \/ list[i] \in mine
    BY DEF ChatInv, ChatTyped, AlmostOnce
  <2>2. LET r == Without(list, m)
        IN  /\ r \in Seq(Nat)
            /\ \A x : Contains(r, x) <=> Contains(list, x) /\ x # m
            /\ \A i, j \in DOMAIN r : r[i] = r[j] => i = j \/ r[i] \in mine
    BY <2>1, WithoutIs
  <2>3. QED
    BY <2>2 DEF AlmostOnce
<1>2. ChatTyped'
  BY <1>1 DEF ChatInv, ChatTyped
<1>3. LoadHolds'
  BY ChatAssumption, LoadHoldsOn DEF ChatInv, ChatTyped
<1>4. AlmostOnce(list, mine)'
  BY <1>1 DEF AlmostOnce
<1>5. ListTells'
  <2>1. \A x : InFlight({"popup", "created"}, x) => InFlight({"popup", "created"}, x)'
    BY DEF InFlight
  <2>2. \A x : x # m /\ InFlight({"deleted"}, x) => InFlight({"deleted"}, x)'
    BY DEF InFlight
  <2>3. QED
    BY <1>1, <2>1, <2>2 DEF ChatInv, ListTells
<1>6. HistoryHolds'
  BY DEF HistoryHolds
<1>7. QED
  BY <1>2, <1>3, <1>4, <1>5, <1>6 DEF ChatInv

LEMMA LoadIsAnsweredKeeps == ASSUME ChatInv, LoadIsAnswered PROVE ChatInv'
<1> DEFINE P == Page(0)
<1>0. created \in Nat /\ PageSize \in Nat \ {0}
  BY ChatAssumption DEF ChatInv, ChatTyped
<1>1. /\ load'.items = P /\ load'.seen = Alive
      /\ UNCHANGED <<server, events, list, paging, more, sent, erased, stale, floor, outlived>>
  BY DEF LoadIsAnswered
<1>2. /\ P \in Seq(Alive) /\ Once(P) /\ Oldest(P) \in Nat \ {0}
      /\ Len(P) = PageSize => Oldest(P) \in Alive
      /\ \A m : Contains(P, m) <=> m \in Alive /\ m >= Oldest(P)
  BY <1>0, FirstPageIs
<1>3. deleted = {} /\ Len(P) = PageSize => Oldest(P) <= created - PageSize + 1
  <2> SUFFICES ASSUME deleted = {}, Len(P) = PageSize PROVE Oldest(P) <= created - PageSize + 1
    OBVIOUS
  <2>1. Alive = 1 .. created /\ Oldest(P) \in 1 .. created
    BY <1>2 DEF Alive
  <2>2. \A m \in 1 .. created : m > created - PageSize => Contains(P, m)
    <3>1. \A m : Contains(P, m) <=> /\ m \in 1 .. created
                                    /\ m > created - 0 - PageSize /\ m <= created - 0
      BY <1>0, WholePageIs
    <3> HIDE DEF P
    <3>2. QED
      BY <1>0, <3>1
  <2>3. created >= PageSize
    <3>1. SUFFICES ASSUME created < PageSize PROVE FALSE
      BY <1>0
    <3>2. Len(P) = Cardinality({m \in Alive : Cardinality(Newer(m)) \in 0 .. 0 + PageSize - 1})
      BY <1>0, PageLengthIs
    <3>3. {m \in Alive : Cardinality(Newer(m)) \in 0 .. 0 + PageSize - 1} \in SUBSET (1 .. created)
      BY <2>1
    <3>4. Len(P) <= created
      <4> DEFINE W == {m \in Alive : Cardinality(Newer(m)) \in 0 .. 0 + PageSize - 1}
      <4>1. IsFiniteSet(1 .. created) /\ Cardinality(1 .. created) = created
        <5>1. 1 \in Int /\ created \in Int /\ created >= 0
          BY <1>0
        <5>2. /\ IsFiniteSet(1 .. created)
              /\ Cardinality(1 .. created) = IF 1 > created THEN 0 ELSE created - 1 + 1
          BY <5>1, FS_Interval, Zenon
        <5>3. QED
          BY <5>1, <5>2
      <4>2. Len(P) = Cardinality(W) /\ W \in SUBSET (1 .. created)
        BY <3>2, <3>3
      <4> HIDE DEF W, P
      <4>3. QED
        BY <4>1, <4>2, FS_Subset
    <3>5. QED
      BY <1>0, <3>1, <3>4
  <2>4. Contains(P, created - PageSize + 1)
    <3>1. created - PageSize + 1 \in 1 .. created /\ created - PageSize + 1 > created - PageSize
      BY <1>0, <2>3
    <3>2. QED
      BY <2>2, <3>1
  <2>5. QED
    BY <1>0, <1>2, <2>1, <2>4
<1>4. P \in Seq(Nat) /\ Alive \subseteq 1 .. created
  <2>1. Alive \subseteq 1 .. created
    BY DEF Alive
  <2>2. Alive \subseteq Nat
    BY <1>0, <2>1
  <2> HIDE DEF P
  <2>3. P \in Seq(Nat)
    BY <1>2, <2>2, SequenceOfMore
  <2>4. QED
    BY <2>1, <2>3
<1> HIDE DEF P
<1> USE DEF server
<1>5. LoadHolds'
  <2>1. Oldest(load.items)' = Oldest(P) /\ Once(load.items)' = Once(P)
    BY <1>1 DEF Oldest, Once
  <2>2. QED
    BY <1>1, <1>2, <1>3, <1>4, <2>1 DEF LoadHolds
<1>6. ChatTyped'
  BY <1>1 DEF ChatInv, ChatTyped
<1>7. AlmostOnce(list, mine)' /\ ListTells' /\ HistoryHolds'
  BY <1>1 DEF ChatInv, AlmostOnce, ListTells, InFlight, HistoryHolds, Offsets
<1>8. QED
  BY <1>5, <1>6, <1>7 DEF ChatInv

\* The first page takes the place of the list.  What it misses is to come, or
\* known to be missed.
LEMMA LoadArrivesKeeps == ASSUME ChatInv, LoadArrives PROVE ChatInv'
<1> USE DEF server
<1> DEFINE P == load.items
<1>0. /\ created \in Nat /\ created <= MaxMessages /\ MaxMessages \in Nat
      /\ PageSize \in Nat \ {0}
  BY ChatAssumption DEF ChatInv, ChatTyped
<1>1. /\ P \in Seq(Nat) /\ Once(P)
      /\ load.seen \subseteq 1 .. created /\ Oldest(P) \in Nat \ {0}
      /\ \A m : Contains(P, m) <=> m \in load.seen /\ m >= Oldest(P)
      /\ deleted = {} /\ Len(P) = PageSize => Oldest(P) <= created - PageSize + 1
  BY DEF LoadArrives, ChatInv, LoadHolds
<1>2. /\ load' = NoLoad /\ list' = P /\ paging' = Paged(0, P) /\ floor' = Oldest(P)
      /\ outlived' = (more # {})
      /\ UNCHANGED <<server, view, online, events, more, sent, erased>>
  BY DEF LoadArrives, Oldest
<1>3. stale' = {m \in Messages :
       \/ m \in Alive \ load.seen /\ m \notin sent
            /\ ~InFlight({"popup", "created"}, m)
       \/ m \in deleted /\ m \notin erased /\ ~InFlight({"deleted"}, m)
            /\ \/ m \in load.seen
               \/ m \in sent \/ InFlight({"popup", "created"}, m)}
  BY DEF LoadArrives
<1> HIDE DEF P
<1>4. Len(P) \in Nat /\ DOMAIN paging' = {"offset", "hasMore", "loading"}
      /\ paging'.offset = Len(P)
  BY <1>1, <1>2 DEF Paged
<1>5. ChatTyped'
  BY <1>1, <1>2, <1>4 DEF ChatInv, ChatTyped
<1>6. LoadHolds'
  BY <1>2 DEF LoadHolds, NoLoad
<1>7. AlmostOnce(list, mine)'
  BY <1>1, <1>2 DEF AlmostOnce, Once
<1>8. ListTells'
  <2>1. \A x, kinds : InFlight(kinds, x)' <=> InFlight(kinds, x)
    BY <1>2 DEF InFlight
  <2> SUFFICES ASSUME NEW m \in 1 .. created, Oldest(P) <= m, m \notin stale'
               PROVE  /\ m \notin deleted => \/ Contains(P, m) \/ m \in sent
                                             \/ InFlight({"popup", "created"}, m)
                      /\ m \in deleted /\ Contains(P, m) =>
                           m \in erased \/ InFlight({"deleted"}, m)
    BY <1>2, <2>1 DEF ListTells
  <2>2. m \in Messages /\ m >= Oldest(P)
    BY <1>0, <1>1 DEF Messages
  <2>3. m \notin deleted => m \in Alive
    BY DEF Alive
  <2>4. QED
    BY <1>1, <1>3, <2>2, <2>3
<1>9. HistoryHolds'
  <2> SUFFICES ASSUME deleted = {}, more = {},
                      NEW m \in Nat \ {0}, m < Oldest(P)
               PROVE  /\ ~\E n \in 1 .. m : Contains(P, n)
                      /\ ~(m > created - Len(P))
    BY <1>2, <1>4 DEF HistoryHolds, Offsets
  <2>1. ~\E n \in 1 .. m : Contains(P, n)
    BY <1>1
  <2>2. Len(P) = PageSize
    BY <1>1 DEF Oldest
  <2>3. QED
    BY <1>0, <1>1, <2>1, <2>2
<1>10. QED
  BY <1>5, <1>6, <1>7, <1>8, <1>9 DEF ChatInv

\* An older page abuts on what the list has by now, or overlaps it.
LEMMA MoreArrivesKeeps ==
  ASSUME ChatInv, NEW r \in more, MoreArrives(r)
  PROVE  ChatInv'
<1> USE DEF server
<1> DEFINE P == Page(r.offset)
<1>0. created \in Nat /\ PageSize \in Nat \ {0} /\ r.offset \in Nat
  BY ChatAssumption DEF ChatInv, ChatTyped
<1>1. /\ P \in Seq(Alive) /\ P \in Seq(Nat) /\ \A m : Contains(P, m) => m \in Alive
  <2>1. P \in Seq(Alive) /\ \A m : Contains(P, m) => m \in Alive
    BY <1>0, PageIs
  <2>2. Alive \subseteq Nat
    BY <1>0 DEF Alive
  <2> HIDE DEF P
  <2>3. P \in Seq(Nat)
    BY <2>1, <2>2, SequenceOfMore
  <2>4. QED
    BY <2>1, <2>3
<1>2. /\ more' = more \ {r} /\ list' = Deduped(P \o list) /\ paging' = Paged(r.offset, P)
      /\ UNCHANGED <<server, events, load, sent, erased, stale, floor, outlived>>
  BY DEF MoreArrives
<1>3. deleted = {} =>
        /\ Len(P) <= PageSize
        /\ \A m : Contains(P, m) <=>
             /\ m \in 1 .. created
             /\ m > created - r.offset - PageSize /\ m <= created - r.offset
  BY <1>0, WholePageIs
<1> HIDE DEF P
<1>4. /\ list' \in Seq(Nat) /\ Once(list')
      /\ \A m : Contains(list', m) <=> Contains(P, m) \/ Contains(list, m)
  <2>1. list \in Seq(Nat)
    BY DEF ChatInv, ChatTyped
  <2>2. P \o list \in Seq(Nat)
        /\ \A x : Contains(P \o list, x) <=> Contains(P, x) \/ Contains(list, x)
    BY <1>1, <2>1, JoinedIs
  <2>3. QED
    BY <1>2, <2>2, DedupedIs
<1>5. /\ Len(P) \in Nat /\ DOMAIN paging' = {"offset", "hasMore", "loading"}
      /\ paging'.offset = r.offset + Len(P)
  BY <1>1, <1>2 DEF Paged
<1>6. ChatTyped'
  BY <1>0, <1>2, <1>4, <1>5 DEF ChatInv, ChatTyped
<1>7. LoadHolds'
  BY <1>0, <1>2, LoadHoldsOn DEF ChatInv
<1>8. AlmostOnce(list, mine)'
  BY <1>2, <1>4 DEF AlmostOnce, Once
<1>9. ListTells'
  <2>1. \A m \in deleted : ~Contains(P, m)
    BY <1>1 DEF Alive
  <2>2. \A x, kinds : InFlight(kinds, x)' <=> InFlight(kinds, x)
    BY <1>2 DEF InFlight
  <2>3. QED
    BY <1>2, <1>4, <2>1, <2>2 DEF ChatInv, ListTells
<1>10. HistoryHolds'
  <2> SUFFICES ASSUME deleted = {}, ~outlived, floor # 0, NEW m \in Nat \ {0}, m < floor
               PROVE  /\ (\E n \in 1 .. m : Contains(list', n)) => Contains(list', m)
                      /\ \A offset \in Offsets' : m > created - offset => Contains(list', m)
    BY <1>2 DEF HistoryHolds
  <2>1. /\ (\E n \in 1 .. m : Contains(list, n)) => Contains(list, m)
        /\ \A offset \in Offsets : m > created - offset => Contains(list, m)
    BY DEF ChatInv, HistoryHolds
  <2>2. m > created - r.offset => Contains(list, m)
    BY <2>1 DEF Offsets
  <2>3. m <= created - r.offset /\ m > created - r.offset - PageSize => Contains(P, m)
    BY <1>0, <1>3
  <2>4. (\E n \in 1 .. m : Contains(P, n)) => Contains(list', m)
    BY <1>0, <1>3, <1>4, <2>2, <2>3
  <2>5. (\E n \in 1 .. m : Contains(list', n)) => Contains(list', m)
    BY <1>4, <2>1, <2>4
  <2>6. m > created - (r.offset + Len(P)) => Contains(list', m)
    BY <1>0, <1>3, <1>4, <1>5, <2>2, <2>3
  <2>7. \A offset \in Offsets' : offset \in Offsets \/ offset = r.offset + Len(P)
    BY <1>2, <1>5 DEF Offsets
  <2>8. QED
    BY <1>4, <2>1, <2>5, <2>6, <2>7
<1>11. QED
  BY <1>6, <1>7, <1>8, <1>9, <1>10 DEF ChatInv

LEMMA SendReturnsKeeps ==
  ASSUME ChatInv, NEW m \in Messages, SendReturns(m)
  PROVE  ChatInv'
<1> USE DEF server
<1>0. m \in Nat /\ m \in 1 .. created /\ m \in mine /\ m \in sent
  BY DEF SendReturns, Messages, ChatInv, ChatTyped
<1>1. /\ sent' = sent \ {m} /\ list' = Append(list, m)
      /\ outlived' = (outlived \/ m < floor)
      /\ UNCHANGED <<server, events, paging, load, more, erased, floor>>
  BY DEF SendReturns
<1>2. /\ stale \ {m} \subseteq stale'
      /\ m \in deleted => m \in stale' \/ m \in erased \/ InFlight({"deleted"}, m)
      /\ m \in stale /\ m \in deleted => m \in stale'
  BY DEF SendReturns
<1>3. /\ list' \in Seq(Nat) /\ AlmostOnce(list', mine)
      /\ \A x : Contains(list', x) <=> Contains(list, x) \/ x = m
  BY <1>0, <1>1, AppendedIs DEF ChatInv, ChatTyped
<1>4. ChatTyped'
  BY <1>1, <1>3 DEF ChatInv, ChatTyped
<1>5. LoadHolds'
  BY <1>1, ChatAssumption, LoadHoldsOn DEF ChatInv, ChatTyped
<1>6. AlmostOnce(list, mine)'
  BY <1>1, <1>3 DEF AlmostOnce
<1>7. ListTells'
  <2>1. \A kinds, x : InFlight(kinds, x)' <=> InFlight(kinds, x)
    BY <1>1 DEF InFlight
  <2>2. QED
    BY <1>1, <1>2, <1>3, <2>1 DEF ChatInv, ListTells
<1>8. HistoryHolds'
  <2> SUFFICES ASSUME deleted = {}, ~outlived, floor # 0, ~(m < floor) PROVE HistoryHolds'
    BY <1>1 DEF HistoryHolds
  <2>1. \A x \in Nat : x < floor => x # m /\ (Contains(list', x) <=> Contains(list, x))
    BY <1>3
  <2>2. \A x \in Nat : x < floor => \A n \in 1 .. x : n \in Nat /\ n < floor
    BY DEF ChatInv, ChatTyped
  <2>3. Offsets' = Offsets
    BY <1>1 DEF Offsets
  <2>4. QED
    BY <1>1, <2>1, <2>2, <2>3 DEF ChatInv, HistoryHolds
<1>9. QED
  BY <1>4, <1>5, <1>6, <1>7, <1>8 DEF ChatInv

LEMMA SendFailsKeeps ==
  ASSUME ChatInv, NEW m \in Messages, SendFails(m)
  PROVE  ChatInv'
<1> USE DEF server
<1>1. /\ sent' = sent \ {m}
      /\ stale' = IF Contains(list, m) \/ InFlight({"popup", "created"}, m) \/ m \in deleted
                  THEN stale ELSE stale \cup {m}
      /\ UNCHANGED <<server, events, list, paging, load, more, erased, floor, outlived>>
  BY DEF SendFails
<1>2. ChatTyped'
  BY <1>1 DEF ChatInv, ChatTyped
<1>3. LoadHolds'
  BY <1>1, ChatAssumption, LoadHoldsOn DEF ChatInv, ChatTyped
<1>4. AlmostOnce(list, mine)' /\ HistoryHolds'
  BY <1>1 DEF ChatInv, AlmostOnce, HistoryHolds, Offsets
<1>5. ListTells'
  <2>1. \A kinds, x : InFlight(kinds, x)' <=> InFlight(kinds, x)
    BY <1>1 DEF InFlight
  <2>2. QED
    BY <1>1, <2>1 DEF ChatInv, ListTells
<1>6. QED
  BY <1>2, <1>3, <1>4, <1>5 DEF ChatInv

LEMMA ChatInvNext == ASSUME ChatInv, [Next]_vars PROVE ChatInv'
<1> USE DEF server, requests
<1>1. CASE Post
  <2> DEFINE new == created + 1
  <2>1. /\ created < MaxMessages /\ created' = new /\ Publish(Announcement(new), new)
        /\ UNCHANGED <<deleted, mine, list, paging, load, more, sent, erased, floor, outlived>>
    BY <1>1 DEF Post
  <2>2. sent \subseteq mine
    BY DEF ChatInv, ChatTyped
  <2> HIDE DEF new
  <2>3. new = created + 1
    BY DEF new
  <2>4. QED
    BY <2>1, <2>2, <2>3, PostingKeeps
<1>2. CASE Send
  <2> DEFINE new == created + 1
  <2>1. /\ created < MaxMessages /\ created' = new /\ Publish(Announcement(new), new)
        /\ mine' = mine \cup {new} /\ sent' = sent \cup {new}
        /\ UNCHANGED <<deleted, list, paging, load, more, erased, floor, outlived>>
    BY <1>2 DEF Send
  <2>2. sent \subseteq mine
    BY DEF ChatInv, ChatTyped
  <2> HIDE DEF new
  <2>3. new = created + 1
    BY DEF new
  <2>4. QED
    BY <2>1, <2>2, <2>3, PostingKeeps
<1>3. CASE \E m \in Messages : DeleteElsewhere(m) \/ Delete(m)
  BY <1>3, DeletingKeeps DEF DeleteElsewhere, Delete
<1>4. CASE Disconnect
  BY <1>4, DisconnectKeeps
<1>5. CASE Unmount
  BY <1>5, UnmountKeeps
<1>6. CASE \E m \in Messages : CreatedArrives(m)
  BY <1>6, CreatedArrivesKeeps
<1>7. CASE \E m \in Messages : DeletedArrives(m)
  <2>1. PICK m \in Messages : DeletedArrives(m)
    BY <1>7
  <2>2. m \in deleted
    BY <2>1 DEF DeletedArrives, InFlight, ChatInv, ChatTyped
  <2>3. \A e \in events : e \in events' \/ (e.kind = "deleted" /\ e.message = m)
    BY <2>1 DEF DeletedArrives
  <2>4. /\ list' = Without(list, m) /\ events' \subseteq events
        /\ UNCHANGED <<server, paging, load, more, sent, erased, stale, floor, outlived>>
    BY <2>1 DEF DeletedArrives
  <2>5. QED
    BY <2>2, <2>3, <2>4, RemovingKeeps
<1>8. CASE \E m \in Messages : DeleteReturns(m)
  <2>1. PICK m \in Messages : DeleteReturns(m)
    BY <1>8
  <2>2. m \in deleted
    BY <2>1 DEF DeleteReturns, ChatInv, ChatTyped
  <2>3. /\ list' = Without(list, m) /\ erased' = erased \ {m}
        /\ UNCHANGED <<server, events, paging, load, more, sent, stale, floor, outlived>>
    BY <2>1 DEF DeleteReturns
  <2>4. QED
    BY <2>2, <2>3, RemovingKeeps
<1>9. CASE LoadIsAnswered
  BY <1>9, LoadIsAnsweredKeeps
<1>10. CASE LoadArrives
  BY <1>10, LoadArrivesKeeps
<1>11. CASE \E r \in more : MoreArrives(r)
  BY <1>11, MoreArrivesKeeps
<1>12. CASE \E m \in Messages : SendReturns(m)
  BY <1>12, SendReturnsKeeps
<1>13. CASE \E m \in Messages : SendFails(m)
  BY <1>13, SendFailsKeeps
<1>14. CASE ScrollUp
  <2>1. /\ paging' = [paging EXCEPT !.loading = TRUE]
        /\ more' = more \cup {[id |-> budget["scrolls"], offset |-> paging.offset]}
        /\ UNCHANGED <<server, events, list, load, sent, erased, stale, floor, outlived>>
    BY <1>14 DEF ScrollUp
  <2>2. DOMAIN paging' = {"offset", "hasMore", "loading"} /\ paging'.offset = paging.offset
    BY <2>1 DEF ChatInv, ChatTyped
  <2>3. \A r \in more' : r \in more \/ r.offset = paging.offset
    BY <2>1
  <2>4. QED
    BY <2>1, <2>2, <2>3, RestKeeps
<1>15. CASE \/ Connect \/ OpenChannel \/ LeaveChannel \/ LoadFails
            \/ \E r \in more : MoreFails(r)
            \/ TypingStarts \/ TypingStops \/ UNCHANGED vars
  <2>1. /\ UNCHANGED <<server, events, list, paging, sent, erased, stale, floor, outlived>>
        /\ load' = load \/ load'.step # "answered"
        /\ more' \subseteq more
    BY <1>15
    DEF Connect, OpenChannel, LeaveChannel, LoadFails, MoreFails, TypingStarts, TypingStops,
        vars, NoLoad
  <2>2. DOMAIN paging' = {"offset", "hasMore", "loading"} /\ paging'.offset = paging.offset
    BY <2>1 DEF ChatInv, ChatTyped
  <2>3. QED
    BY <2>1, <2>2, RestKeeps
<1>16. QED
  BY <1>1, <1>2, <1>3, <1>4, <1>5, <1>6, <1>7, <1>8, <1>9, <1>10, <1>11, <1>12, <1>13, <1>14,
     <1>15 DEF Next

LEMMA ChatInvHolds == Spec => []ChatInv
<1>1. Init => ChatInv
  BY ChatInvInit
<1>2. ChatInv /\ [Next]_vars => ChatInv'
  BY ChatInvNext
<1>3. QED
  BY <1>1, <1>2, PTL DEF Spec

\* For any page size, any number of messages, and however often each thing
\* happens: a message is shown twice only if the user sent it from here.
THEOREM OthersAreShownOnce == Spec => []TwiceOnlyOwn
<1>1. ChatInv => TwiceOnlyOwn
  BY DEF ChatInv, AlmostOnce, TwiceOnlyOwn
<1>2. QED
  BY <1>1, ChatInvHolds, PTL

\* And when nothing is on its way, the list holds the messages of the channel
\* from its first page on, but for the exceptions the property names.
THEOREM ListIsTheLog == Spec => []ListMatchesLog
<1>1. ChatInv => ListMatchesLog
  <2> SUFFICES ASSUME ChatInv, Quiet, NEW m \in floor .. created,
                      m # 0, m \notin stale, floor # 0
               PROVE  Contains(list, m) <=> m \in Alive
    BY DEF ListMatchesLog
  <2>1. m \in 1 .. created /\ floor <= m
    BY ChatAssumption DEF ChatInv, ChatTyped
  <2>2. m \in Alive <=> m \notin deleted
    BY <2>1 DEF Alive
  <2>3. m \notin sent /\ m \notin erased /\ \A kinds : ~InFlight(kinds, m)
    BY DEF Quiet, InFlight
  <2>4. QED
    BY <2>1, <2>2, <2>3 DEF ChatInv, ListTells
<1>2. QED
  BY <1>1, ChatInvHolds, PTL

\* And while nothing is deleted, the history has no holes below the first
\* page, unless an older page or the news of an older message came late.
THEOREM HistoryHasNoHoles == Spec => []NoHoles
<1>1. ChatInv => NoHoles
  BY DEF ChatInv, HistoryHolds, NoHoles, Messages
<1>2. QED
  BY <1>1, ChatInvHolds, PTL

=============================================================================
