------------------------------- MODULE MCChat -------------------------------
(* The four modules share no variable, so that interleaving them shows     *)
(* nothing: a behaviour is one of the channel's, of a reaction's, of the   *)
(* composer's or of the previews', and the budgets of the others are used  *)
(* up from the start.                                                      *)
EXTENDS Chat, Reactions, Composer, Previews

VARIABLE part   \* which of the four

None == [stored |-> 0, posts |-> 0, sends |-> 0, deletes |-> 0, drops |-> 0,
         opens |-> 0, scrolls |-> 0, types |-> 0]

(* The races of one page: sending, posting, deleting and losing the socket *)
(* around two openings of the channel.                                     *)
OnePage == [None EXCEPT !.posts = 1, !.sends = 1, !.deletes = 1, !.drops = 1,
                        !.opens = 2]

(* The races of paging: older pages while messages come and go.            *)
Paging == [None EXCEPT !.stored = 4, !.posts = 1, !.deletes = 1, !.opens = 2,
                       !.scrolls = 3]

(* News from before the first page: four messages, and a page of two.      *)
Late == [None EXCEPT !.posts = 4, !.opens = 2]

Typing == [None EXCEPT !.drops = 1, !.types = 2, !.opens = 2]

MCBudgets == {None, OnePage, Paging, Late, Typing}

MCInit ==
  /\ Init
  /\ \/ /\ part = "chat" /\ budget # [k \in Kinds |-> 0]
        /\ ReactionInitAfter(MaxClicks, MaxChanges) /\ reactors = {}
        /\ ComposerInitAfter(MaxRequests, MaxRequests)
     \/ /\ part = "reactions" /\ budget = [k \in Kinds |-> 0]
        /\ ReactionInit /\ ComposerInitAfter(MaxRequests, MaxRequests)
     \/ /\ part = "previews" /\ budget = [k \in Kinds |-> 0]
        /\ ReactionInitAfter(MaxClicks, MaxChanges) /\ reactors = {}
        /\ ComposerInitAfter(MaxRequests, MaxRequests)
     \/ /\ part = "composer" /\ budget = [k \in Kinds |-> 0]
        /\ ReactionInitAfter(MaxClicks, MaxChanges) /\ reactors = {}
        /\ \/ ComposerInitAfter(0, MaxRequests)
           \/ ComposerInitAfter(MaxRequests, 0)
  /\ PreviewsInitAfter(IF part = "previews" THEN 0 ELSE MaxRuns)

MCNext ==
  /\ UNCHANGED part
  /\ \/ part = "chat" /\ Next /\ UNCHANGED <<reactionVars, composerVars, previewVars>>
     \/ part = "reactions" /\ ReactionNext /\ UNCHANGED <<vars, composerVars, previewVars>>
     \/ part = "composer" /\ ComposerNext /\ UNCHANGED <<vars, reactionVars, previewVars>>
     \/ part = "previews" /\ PreviewsNext /\ UNCHANGED <<vars, reactionVars, composerVars>>

MCSpec ==
  /\ MCInit /\ [][MCNext]_<<vars, reactionVars, composerVars, previewVars, part>>
  /\ WF_vars(TypingTimer)
=============================================================================
