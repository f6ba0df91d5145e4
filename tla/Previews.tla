------------------------------ MODULE Previews ------------------------------
(***************************************************************************)
(* The previews of links in DashboardView.  An effect looks at the         *)
(* messages whenever the list of the channel is another one: it fetches    *)
(* the page of every link once, into a cache that nothing listens to, and  *)
(* the run that started the fetch shows the preview, unless there was a    *)
(* newer run by then.                                                      *)
(*                                                                         *)
(* A message is the first link in it.                                      *)
(***************************************************************************)
EXTENDS Integers

CONSTANTS Links,
          MaxRuns   \* bound on the runs of the effect

VARIABLES
  messages,  \* the links of activeMessages
  run,       \* the latest run of the effect
  cache,     \* embedCacheRef: not "unknown" when the page was looked at
  fetches,   \* embedBeingFetchedRef: the fetches at work and the runs they are of
  previews,  \* autoEmbedsByUrl
  late       \* whose page came after its run was over (see PreviewsAreShown)

previewVars == <<messages, run, cache, fetches, previews, late>>

PreviewsInitAfter(n) ==
  /\ messages = {} /\ run = n /\ cache = [l \in Links |-> "unknown"]
  /\ fetches = {} /\ previews = {} /\ late = {}

PreviewsInit == PreviewsInitAfter(0)

BeingFetched == {f.link : f \in fetches}

(* Mutant: links that are known are passed over.                           *)
EffectOfUnknown(ms) ==
  /\ fetches' = fetches \cup
       {[link |-> l, of |-> run'] : l \in {k \in ms \ BeingFetched : cache[k] = "unknown"}}
  /\ UNCHANGED previews

(* The effect for messages ms: what is in the cache is shown, what nobody  *)
(* fetches is fetched.                                                     *)
Effect(ms) ==
  /\ fetches' = fetches \cup
       {[link |-> l, of |-> run'] : l \in {k \in ms \ BeingFetched : cache[k] = "unknown"}}
  /\ previews' = previews \cup {l \in ms : cache[l] = "embed"}

(* A message comes, goes or changes, or another channel is opened.         *)
ListChanges(ms) ==
  /\ run < MaxRuns /\ run' = run + 1
  /\ messages' = ms
  /\ Effect(ms)
  /\ late' = {}
  /\ UNCHANGED cache

(* The page has something to show.                                         *)
PageArrives(f) ==
  /\ fetches' = fetches \ {f}
  /\ cache' = [cache EXCEPT ![f.link] = "embed"]
  /\ IF f.of = run
     THEN previews' = previews \cup {f.link} /\ UNCHANGED late
     ELSE late' = late \cup {f.link} /\ UNCHANGED previews
  /\ UNCHANGED <<messages, run>>

(* It is empty, or cannot be fetched: nobody tries again.                  *)
PageIsEmpty(f) ==
  /\ fetches' = fetches \ {f}
  /\ cache' = [cache EXCEPT ![f.link] = "none"]
  /\ UNCHANGED <<messages, run, previews, late>>

PreviewsNext ==
  \/ \E ms \in SUBSET Links : ListChanges(ms)
  \/ \E f \in fetches : PageArrives(f)
  \/ \E f \in fetches : PageIsEmpty(f)

PreviewsSpec == PreviewsInit /\ [][PreviewsNext]_previewVars

-----------------------------------------------------------------------------
(* Every link that is shown has its preview when its page has one or is    *)
(* still being fetched, in whatever order pages arrive and lists change.   *)
(* The exception: a page that came after the run that asked for it was     *)
(* over is in the cache only, until the list changes once more.            *)
PreviewsAreShown ==
  \A l \in messages \ late :
     cache[l] # "none" => l \in previews \/ l \in BeingFetched
=============================================================================
