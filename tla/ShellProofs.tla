----------------------------- MODULE ShellProofs -----------------------------
(* Proofs about the shell: where the user is when nothing is waited for any  *)
(* more.  LandsInv says what the requests in flight have to do with the      *)
(* address and the active pair; every navigation of an effect or a handler   *)
(* keeps it, whatever started it, and so does every answer.  ClickInv says   *)
(* that the last click is still being handled, by the one handler at work,   *)
(* or that it was and nothing in flight leads away from where it ended.      *)
EXTENDS Shell, WellFoundedInduction, NaturalsInduction, TLAPS

-----------------------------------------------------------------------------
(* Pages, requests, and what the helpers return.                           *)

ActivePairs == [server : Servers \cup {0}, channel : Channels \cup {0}]
ChannelPages == {At("channel", s, c) : s \in Servers, c \in Channels}
Answers == [servers : SUBSET Servers, rooms : SUBSET Channels, done : BOOLEAN]
Requests == [who : Effects \cup Handlers, server : Servers \cup {0},
             live : BOOLEAN, answer : Answers]

ShellTyped ==
  /\ joined \subseteq Servers /\ rooms \subseteq Channels /\ made \subseteq Channels
  /\ path \in Pages /\ active \in ActivePairs
  /\ visited.addresses \subseteq Pages /\ visited.last \in {Root} \cup ChannelPages
  /\ servers \subseteq Servers /\ listed \in [Servers -> SUBSET Channels]
  /\ reqs \subseteq Requests /\ want \in Servers \cup {0}

(* What the requests in flight have to do with where the user is.          *)
Indexes(r) == r.who \in {"index", "indexFirst"} /\ r.live
Leads(r) == r.who = "first" /\ r.live
Brings(r) == r.who \in {"create", "createList", "createFirst", "createChannel",
                        "join", "joinList", "joinFirst"}
Fits(r, p, a) ==
  /\ r.who \notin {"list", "index"} => r.server \in Servers
  /\ Brings(r) => r.server = New
  /\ r.who = "channels" => r.server = a.server
  /\ Indexes(r) => p.page = "root"
  /\ Leads(r) => r.server # p.server
  /\ ~r.live => r.who \in {"first", "index", "indexFirst"}
RequestsFit == \A r \in reqs : Fits(r, path, active)

(* What was heard from the backend is still so: it only grows.             *)
Honest ==
  /\ servers \subseteq joined
  /\ \A s \in Servers : listed[s] \subseteq In(rooms, s)
  /\ \A r \in reqs : /\ r.answer.servers \subseteq joined
                     /\ r.answer.rooms \subseteq In(rooms, r.server)

ChannelAgrees == path.channel # 0 => path.channel = active.channel
RootIsLeft == path.page = "root" => \E r \in reqs : Indexes(r)
ServerAgrees(p, a, rs) ==
  p.server # 0 => \/ p.server = a.server /\ p.server \in joined
                  \/ \E r \in rs : r.who = "list" \/ Leads(r)

(* A text channel is the user's, or a request will see to it.              *)
ChannelIsThere(p, a, rs) ==
  p.page = "channel" /\ p.server = a.server =>
    \/ p.channel \in In(rooms, p.server)
    \/ In(rooms, p.server) \subseteq made
    \/ \E r \in rs : Brings(r) /\ r.server = p.server
    \/ \E r \in rs : r.who = "channels" /\ (r.answer.done => r.answer.rooms # {})

LandsInv ==
  /\ ShellTyped /\ RequestsFit /\ Honest /\ ChannelAgrees /\ RootIsLeft
  /\ ServerAgrees(path, active, reqs) /\ ChannelIsThere(path, active, reqs)

(* The last click: it is being handled, and nothing else is; or it was.    *)
Pending(h) ==
  /\ h.who \in Handlers \ {"add", "addList"} /\ h.server = want
  /\ \A r \in reqs : r.who \in Handlers => r = h
  /\ h.who \in {"nav", "joinFirst"} /\ h.answer.done => h.answer.rooms = In(rooms, want)
  /\ h.who = "nav" => want \in joined
Handled ==
  /\ ~Busy
  /\ \/ In(rooms, want) = {} \/ want \notin joined
     \/ path.server = want /\ ~Leaving
ClickInv == ~overtaken /\ want # 0 => Handled \/ \E h \in reqs : Pending(h)

ShellInv == Untroubled => LandsInv /\ ClickInv

LEMMA PagesAre ==
  ASSUME NEW p \in Pages
  PROVE  /\ p.server \in Servers \cup {0} /\ p.channel \in Channels \cup {0}
         /\ p.page = "root" <=> p = Root
         /\ p.server = 0 <=> p.page \in {"root", "me"}
         /\ p.channel # 0 <=> p.page \in {"channel", "voice"}
         /\ p.page = "channel" => p \in ChannelPages
  BY ShellAssumption DEF Pages, ChannelPages, At, Root, DirectMessages

LEMMA ThePages ==
  /\ Root \in Pages /\ DirectMessages \in Pages /\ ChannelPages \subseteq Pages
  /\ Root.page = "root" /\ Root.server = 0 /\ Root.channel = 0
  /\ DirectMessages.page = "me" /\ DirectMessages.server = 0 /\ DirectMessages.channel = 0
  /\ \A page, s, c : /\ At(page, s, c).page = page
                     /\ At(page, s, c).server = s /\ At(page, s, c).channel = c
  BY DEF Pages, ChannelPages, At, Root, DirectMessages

LEMMA AskIs ==
  ASSUME NEW who \in Effects \cup Handlers, NEW s \in Servers \cup {0}
  PROVE  /\ Ask(who, s) \in Requests
         /\ Ask(who, s).who = who /\ Ask(who, s).server = s /\ Ask(who, s).live
         /\ Ask(who, s).answer.servers = {} /\ Ask(who, s).answer.rooms = {}
         /\ ~Ask(who, s).answer.done
  BY DEF Ask, NoAnswer, Requests, Answers

LEMMA MinIsIn ==
  ASSUME NEW S \in SUBSET Nat, S # {}
  PROVE  Min(S) \in S
<1>1. PICK x \in S : \A y \in S : ~(<<y, x>> \in OpToRel(<, Nat))
  BY WFMin, NatLessThanWellFounded
<1>2. \A y \in S : ~(y < x)
  BY <1>1 DEF OpToRel
<1>3. \A y \in S : x <= y
  BY <1>2
<1>4. QED
  BY <1>3 DEF Min

LEMMA FirstIs ==
  ASSUME NEW R \in SUBSET Channels, NEW s
  PROVE  \/ First(R, s) = 0 /\ In(R, s) = {}
         \/ First(R, s) # 0 /\ First(R, s) \in In(R, s)
<1>1. /\ In(R, s) \subseteq R /\ In(R, s) \in SUBSET Nat
      /\ In(R, s) \cap Texts \in SUBSET Nat /\ 0 \notin R
  BY ShellAssumption DEF In
<1>2. CASE In(R, s) \cap Texts # {}
  BY <1>1, <1>2, MinIsIn DEF First
<1>3. CASE In(R, s) \cap Texts = {} /\ In(R, s) # {}
  BY <1>1, <1>3, MinIsIn DEF First
<1>4. CASE In(R, s) = {}
  BY <1>4 DEF First
<1>5. QED
  BY <1>2, <1>3, <1>4

(* The navigation and the effects after it.                                *)
Became(p, a, others, more) ==
  /\ path' = p /\ active' \in ActivePairs
  /\ active'.server = IF p.server \notin {0, path.server} THEN p.server ELSE a.server
  /\ active'.channel = IF p.channel \notin {0, path.channel} THEN p.channel ELSE a.channel
  /\ visited'.addresses = visited.addresses \cup {p}
  /\ visited'.last = IF p.page = "channel" THEN p ELSE visited.last
  /\ p = path => active' = a
  /\ more \subseteq reqs'
  /\ \A q \in others : q.who \in Handlers => q \in reqs'
  /\ p = path => \A q \in others : q.who # "channels" => q \in reqs'
  /\ p = path /\ active' = active => others \subseteq reqs'
  /\ p # path => Ask("list", 0) \in reqs'
  /\ p # path /\ p = Root => Ask("index", 0) \in reqs'
  /\ (p # path \/ active' # active) /\ active'.server # 0
       => Ask("channels", active'.server) \in reqs'
  /\ \A q \in reqs' :
       \/ q \in more
       \/ p # path /\ q = Ask("list", 0)
       \/ p = Root /\ q = Ask("index", 0)
       \/ active'.server # 0 /\ q = Ask("channels", active'.server)
       \/ /\ q \in others
          /\ q.who = "list" => p = path
          /\ q.who = "channels" => p = path /\ active' = active
          /\ q.who \in {"first", "index", "indexFirst"} => p = path
       \/ \E o \in others : /\ q = [o EXCEPT !.live = FALSE] /\ p # path
                            /\ o.who \in {"first", "index", "indexFirst"}

LEMMA BecomeIs ==
  ASSUME NEW p \in Pages, NEW a \in ActivePairs, path \in Pages, active \in ActivePairs,
         NEW others \in SUBSET Requests, NEW more \in SUBSET Requests,
         Become(p, a, others, more)
  PROVE  Became(p, a, others, more)
<1> DEFINE a2 == [server |-> IF p.server \notin {0, path.server} THEN p.server ELSE a.server,
                  channel |-> IF p.channel \notin {0, path.channel} THEN p.channel ELSE a.channel]
           moved == p # path
           relist == moved \/ a2 # active
           Kept(r) == CASE r.who = "list" -> ~moved
                        [] r.who = "channels" -> ~relist
                        [] OTHER -> TRUE
           Cut(r) == IF moved /\ r.who \in {"first", "index", "indexFirst"}
                     THEN [r EXCEPT !.live = FALSE] ELSE r
           cut == {Cut(r) : r \in {q \in others : Kept(q)}}
<1>1. /\ path' = p /\ active' = a2
      /\ reqs' = cut \cup (IF moved THEN {Ask("list", 0)} ELSE {})
                     \cup (IF relist THEN {Ask("channels", s) : s \in {a2.server} \ {0}} ELSE {})
                     \cup (IF moved /\ p = Root THEN {Ask("index", 0)} ELSE {})
                     \cup more
      /\ visited' = [addresses |-> visited.addresses \cup {p},
                     last |-> IF p.page = "channel" THEN p ELSE visited.last]
  BY DEF Become
<1>2. a2 \in ActivePairs /\ (p = path => a2 = a)
  BY PagesAre DEF ActivePairs
<1>3. \A q \in others : Kept(q) => Cut(q) \in cut
  OBVIOUS
<1>4. \A q \in cut : \E o \in others : Kept(o) /\ q = Cut(o)
  OBVIOUS
<1>5. "list" \notin Handlers /\ "channels" \notin Handlers /\ "first" \notin Handlers
      /\ "index" \notin Handlers /\ "indexFirst" \notin Handlers
  BY DEF Handlers
<1>6. /\ \A q : q.who \in Handlers => Kept(q) /\ Cut(q) = q
      /\ ~moved => \A q : Cut(q) = q /\ (q.who # "channels" => Kept(q))
      /\ ~relist => \A q : Kept(q) /\ Cut(q) = q
      /\ \A q : Kept(q) /\ q.who = "list" => ~moved
      /\ \A q : Kept(q) /\ q.who = "channels" => ~relist
      /\ \A q : Cut(q) = q \/ (moved /\ q.who \in {"first", "index", "indexFirst"}
                               /\ Cut(q) = [q EXCEPT !.live = FALSE])
      /\ \A q : q.who \in {"first", "index", "indexFirst"} /\ moved
                  => Cut(q) = [q EXCEPT !.live = FALSE]
  BY <1>5
<1> HIDE DEF Kept, Cut, cut
<1>7. \A q \in cut :
        \/ /\ q \in others
           /\ q.who = "list" => p = path
           /\ q.who = "channels" => p = path /\ active' = active
           /\ q.who \in {"first", "index", "indexFirst"} => p = path
        \/ \E o \in others : /\ q = [o EXCEPT !.live = FALSE] /\ p # path
                             /\ o.who \in {"first", "index", "indexFirst"}
  <2> TAKE q \in cut
  <2>1. PICK o \in others : Kept(o) /\ q = Cut(o)
    BY <1>4
  <2>2. CASE moved /\ o.who \in {"first", "index", "indexFirst"}
    BY <2>1, <2>2, <1>6
  <2>3. CASE ~(moved /\ o.who \in {"first", "index", "indexFirst"})
    BY <2>1, <2>3, <1>6, <1>1
  <2>4. QED
    BY <2>2, <2>3
<1>8. /\ \A q \in others : q.who \in Handlers => q \in reqs'
      /\ p = path => \A q \in others : q.who # "channels" => q \in reqs'
      /\ p = path /\ active' = active => others \subseteq reqs'
  BY <1>1, <1>3, <1>6
<1>9. \A q \in reqs' : \/ q \in more \/ q \in cut
                       \/ p # path /\ q = Ask("list", 0)
                       \/ p = Root /\ q = Ask("index", 0)
                       \/ active'.server # 0 /\ q = Ask("channels", active'.server)
  BY <1>1
<1>10. /\ more \subseteq reqs'
       /\ p # path => Ask("list", 0) \in reqs'
       /\ p # path /\ p = Root => Ask("index", 0) \in reqs'
       /\ (p # path \/ active' # active) /\ active'.server # 0
             => Ask("channels", active'.server) \in reqs'
  BY <1>1
<1>11. /\ active'.server = IF p.server \notin {0, path.server} THEN p.server ELSE a.server
       /\ active'.channel = IF p.channel \notin {0, path.channel} THEN p.channel ELSE a.channel
       /\ visited'.addresses = visited.addresses \cup {p}
       /\ visited'.last = IF p.page = "channel" THEN p ELSE visited.last
  BY <1>1
<1> HIDE DEF a2, moved, relist
<1>12. QED
  BY <1>1, <1>2, <1>7, <1>8, <1>9, <1>10, <1>11 DEF Became

(* What a navigation has to see to, for the user to land.                  *)
LEMMA NavigationKeeps ==
  ASSUME LandsInv, NEW p \in Pages, NEW a \in ActivePairs,
         NEW others \in SUBSET reqs, NEW more \in SUBSET Requests,
         Become(p, a, others, more), UNCHANGED <<joined, rooms, made>>,
         want' \in Servers \cup {0}, servers' \subseteq joined,
         listed' \in [Servers -> SUBSET Channels], \A s \in Servers : listed'[s] \subseteq In(rooms, s),
         \A q \in more : /\ p = path /\ q.server \in Servers /\ q.live
                         /\ q.answer.servers = {} /\ q.answer.rooms = {}
                         /\ \/ q.who = "first" /\ q.server # p.server
                            \/ q.who = "indexFirst" /\ p.page = "root",
         p.channel # 0 /\ p.channel = path.channel => a.channel = p.channel,
         p = path /\ p = Root => \E q \in others \cup more : Indexes(q),
         p = path => ServerAgrees(p, a, others \cup more),
         p = path /\ a = active => ChannelIsThere(p, a, others)
  PROVE  LandsInv'
<1> USE DEF LandsInv
<1>1. path \in Pages /\ active \in ActivePairs /\ others \subseteq Requests
  BY DEF ShellTyped
<1>b. Became(p, a, others, more)
  BY <1>1, BecomeIs
<1> DEFINE list == Ask("list", 0)
           index == Ask("index", 0)
           channels == Ask("channels", active'.server)
           Old(q) == /\ q \in others
                     /\ q.who = "list" => p = path
                     /\ q.who = "channels" => p = path /\ active' = active
                     /\ q.who \in {"first", "index", "indexFirst"} => p = path
           CutOff(q) == \E o \in others : /\ q = [o EXCEPT !.live = FALSE] /\ p # path
                                          /\ o.who \in {"first", "index", "indexFirst"}
<1>2. /\ path' = p /\ active' \in ActivePairs
      /\ active'.server = IF p.server \notin {0, path.server} THEN p.server ELSE a.server
      /\ active'.channel = IF p.channel \notin {0, path.channel} THEN p.channel ELSE a.channel
      /\ visited'.addresses = visited.addresses \cup {p}
      /\ visited'.last = IF p.page = "channel" THEN p ELSE visited.last
      /\ p = path => active' = a
  BY <1>b DEF Became
<1>3. /\ more \subseteq reqs'
      /\ p = path => \A q \in others : q.who # "channels" => q \in reqs'
      /\ p = path /\ active' = active => others \subseteq reqs'
      /\ p # path => list \in reqs'
      /\ p # path /\ p = Root => index \in reqs'
      /\ (p # path \/ active' # active) /\ active'.server # 0 => channels \in reqs'
  BY <1>b DEF Became
<1>4. \A q \in reqs' : \/ q \in more
                       \/ p # path /\ q = list
                       \/ p = Root /\ q = index
                       \/ active'.server # 0 /\ q = channels
                       \/ Old(q) \/ CutOff(q)
  BY <1>b DEF Became
<1>5. /\ p.server \in Servers \cup {0} /\ p.channel \in Channels \cup {0}
      /\ p.page = "root" <=> p = Root
      /\ p.server = 0 <=> p.page \in {"root", "me"}
      /\ p.channel # 0 <=> p.page \in {"channel", "voice"}
      /\ p.page = "channel" => p \in ChannelPages
  BY PagesAre
<1>6. active'.server \in Servers \cup {0}
  BY <1>2 DEF ActivePairs
<1>7. /\ list \in Requests /\ list.who = "list" /\ list.live /\ ~list.answer.done
      /\ list.answer.servers = {} /\ list.answer.rooms = {}
      /\ index \in Requests /\ index.who = "index" /\ index.live
      /\ index.answer.servers = {} /\ index.answer.rooms = {}
      /\ channels \in Requests /\ channels.who = "channels" /\ channels.live
      /\ channels.server = active'.server
      /\ channels.answer.servers = {} /\ channels.answer.rooms = {} /\ ~channels.answer.done
  BY <1>6, AskIs DEF Effects
<1> HIDE DEF list, index, channels
<1>8. ASSUME NEW q \in reqs', CutOff(q)
      PROVE  \E o \in reqs : /\ q.who = o.who /\ q.server = o.server /\ q.answer = o.answer
                             /\ ~q.live /\ q.who \in {"first", "index", "indexFirst"}
                             /\ q \in Requests
  <2>1. PICK o \in others : q = [o EXCEPT !.live = FALSE] /\ o.who \in {"first", "index", "indexFirst"}
    BY <1>8
  <2>2. o \in Requests
    BY <1>1
  <2>3. q.who = o.who /\ q.server = o.server /\ q.answer = o.answer /\ ~q.live /\ q \in Requests
    BY <2>1, <2>2 DEF Requests
  <2>4. QED
    BY <2>1, <2>3
<1>9. ShellTyped'
  <2>1. reqs' \subseteq Requests
    BY <1>1, <1>4, <1>7, <1>8
  <2>2. servers' \subseteq Servers
    BY DEF ShellTyped
  <2>3. visited'.addresses \subseteq Pages /\ visited'.last \in {Root} \cup ChannelPages
    BY <1>2, <1>5 DEF ShellTyped
  <2>4. QED
    BY <1>2, <2>1, <2>2, <2>3 DEF ShellTyped
<1>10. RequestsFit'
  <2>1. SUFFICES ASSUME NEW q \in reqs' PROVE Fits(q, p, active')
    BY <1>2 DEF RequestsFit
  <2>2. CASE q \in more
    BY <2>2 DEF Fits, Brings, Indexes, Leads
  <2>3. CASE q = list \/ (active'.server # 0 /\ q = channels)
    BY <2>3, <1>6, <1>7 DEF Fits, Brings, Indexes, Leads
  <2>4. CASE p = Root /\ q = index
    BY <2>4, <1>5, <1>7 DEF Fits, Brings, Indexes, Leads
  <2>5. CASE Old(q)
    BY <2>5, <1>2 DEF RequestsFit, Fits, Indexes, Leads
  <2>6. CASE CutOff(q)
    BY <2>6, <1>8 DEF RequestsFit, Fits, Brings, Indexes, Leads
  <2>7. QED
    BY <1>4, <2>2, <2>3, <2>4, <2>5, <2>6
<1>11. Honest'
  <2>1. ASSUME NEW q \in reqs'
        PROVE  q.answer.servers \subseteq joined /\ q.answer.rooms \subseteq In(rooms, q.server)
    <3>1. CASE q \in more \/ q = list \/ q = index \/ q = channels
      BY <3>1, <1>7
    <3>2. CASE Old(q) \/ CutOff(q)
      BY <3>2, <1>8 DEF Honest
    <3>3. QED
      BY <1>4, <3>1, <3>2
  <2>2. QED
    BY <2>1 DEF Honest, In
<1>12. ChannelAgrees'
  BY <1>2, <1>5 DEF ChannelAgrees
<1>13. RootIsLeft'
  <2>1. SUFFICES ASSUME p = Root PROVE \E q \in reqs' : Indexes(q)
    BY <1>2, <1>5 DEF RootIsLeft
  <2>2. CASE p # path
    BY <2>1, <2>2, <1>3, <1>7 DEF Indexes
  <2>3. CASE p = path
    BY <2>1, <2>3, <1>3 DEF Indexes
  <2>4. QED
    BY <2>2, <2>3
<1>14. ServerAgrees(path, active, reqs)'
  <2>1. CASE p # path
    BY <2>1, <1>2, <1>3, <1>7 DEF ServerAgrees
  <2>2. CASE p = path
    BY <2>2, <1>2, <1>3 DEF ServerAgrees, Leads
  <2>3. QED
    BY <2>1, <2>2
<1>15. ChannelIsThere(path, active, reqs)'
  <2>1. CASE p # path \/ active' # active
    <3>1. SUFFICES ASSUME p.page = "channel", p.server = active'.server
                   PROVE  channels \in reqs'
      BY <1>2, <1>7 DEF ChannelIsThere
    <3>2. QED
      BY <2>1, <3>1, <1>3, <1>5
  <2>2. CASE p = path /\ active' = active
    <3>1. a = active /\ others \subseteq reqs'
      BY <2>2, <1>2, <1>3
    <3>2. ChannelIsThere(p, a, others)
      BY <2>2, <3>1
    <3>3. QED
      BY <2>2, <1>2, <3>1, <3>2 DEF ChannelIsThere, In
  <2>3. QED
    BY <2>1, <2>2
<1>16. QED
  BY <1>9, <1>10, <1>11, <1>12, <1>13, <1>14, <1>15

LEMMA PlainNavigationKeeps ==
  ASSUME LandsInv, NEW p \in Pages, NEW a \in ActivePairs, NEW others \in SUBSET reqs,
         Become(p, a, others, {}), UNCHANGED <<joined, rooms, made>>,
         want' \in Servers \cup {0}, servers' \subseteq joined,
         listed' \in [Servers -> SUBSET Channels], \A s \in Servers : listed'[s] \subseteq In(rooms, s),
         p.channel # 0 /\ p.channel = path.channel => a.channel = p.channel,
         p = path /\ p = Root => \E q \in others : Indexes(q),
         p = path => ServerAgrees(p, a, others),
         p = path /\ a = active => ChannelIsThere(p, a, others)
  PROVE  LandsInv'
<1> DEFINE more == {}
<1>1. more \in SUBSET Requests /\ others \cup more = others /\ Become(p, a, others, more)
  OBVIOUS
<1>2. \A q \in more : /\ p = path /\ q.server \in Servers /\ q.live
                      /\ q.answer.servers = {} /\ q.answer.rooms = {}
                      /\ \/ q.who = "first" /\ q.server # p.server
                         \/ q.who = "indexFirst" /\ p.page = "root"
  OBVIOUS
<1> HIDE DEF more
<1>3. /\ p = path /\ p = Root => \E q \in others \cup more : Indexes(q)
      /\ p = path => ServerAgrees(p, a, others \cup more)
  BY <1>1
<1>4. QED
  BY <1>1, <1>2, <1>3, NavigationKeeps

LEMMA RedirectKeeps ==
  ASSUME LandsInv, NEW p \in Pages, p # path \/ p = DirectMessages, NEW r \in reqs,
         Become(p, active, reqs \ {r}, {}), servers' \subseteq joined,
         UNCHANGED <<joined, rooms, made, listed, want>>
  PROVE  LandsInv'
<1>1. /\ active \in ActivePairs /\ want' \in Servers \cup {0}
      /\ listed' \in [Servers -> SUBSET Channels]
      /\ \A s \in Servers : listed'[s] \subseteq In(rooms, s)
  BY DEF LandsInv, ShellTyped, Honest
<1>2. p.channel # 0 /\ p.channel = path.channel => active.channel = p.channel
  BY DEF LandsInv, ChannelAgrees
<1>3. p = path => p.page = "me" /\ p.server = 0 /\ p # Root
  BY ThePages
<1>4. p = path => ServerAgrees(p, active, reqs \ {r})
  BY <1>3 DEF ServerAgrees
<1>5. p = path => ChannelIsThere(p, active, reqs \ {r})
  BY <1>3 DEF ChannelIsThere
<1>6. QED
  <2>1. reqs \ {r} \in SUBSET reqs
    OBVIOUS
  <2>2. QED
    BY <1>1, <1>2, <1>3, <1>4, <1>5, <2>1, PlainNavigationKeeps

LEMMA EnterKeeps ==
  ASSUME LandsInv, NEW s \in Servers, NEW c, c = 0 \/ c \in In(rooms, s),
         NEW r \in reqs, r.who \notin {"list", "first"}, Enter(s, c, reqs \ {r}),
         servers' \subseteq joined, UNCHANGED <<joined, rooms, made, want>>,
         listed' \in [Servers -> SUBSET Channels], \A t \in Servers : listed'[t] \subseteq In(rooms, t)
  PROVE  LandsInv'
<1>1. active \in ActivePairs /\ want' \in Servers \cup {0} /\ rooms \subseteq Channels
  BY DEF LandsInv, ShellTyped
<1>2. CASE c = 0
  <2>1. DirectMessages \in Pages /\ DirectMessages.page = "me" /\ DirectMessages.server = 0
        /\ DirectMessages.channel = 0 /\ DirectMessages # Root
    BY ThePages
  <2>2. Become(DirectMessages, active, reqs \ {r}, {})
    BY <1>2 DEF Enter
  <2>3. ServerAgrees(DirectMessages, active, reqs \ {r})
    BY <2>1 DEF ServerAgrees
  <2>4. ChannelIsThere(DirectMessages, active, reqs \ {r})
    BY <2>1 DEF ChannelIsThere
  <2>5. QED
    BY <1>1, <2>1, <2>2, <2>3, <2>4, PlainNavigationKeeps
<1>3. CASE c # 0
  <2> DEFINE p == At("channel", s, c)
             a == [server |-> s, channel |-> c]
  <2>1. c \in Channels /\ c \in In(rooms, s)
    BY <1>1, <1>3 DEF In
  <2>2. p \in ChannelPages /\ a \in ActivePairs
    BY <2>1 DEF ChannelPages, ActivePairs
  <2>3. p \in Pages /\ p.page = "channel" /\ p.server = s /\ p.channel = c /\ p # Root
    BY <2>2, ThePages
  <2>4. a.server = s /\ a.channel = c
    OBVIOUS
  <2>5. Become(p, a, reqs \ {r}, {})
    BY <1>3 DEF Enter
  <2> HIDE DEF p, a
  <2>6. p = path => ServerAgrees(p, a, reqs \ {r})
    <3>1. p = path => \/ s \in joined
                      \/ \E q \in reqs : q.who = "list" \/ Leads(q)
      BY <2>3, ShellAssumption DEF LandsInv, ServerAgrees
    <3>2. QED
      BY <2>3, <2>4, <3>1 DEF ServerAgrees, Leads
  <2>7. ChannelIsThere(p, a, reqs \ {r})
    BY <2>1, <2>3 DEF ChannelIsThere
  <2>8. QED
    BY <1>1, <2>2, <2>3, <2>4, <2>5, <2>6, <2>7, PlainNavigationKeeps
<1>4. QED
  BY <1>2, <1>3

\* What an answer is about.
LEMMA RequestIs ==
  ASSUME LandsInv, NEW r \in reqs
  PROVE  /\ r \in Requests /\ r.answer.servers \in SUBSET Servers
         /\ r.answer.rooms \in SUBSET Channels
         /\ r.answer.servers \subseteq joined /\ r.answer.rooms \subseteq In(rooms, r.server)
         /\ r.who \notin {"list", "index"} => r.server \in Servers
         /\ Brings(r) => r.server = New
         /\ r.who = "channels" => r.server = active.server
         /\ Indexes(r) => path.page = "root"
         /\ Leads(r) => r.server # path.server
         /\ ~r.live => r.who \in {"first", "index", "indexFirst"}
         /\ First(r.answer.rooms, r.server) = 0
              \/ First(r.answer.rooms, r.server) \in In(rooms, r.server)
<1>1. r \in Requests
  BY DEF LandsInv, ShellTyped
<1>2. r.answer \in Answers
  BY <1>1 DEF Requests
<1>3. r.answer.servers \in SUBSET Servers /\ r.answer.rooms \in SUBSET Channels
  BY <1>2 DEF Answers
<1>4. r.answer.servers \subseteq joined /\ r.answer.rooms \subseteq In(rooms, r.server)
  BY DEF LandsInv, Honest
<1>5. Fits(r, path, active)
  BY DEF LandsInv, RequestsFit
<1>6. First(r.answer.rooms, r.server) = 0
        \/ First(r.answer.rooms, r.server) \in In(r.answer.rooms, r.server)
  BY <1>3, FirstIs
<1>7. First(r.answer.rooms, r.server) = 0
        \/ First(r.answer.rooms, r.server) \in In(rooms, r.server)
  BY <1>4, <1>6 DEF In
<1>8. QED
  BY <1>1, <1>3, <1>4, <1>5, <1>7 DEF Fits

LEMMA ListArrivesLands ==
  ASSUME LandsInv, NEW r, ListArrives(r)
  PROVE  LandsInv'
<1>1. /\ r \in reqs /\ r.who = "list" /\ servers' = r.answer.servers
      /\ UNCHANGED <<joined, rooms, listed, want, overtaken, made, clicks, trouble>>
  BY DEF ListArrives, Arrives
<1>2. /\ servers' \in SUBSET Nat /\ servers' \subseteq joined /\ servers' \subseteq Servers
      /\ path \in Pages /\ active \in ActivePairs /\ want' \in Servers \cup {0}
      /\ listed' \in [Servers -> SUBSET Channels]
      /\ \A s \in Servers : listed'[s] \subseteq In(rooms, s)
  BY <1>1, RequestIs, ShellAssumption DEF LandsInv, ShellTyped, Honest
<1>3. CASE servers' = {}
  BY <1>1, <1>2, <1>3, RedirectKeeps, ThePages DEF ListArrives
<1>4. CASE servers' # {}
  <2> DEFINE next == IF path.server \in servers' THEN path.server ELSE Min(servers')
             leads == path.page # "root" /\ path.page # "me" /\ path.server # next
             a == [active EXCEPT !.server = next]
             more == IF leads THEN {Ask("first", next)} ELSE {}
  <2>1. next \in servers' /\ next \in Servers
    BY <1>2, <1>4, MinIsIn
  <2>2. Become(path, a, reqs \ {r}, more)
    BY <1>4 DEF ListArrives
  <2>3. /\ a \in ActivePairs /\ a.server = next /\ a.channel = active.channel
        /\ next = active.server => a = active
    BY <1>2, <2>1 DEF ActivePairs
  <2>4. \A q \in more : /\ q.server = next /\ q.live /\ q \in Requests /\ leads
                        /\ q.answer.servers = {} /\ q.answer.rooms = {} /\ q.who = "first"
    BY <2>1, AskIs DEF Effects
  <2>5. leads => \E q \in more : Leads(q)
    BY <2>1, AskIs DEF Effects, Leads
  <2>6. path.server = 0 <=> path.page \in {"root", "me"}
    BY <1>2, PagesAre
  <2>7. path.server # 0 /\ ~leads => path.server = next
    BY <2>6
  <2>8. \A q \in more : /\ q.server \in Servers /\ q.live /\ q.who = "first"
                        /\ q.server # path.server /\ q \in Requests
                        /\ q.answer.servers = {} /\ q.answer.rooms = {}
    BY <2>1, <2>4
  <2> HIDE DEF next, leads, a, more
  <2>9. ServerAgrees(path, a, (reqs \ {r}) \cup more)
    BY <1>2, <2>1, <2>3, <2>5, <2>7 DEF ServerAgrees
  <2>10. path = Root => \E q \in (reqs \ {r}) \cup more : Indexes(q)
    BY <1>1, ThePages DEF LandsInv, RootIsLeft, Indexes
  <2>11. a = active => ChannelIsThere(path, a, reqs \ {r})
    BY <1>1 DEF LandsInv, ChannelIsThere, Brings
  <2>12. path.channel # 0 => a.channel = path.channel
    BY <2>3 DEF LandsInv, ChannelAgrees
  <2> DEFINE others == reqs \ {r}
  <2>13. /\ others \in SUBSET reqs /\ more \in SUBSET Requests /\ Become(path, a, others, more)
         /\ UNCHANGED <<joined, rooms, made>>
    BY <1>1, <2>2, <2>8
  <2>14. \A q \in more : /\ path = path /\ q.server \in Servers /\ q.live
                         /\ q.answer.servers = {} /\ q.answer.rooms = {}
                         /\ \/ q.who = "first" /\ q.server # path.server
                            \/ q.who = "indexFirst" /\ path.page = "root"
    BY <2>8
  <2>15. /\ ServerAgrees(path, a, others \cup more)
         /\ path = Root => \E q \in others \cup more : Indexes(q)
         /\ a = active => ChannelIsThere(path, a, others)
    BY <2>9, <2>10, <2>11
  <2> HIDE DEF others
  <2>16. /\ path \in Pages /\ a \in ActivePairs /\ want' \in Servers \cup {0}
         /\ servers' \subseteq joined /\ listed' \in [Servers -> SUBSET Channels]
         /\ \A s \in Servers : listed'[s] \subseteq In(rooms, s)
    BY <1>2, <2>3
  <2>17. QED
    BY <2>12, <2>13, <2>14, <2>15, <2>16, NavigationKeeps
<1>5. QED
  BY <1>3, <1>4

LEMMA FirstArrivesLands ==
  ASSUME LandsInv, NEW r, FirstArrives(r) \/ IndexFirstArrives(r)
  PROVE  LandsInv'
<1> DEFINE c == First(r.answer.rooms, r.server)
           p == IF c = 0 THEN DirectMessages ELSE At("channel", r.server, c)
<1>1. /\ r \in reqs /\ (Leads(r) \/ (Indexes(r) /\ r.who = "indexFirst"))
      /\ Become(p, active, reqs \ {r}, {})
      /\ UNCHANGED <<joined, rooms, servers, listed, want, overtaken, made, clicks, trouble>>
  BY DEF FirstArrives, IndexFirstArrives, Arrives, Leads, Indexes
<1>2. /\ r.server \in Servers /\ (c = 0 \/ c \in In(rooms, r.server))
      /\ Leads(r) => r.server # path.server
      /\ Indexes(r) => path.page = "root"
  BY <1>1, RequestIs DEF Leads
<1>3. rooms \subseteq Channels /\ servers \subseteq joined
  BY DEF LandsInv, ShellTyped, Honest
<1>4. c # 0 => At("channel", r.server, c) \in ChannelPages
  BY <1>2, <1>3 DEF ChannelPages, In
<1> HIDE DEF c
<1>5. p \in Pages /\ (p = DirectMessages \/ (p.page = "channel" /\ p.server = r.server))
  BY <1>4, ThePages
<1>6. p = DirectMessages \/ p # path
  BY <1>1, <1>2, <1>5
<1> HIDE DEF p
<1>7. QED
  BY <1>1, <1>3, <1>5, <1>6, RedirectKeeps

LEMMA ChannelsArriveLands ==
  ASSUME LandsInv, NEW r, ChannelsArrive(r)
  PROVE  LandsInv'
<1>1. /\ r \in reqs /\ r.who = "channels"
      /\ listed' = [listed EXCEPT ![r.server] = r.answer.rooms]
      /\ UNCHANGED <<joined, rooms, servers, want, overtaken, made, clicks, trouble>>
  BY DEF ChannelsArrive, Arrives
<1>2. /\ r.server \in Servers /\ r.server = active.server
      /\ r.answer.rooms \in SUBSET Channels /\ r.answer.rooms \subseteq In(rooms, r.server)
      /\ First(r.answer.rooms, r.server) = 0
           \/ First(r.answer.rooms, r.server) \in In(rooms, r.server)
  BY <1>1, RequestIs
<1>3. /\ listed' \in [Servers -> SUBSET Channels]
      /\ \A s \in Servers : listed'[s] \subseteq In(rooms, s)
  BY <1>1, <1>2 DEF LandsInv, ShellTyped, Honest
<1>4. /\ servers' \subseteq joined /\ want' \in Servers \cup {0}
      /\ path \in Pages /\ active \in ActivePairs /\ reqs \ {r} \in SUBSET reqs
  BY <1>1 DEF LandsInv, ShellTyped, Honest
<1>5. CASE \/ active.channel \in r.answer.rooms \/ r.answer.rooms = {}
           \/ path.page \in {"voice", "tournaments"}
  <2>1. Become(path, active, reqs \ {r}, {})
    BY <1>5 DEF ChannelsArrive
  <2>2. path.channel # 0 => active.channel = path.channel
    BY DEF LandsInv, ChannelAgrees
  <2>3. path = Root => \E q \in reqs \ {r} : Indexes(q)
    BY <1>1, ThePages DEF LandsInv, RootIsLeft, Indexes
  <2>4. ServerAgrees(path, active, reqs \ {r})
    BY <1>1 DEF LandsInv, ServerAgrees, Leads
  <2>5. ChannelIsThere(path, active, reqs \ {r})
    <3>1. SUFFICES ASSUME path.page = "channel", path.server = active.server,
                          ~(path.channel \in In(rooms, path.server)),
                          ~(In(rooms, path.server) \subseteq made),
                          ~(\E q \in reqs \ {r} : Brings(q) /\ q.server = path.server)
                   PROVE  \E q \in reqs \ {r} :
                            q.who = "channels" /\ (q.answer.done => q.answer.rooms # {})
      BY DEF ChannelIsThere
    <3>2. path.channel # 0 /\ path.channel = active.channel
      BY <1>4, <2>2, <3>1, PagesAre
    <3>3. active.channel \notin r.answer.rooms
      BY <1>2, <3>1, <3>2
    <3>4. r.answer.rooms = {} /\ r.answer.done
      BY <1>5, <3>1, <3>3 DEF ChannelsArrive, Arrives
    <3>5. ChannelIsThere(path, active, reqs)
      BY DEF LandsInv
    <3>6. PICK q \in reqs : \/ Brings(q) /\ q.server = path.server
                            \/ q.who = "channels" /\ (q.answer.done => q.answer.rooms # {})
      BY <3>1, <3>5 DEF ChannelIsThere
    <3>7. q # r
      BY <1>1, <3>4, <3>6 DEF Brings
    <3>8. QED
      BY <3>1, <3>6, <3>7
  <2>6. QED
    BY <1>1, <1>3, <1>4, <2>1, <2>2, <2>3, <2>4, <2>5, PlainNavigationKeeps
<1>6. CASE ~(\/ active.channel \in r.answer.rooms \/ r.answer.rooms = {}
             \/ path.page \in {"voice", "tournaments"})
  <2>1. Enter(r.server, First(r.answer.rooms, r.server), reqs \ {r})
    BY <1>6 DEF ChannelsArrive
  <2>2. QED
    BY <1>1, <1>2, <1>3, <1>4, <2>1, EnterKeeps
<1>7. QED
  BY <1>5, <1>6

LEMMA IndexArrivesLands ==
  ASSUME LandsInv, NEW r, IndexArrives(r)
  PROVE  LandsInv'
<1>1. /\ r \in reqs /\ Indexes(r)
      /\ UNCHANGED <<joined, rooms, servers, listed, want, overtaken, made, clicks, trouble>>
  BY DEF IndexArrives, Arrives, Indexes
<1>2. /\ path.page = "root" /\ path \in Pages /\ r.answer.servers \in SUBSET Servers
      /\ r.answer.servers \in SUBSET Nat /\ 0 \notin Servers
      /\ servers' \subseteq joined /\ want' \in Servers \cup {0}
      /\ visited.last \in {Root} \cup ChannelPages
      /\ active \in ActivePairs /\ reqs \ {r} \in SUBSET reqs
      /\ listed' \in [Servers -> SUBSET Channels]
      /\ \A s \in Servers : listed'[s] \subseteq In(rooms, s)
  BY <1>1, RequestIs, ShellAssumption DEF LandsInv, ShellTyped, Honest
<1>3. path = Root /\ path.server = 0 /\ path.channel = 0
  BY <1>2, PagesAre, ThePages
<1>4. CASE r.answer.servers = {}
  <2>1. Become(DirectMessages, active, reqs \ {r}, {})
    BY <1>4 DEF IndexArrives
  <2>2. QED
    BY <1>1, <1>2, <2>1, RedirectKeeps, ThePages
<1>5. CASE r.answer.servers # {} /\ visited.last.server \in r.answer.servers
  <2>1. Become(visited.last, active, reqs \ {r}, {})
    BY <1>5 DEF IndexArrives
  <2>2. visited.last # Root
    BY <1>2, <1>5, ThePages
  <2>3. visited.last \in Pages /\ visited.last # path
    BY <1>2, <1>3, <2>2, ThePages
  <2>4. QED
    BY <1>1, <1>2, <2>1, <2>3, RedirectKeeps
<1>6. CASE r.answer.servers # {} /\ visited.last.server \notin r.answer.servers
  <2> DEFINE first == Min(r.answer.servers)
             more == {Ask("indexFirst", first)}
  <2>1. first \in Servers
    BY <1>2, <1>6, MinIsIn
  <2>2. Become(path, active, reqs \ {r}, more)
    BY <1>6 DEF IndexArrives
  <2>3. \A q \in more : /\ q \in Requests /\ q.who = "indexFirst" /\ q.server \in Servers
                        /\ q.live /\ q.answer.servers = {} /\ q.answer.rooms = {}
    BY <2>1, AskIs DEF Effects
  <2>4. \E q \in more : Indexes(q)
    BY <2>3 DEF Indexes
  <2> HIDE DEF more
  <2>5. ServerAgrees(path, active, (reqs \ {r}) \cup more)
    BY <1>3 DEF ServerAgrees
  <2>6. ChannelIsThere(path, active, reqs \ {r})
    BY <1>2 DEF ChannelIsThere
  <2>7. QED
    BY <1>1, <1>2, <1>3, <2>2, <2>3, <2>4, <2>5, <2>6, NavigationKeeps
<1>7. QED
  BY <1>4, <1>5, <1>6 DEF IndexArrives

\* The address stays, and requests are dropped, answered, followed by others or made.
LEMMA StandingKeeps ==
  ASSUME LandsInv, NEW gone \in SUBSET reqs, NEW more \in SUBSET Requests,
         reqs' = (reqs \ gone) \cup more, UNCHANGED <<path, visited, active>>,
         joined \subseteq joined', joined' \subseteq Servers,
         rooms \subseteq rooms', rooms' \subseteq Channels,
         made \subseteq made', made' \subseteq Channels,
         want' \in Servers \cup {0}, servers' \subseteq joined',
         listed' \in [Servers -> SUBSET Channels],
         \A s \in Servers : listed'[s] \subseteq In(rooms', s),
         \A q \in more : /\ Fits(q, path, active) /\ q.answer.servers \subseteq joined'
                         /\ q.answer.rooms \subseteq In(rooms', q.server),
         \A r \in gone : /\ Indexes(r) => \E q \in more : Indexes(q)
                         /\ r.who = "list" \/ Leads(r)
                              => \E q \in more : q.who = "list" \/ Leads(q),
         ChannelIsThere(path, active, reqs) => ChannelIsThere(path, active, reqs)'
  PROVE  LandsInv'
<1> USE DEF LandsInv
<1>1. ShellTyped'
  BY DEF ShellTyped
<1>2. RequestsFit'
  BY DEF RequestsFit
<1>3. Honest'
  <2>1. ASSUME NEW q \in reqs
        PROVE  q.answer.servers \subseteq joined' /\ q.answer.rooms \subseteq In(rooms', q.server)
    BY DEF Honest, In
  <2>2. QED
    BY <2>1 DEF Honest, In
<1>4. ChannelAgrees'
  BY DEF ChannelAgrees
<1>5. RootIsLeft'
  BY DEF RootIsLeft
<1>6. ServerAgrees(path, active, reqs)'
  BY DEF ServerAgrees
<1>7. QED
  BY <1>1, <1>2, <1>3, <1>4, <1>5, <1>6

LEMMA ChannelStaysThere ==
  ASSUME NEW gone \in SUBSET reqs, NEW more, reqs' = (reqs \ gone) \cup more,
         UNCHANGED <<path, active, rooms>>, made \subseteq made',
         \A r \in gone : /\ Brings(r) => \E q \in more : Brings(q) /\ q.server = r.server
                         /\ r.who # "channels",
         ChannelIsThere(path, active, reqs)
  PROVE  ChannelIsThere(path, active, reqs)'
<1>1. SUFFICES ASSUME path.page = "channel", path.server = active.server,
                      ~(path.channel \in In(rooms, path.server)),
                      ~(In(rooms, path.server) \subseteq made)
               PROVE  \/ \E q \in reqs' : Brings(q) /\ q.server = path.server
                      \/ \E q \in reqs' : q.who = "channels" /\ (q.answer.done => q.answer.rooms # {})
  BY DEF ChannelIsThere, In
<1>2. PICK q \in reqs : \/ Brings(q) /\ q.server = path.server
                        \/ q.who = "channels" /\ (q.answer.done => q.answer.rooms # {})
  BY <1>1 DEF ChannelIsThere
<1>3. QED
  BY <1>2

LEMMA DroppedLands ==
  ASSUME LandsInv, NEW r, Dropped(r)
  PROVE  LandsInv'
<1> DEFINE gone == {r}
           more == {}
<1>1. /\ r \in reqs /\ ~r.live /\ gone \in SUBSET reqs /\ more \in SUBSET Requests
      /\ reqs' = (reqs \ gone) \cup more
      /\ UNCHANGED <<joined, rooms, path, visited, active, servers, listed, want, made>>
  BY DEF Dropped
<1>2. r.who \in {"first", "index", "indexFirst"}
  BY <1>1, RequestIs
<1>3. \A x \in gone : /\ ~Indexes(x) /\ ~Leads(x) /\ ~Brings(x)
                      /\ x.who \notin {"list", "channels"}
  BY <1>1, <1>2 DEF Indexes, Leads, Brings
<1>4. \A x \in more : FALSE
  OBVIOUS
<1> HIDE DEF gone, more
<1>5. ChannelIsThere(path, active, reqs) => ChannelIsThere(path, active, reqs)'
  BY <1>1, <1>3, ChannelStaysThere
<1>6. /\ joined \subseteq Servers /\ rooms \subseteq Channels /\ made \subseteq Channels
      /\ want \in Servers \cup {0} /\ listed \in [Servers -> SUBSET Channels]
      /\ servers \subseteq joined /\ \A s \in Servers : listed[s] \subseteq In(rooms, s)
  BY DEF LandsInv, ShellTyped, Honest
<1>7. QED
  BY <1>1, <1>3, <1>4, <1>5, <1>6, StandingKeeps

LEMMA NavArrivesLands ==
  ASSUME LandsInv, NEW r, NavArrives(r)
  PROVE  LandsInv'
<1>1. /\ r \in reqs /\ r.who \in {"nav", "joinFirst"}
      /\ Enter(r.server, First(r.answer.rooms, r.server), reqs \ {r})
      /\ UNCHANGED <<joined, rooms, servers, listed, want, made>>
  BY DEF NavArrives, Arrives
<1>2. /\ r.server \in Servers
      /\ First(r.answer.rooms, r.server) = 0
           \/ First(r.answer.rooms, r.server) \in In(rooms, r.server)
  BY <1>1, RequestIs
<1>3. /\ listed' \in [Servers -> SUBSET Channels] /\ servers' \subseteq joined
      /\ \A s \in Servers : listed'[s] \subseteq In(rooms, s)
  BY <1>1 DEF LandsInv, ShellTyped, Honest
<1>4. QED
  BY <1>1, <1>2, <1>3, EnterKeeps

\* A handler goes on to its next request.
LEMMA ContinueLands ==
  ASSUME LandsInv, NEW r \in reqs,
         NEW who \in {"createList", "createFirst", "createChannel", "joinList", "joinFirst", "addList"},
         r.who \in Handlers, r.server \in Servers,
         Brings(r) <=> who # "addList", Continue(r, who), servers' \subseteq joined, UNCHANGED listed
  PROVE  LandsInv'
<1> DEFINE gone == {r}
           more == {Ask(who, r.server)}
<1>0. who \in Effects \cup Handlers
  BY DEF Handlers
<1>1. /\ Ask(who, r.server) \in Requests /\ Ask(who, r.server).who = who
      /\ Ask(who, r.server).server = r.server /\ Ask(who, r.server).live
      /\ Ask(who, r.server).answer.servers = {} /\ Ask(who, r.server).answer.rooms = {}
  BY <1>0, AskIs
<1>2. /\ gone \in SUBSET reqs /\ more \in SUBSET Requests
      /\ reqs' = (reqs \ gone) \cup more
      /\ UNCHANGED <<joined, rooms, path, visited, active, want, made>>
  BY <1>1 DEF Continue
<1>3. Brings(r) => r.server = New
  BY RequestIs
<1>4. \A q \in more : /\ Fits(q, path, active) /\ q.answer.servers \subseteq joined'
                      /\ q.answer.rooms \subseteq In(rooms', q.server)
  <2>1. who \notin {"list", "index", "channels", "first", "indexFirst"}
    OBVIOUS
  <2>2. Brings(Ask(who, r.server)) => r.server = New
    BY <1>1, <1>3 DEF Brings
  <2>3. Fits(Ask(who, r.server), path, active)
    BY <1>1, <2>1, <2>2 DEF Fits, Indexes, Leads
  <2>4. QED
    BY <1>1, <2>3
<1>5. \A x \in gone : /\ ~Indexes(x) /\ ~Leads(x) /\ x.who \notin {"list", "channels"}
                      /\ Brings(x) => \E q \in more : Brings(q) /\ q.server = x.server
  <2>1. r.who \notin {"list", "index", "channels", "first", "indexFirst"}
    BY DEF Handlers
  <2>2. Brings(r) => Brings(Ask(who, r.server))
    BY <1>1 DEF Brings
  <2>3. QED
    BY <1>1, <2>1, <2>2 DEF Indexes, Leads
<1> HIDE DEF gone, more
<1>6. ChannelIsThere(path, active, reqs) => ChannelIsThere(path, active, reqs)'
  BY <1>2, <1>5, ChannelStaysThere
<1>7. /\ joined \subseteq joined' /\ joined' \subseteq Servers
      /\ rooms \subseteq rooms' /\ rooms' \subseteq Channels
      /\ made \subseteq made' /\ made' \subseteq Channels
      /\ want' \in Servers \cup {0} /\ servers' \subseteq joined'
      /\ listed' \in [Servers -> SUBSET Channels]
      /\ \A s \in Servers : listed'[s] \subseteq In(rooms', s)
  BY <1>2 DEF LandsInv, ShellTyped, Honest
<1>8. \A x \in gone : /\ Indexes(x) => \E q \in more : Indexes(q)
                      /\ x.who = "list" \/ Leads(x)
                           => \E q \in more : q.who = "list" \/ Leads(q)
  BY <1>5
<1>9. QED
  BY <1>2, <1>4, <1>6, <1>7, <1>8, StandingKeeps

LEMMA MembershipArrivesLands ==
  ASSUME LandsInv, NEW r, MembershipArrives(r)
  PROVE  LandsInv'
<1>1. PICK who \in {"createList", "joinList"} :
        /\ r \in reqs /\ r.who \in {"create", "join"} /\ Continue(r, who)
        /\ UNCHANGED <<servers, listed, joined>>
  BY DEF MembershipArrives, Arrives, Continue
<1>2. servers' \subseteq joined
  BY <1>1 DEF LandsInv, Honest
<1>3. r.who \in Handlers /\ Brings(r) /\ r.server \in Servers
  BY <1>1, RequestIs DEF Handlers, Brings
<1>4. QED
  BY <1>1, <1>2, <1>3, ContinueLands

LEMMA RefreshArrivesLands ==
  ASSUME LandsInv, NEW r, RefreshArrives(r)
  PROVE  LandsInv'
<1>1. PICK who \in {"createFirst", "joinFirst"} :
        /\ r \in reqs /\ r.who \in {"createList", "joinList"} /\ Continue(r, who)
        /\ servers' = r.answer.servers /\ UNCHANGED listed
  BY DEF RefreshArrives, Arrives
<1>2. servers' \subseteq joined
  BY <1>1, RequestIs
<1>3. r.who \in Handlers /\ Brings(r) /\ r.server \in Servers
  BY <1>1, RequestIs DEF Handlers, Brings
<1>4. QED
  BY <1>1, <1>2, <1>3, ContinueLands

LEMMA CreatedArrivesLands ==
  ASSUME LandsInv, NEW r, CreatedArrives(r)
  PROVE  LandsInv'
<1>1. /\ r \in reqs /\ r.who \in {"createFirst", "createChannel"}
      /\ UNCHANGED <<joined, rooms, servers, listed, want, made>>
  BY DEF CreatedArrives, Arrives, Continue
<1>2. /\ listed' \in [Servers -> SUBSET Channels] /\ servers' \subseteq joined
      /\ \A s \in Servers : listed'[s] \subseteq In(rooms, s)
  BY <1>1 DEF LandsInv, ShellTyped, Honest
<1>3. r.who \in Handlers /\ Brings(r) /\ r.server \in Servers
  BY <1>1, RequestIs DEF Handlers, Brings
<1>4. First(r.answer.rooms, r.server) = 0
        \/ First(r.answer.rooms, r.server) \in In(rooms, r.server)
  BY <1>1, RequestIs
<1>5. CASE Continue(r, "createChannel")
  BY <1>1, <1>2, <1>3, <1>5, ContinueLands
<1>6. CASE Enter(r.server, First(r.answer.rooms, r.server), reqs \ {r})
  BY <1>1, <1>2, <1>3, <1>4, <1>6, EnterKeeps
<1>7. QED
  BY <1>5, <1>6 DEF CreatedArrives

LEMMA AddedArrivesLands ==
  ASSUME LandsInv, NEW r, AddedArrives(r)
  PROVE  LandsInv'
<1>1. CASE Arrives(r, "add") /\ Continue(r, "addList") /\ UNCHANGED listed
  <2>1. r \in reqs /\ r.who = "add" /\ UNCHANGED <<servers, joined>>
    BY <1>1 DEF AddedArrives, Arrives, Continue
  <2>2. r.who \in Handlers /\ ~Brings(r) /\ r.server \in Servers
    BY <2>1, RequestIs DEF Handlers, Brings
  <2>3. servers' \subseteq joined
    BY <2>1 DEF LandsInv, Honest
  <2>4. QED
    BY <1>1, <2>1, <2>2, <2>3, ContinueLands
<1>2. CASE /\ Arrives(r, "addList")
           /\ reqs' = reqs \ {r}
           /\ listed' = [listed EXCEPT ![r.server] = r.answer.rooms]
           /\ UNCHANGED <<joined, rooms, path, visited, active, want, overtaken, made, clicks, trouble>>
  <2> DEFINE gone == {r}
             more == {}
  <2>1. /\ r \in reqs /\ r.who = "addList" /\ UNCHANGED servers
        /\ gone \in SUBSET reqs /\ more \in SUBSET Requests /\ reqs' = (reqs \ gone) \cup more
    BY <1>2 DEF AddedArrives, Arrives
  <2>2. /\ \A x \in gone : /\ ~Indexes(x) /\ ~Leads(x) /\ ~Brings(x)
                           /\ x.who \notin {"list", "channels"}
        /\ \A x \in more : FALSE
    BY <2>1 DEF Indexes, Leads, Brings
  <2>3. /\ r.server \in Servers /\ r.answer.rooms \in SUBSET Channels
        /\ r.answer.rooms \subseteq In(rooms, r.server)
    BY <2>1, RequestIs
  <2> HIDE DEF gone, more
  <2>4. ChannelIsThere(path, active, reqs) => ChannelIsThere(path, active, reqs)'
    BY <1>2, <2>1, <2>2, ChannelStaysThere
  <2>5. /\ joined \subseteq joined' /\ joined' \subseteq Servers
        /\ rooms \subseteq rooms' /\ rooms' \subseteq Channels
        /\ made \subseteq made' /\ made' \subseteq Channels
        /\ want' \in Servers \cup {0} /\ servers' \subseteq joined'
        /\ listed' \in [Servers -> SUBSET Channels]
    BY <1>2, <2>1, <2>3 DEF LandsInv, ShellTyped, Honest
  <2>6. \A s \in Servers : listed'[s] \subseteq In(rooms', s)
    BY <1>2, <2>3 DEF LandsInv, ShellTyped, Honest
  <2>7. UNCHANGED <<path, visited, active>>
    BY <1>2
  <2>8. \A q \in more : /\ Fits(q, path, active) /\ q.answer.servers \subseteq joined'
                        /\ q.answer.rooms \subseteq In(rooms', q.server)
    BY <2>2
  <2>9. \A x \in gone : /\ Indexes(x) => \E q \in more : Indexes(q)
                        /\ x.who = "list" \/ Leads(x) => \E q \in more : q.who = "list" \/ Leads(q)
    BY <2>2
  <2>10. QED
    BY <2>1, <2>4, <2>5, <2>6, <2>7, <2>8, <2>9, StandingKeeps
<1>3. QED
  BY <1>1, <1>2 DEF AddedArrives

\* What the backend has when it has answered.
LEMMA AnswerIs ==
  ASSUME LandsInv, NEW r, Answer(r)
  PROVE  /\ r \in reqs /\ ~r.answer.done
         /\ joined \subseteq joined' /\ joined' \subseteq Servers
         /\ rooms \subseteq rooms' /\ rooms' \subseteq Channels
         /\ r.who \notin {"create", "join"} => joined' = joined
         /\ r.who \notin {"createChannel", "add", "join"} => rooms' = rooms
         /\ r.who \in {"createChannel", "join"} => Brings(r)
         /\ \A s : s # r.server => In(rooms', s) = In(rooms, s)
         /\ r.who = "add" => rooms' \subseteq rooms \cup made
<1>1. /\ r \in reqs /\ ~r.answer.done
      /\ joined' = IF r.who \in {"create", "join"} THEN joined \cup {r.server} ELSE joined
      /\ rooms' = rooms \cup
           (CASE r.who = "createChannel" -> {First(Channels, r.server)}
              [] r.who = "add" -> In(made, r.server)
              [] r.who = "join" -> In(Channels, r.server)
              [] OTHER -> {})
  BY DEF Answer
<1>2. r.who \in {"createChannel", "join", "create"} => Brings(r) /\ r.server = New
  BY <1>1, RequestIs DEF Brings
<1>3. r.who = "createChannel" => First(Channels, r.server) \in In(Channels, r.server)
  <2>1. Channels \in SUBSET Channels /\ In(Channels, New) # {}
    BY ShellAssumption DEF In
  <2>2. QED
    BY <1>2, <2>1, FirstIs
<1>4. \E N : /\ rooms' = rooms \cup N /\ N \subseteq In(Channels, r.server)
             /\ r.who \notin {"createChannel", "add", "join"} => N = {}
             /\ r.who = "add" => N \subseteq made
  <2>1. CASE r.who = "createChannel"
    BY <1>1, <1>3, <2>1
  <2>2. CASE r.who = "add"
    <3>1. In(made, r.server) \subseteq In(Channels, r.server) /\ In(made, r.server) \subseteq made
      BY DEF LandsInv, ShellTyped, In
    <3>2. QED
      BY <1>1, <2>2, <3>1
  <2>3. CASE r.who = "join"
    BY <1>1, <2>3
  <2>4. CASE r.who \notin {"createChannel", "add", "join"}
    BY <1>1, <2>4
  <2>5. QED
    BY <2>1, <2>2, <2>3, <2>4
<1>5. joined \subseteq Servers /\ rooms \subseteq Channels
  BY DEF LandsInv, ShellTyped
<1>6. joined \subseteq joined' /\ joined' \subseteq Servers
  BY <1>1, <1>2, <1>5, ShellAssumption
<1>7. rooms \subseteq rooms' /\ rooms' \subseteq Channels
  BY <1>4, <1>5 DEF In
<1>8. \A s : s # r.server => In(rooms', s) = In(rooms, s)
  BY <1>4 DEF In
<1>9. QED
  BY <1>1, <1>2, <1>4, <1>6, <1>7, <1>8

LEMMA AnswerLands ==
  ASSUME LandsInv, NEW r, Answer(r)
  PROVE  LandsInv'
<1> DEFINE a2 == [servers |-> joined', rooms |-> In(rooms', r.server), done |-> TRUE]
           r2 == [r EXCEPT !.answer = a2]
           gone == {r}
           more == {r2}
<1>1. /\ r \in reqs /\ reqs' = (reqs \ gone) \cup more
      /\ UNCHANGED <<path, visited, active, servers, listed, want, made>>
  BY DEF Answer
<1>2. /\ joined \subseteq joined' /\ joined' \subseteq Servers
      /\ rooms \subseteq rooms' /\ rooms' \subseteq Channels
      /\ r.who \notin {"create", "join"} => joined' = joined
      /\ r.who \notin {"createChannel", "add", "join"} => rooms' = rooms
      /\ r.who \in {"createChannel", "join"} => Brings(r)
      /\ \A s : s # r.server => In(rooms', s) = In(rooms, s)
      /\ r.who = "add" => rooms' \subseteq rooms \cup made
  BY AnswerIs
<1>3. r \in Requests
  BY <1>1 DEF LandsInv, ShellTyped
<1>4. In(rooms', r.server) \subseteq Channels
  BY <1>2 DEF In
<1>5. a2 \in Answers /\ a2.servers = joined' /\ a2.rooms = In(rooms', r.server) /\ a2.done
  BY <1>2, <1>4 DEF Answers
<1> HIDE DEF a2
<1>6. /\ r2 \in Requests /\ r2.answer = a2 /\ r2.who = r.who /\ r2.server = r.server
      /\ r2.live = r.live
  BY <1>3, <1>5 DEF Requests
<1> HIDE DEF r2
<1>7. /\ Indexes(r2) <=> Indexes(r)
      /\ Leads(r2) <=> Leads(r)
      /\ Brings(r2) <=> Brings(r)
  BY <1>6 DEF Indexes, Leads, Brings
<1>8. Fits(r2, path, active)
  BY <1>1, <1>6, <1>7 DEF LandsInv, RequestsFit, Fits
<1>9. ChannelIsThere(path, active, reqs) => ChannelIsThere(path, active, reqs)'
  <2>1. SUFFICES ASSUME path.page = "channel", path.server = active.server,
                        ChannelIsThere(path, active, reqs),
                        ~(In(rooms', path.server) \subseteq made)
                 PROVE  \/ path.channel \in In(rooms', path.server)
                        \/ \E q \in reqs' : Brings(q) /\ q.server = path.server
                        \/ \E q \in reqs' : q.who = "channels" /\ (q.answer.done => q.answer.rooms # {})
    BY <1>1 DEF ChannelIsThere, In
  <2>2. CASE path.channel \in In(rooms, path.server)
    BY <1>2, <2>2 DEF In
  <2>3. CASE In(rooms, path.server) \subseteq made
    <3>1. rooms' # rooms /\ r.server = path.server
      BY <1>2, <2>1, <2>3
    <3>2. r.who # "add"
      BY <1>2, <2>1, <2>3 DEF In
    <3>3. Brings(r2)
      BY <1>2, <1>7, <3>1, <3>2
    <3>4. QED
      BY <1>1, <1>6, <3>1, <3>3
  <2>4. CASE \E q \in reqs : Brings(q) /\ q.server = path.server
    BY <1>1, <1>6, <1>7, <2>4
  <2>5. CASE \E q \in reqs : q.who = "channels" /\ (q.answer.done => q.answer.rooms # {})
    <3>1. PICK q \in reqs : q.who = "channels" /\ (q.answer.done => q.answer.rooms # {})
      BY <2>5
    <3>2. CASE q # r
      BY <1>1, <3>1, <3>2
    <3>3. CASE q = r
      <4>1. r.server = active.server
        BY <1>1, <3>1, <3>3, RequestIs
      <4>2. a2.rooms # {}
        BY <1>5, <2>1, <4>1
      <4>3. QED
        BY <1>1, <1>6, <3>1, <3>3, <4>2
    <3>4. QED
      BY <3>2, <3>3
  <2>6. QED
    BY <2>1, <2>2, <2>3, <2>4, <2>5 DEF ChannelIsThere
<1>10. /\ servers' \subseteq joined' /\ want' \in Servers \cup {0}
       /\ made \subseteq made' /\ made' \subseteq Channels
       /\ listed' \in [Servers -> SUBSET Channels]
       /\ \A s \in Servers : listed'[s] \subseteq In(rooms', s)
  BY <1>1, <1>2 DEF LandsInv, ShellTyped, Honest, In
<1>11. \A q \in more : /\ Fits(q, path, active) /\ q.answer.servers \subseteq joined'
                       /\ q.answer.rooms \subseteq In(rooms', q.server)
  BY <1>5, <1>6, <1>8
<1>12. \A x \in gone : /\ Indexes(x) => \E q \in more : Indexes(q)
                       /\ x.who = "list" \/ Leads(x)
                            => \E q \in more : q.who = "list" \/ Leads(q)
  BY <1>6, <1>7
<1>13. gone \in SUBSET reqs /\ more \in SUBSET Requests
  BY <1>1, <1>6
<1> HIDE DEF gone, more
<1>14. QED
  BY <1>1, <1>2, <1>9, <1>10, <1>11, <1>12, <1>13, StandingKeeps

\* A click that starts a handler.
LEMMA HandleLands ==
  ASSUME LandsInv, NEW who \in {"nav", "create", "join", "add"}, NEW s \in Servers,
         NEW goal \in Servers \cup {0}, Brings(Ask(who, s)) => s = New,
         Handle(who, s, goal), made \subseteq made', made' \subseteq Channels
  PROVE  LandsInv'
<1> DEFINE gone == {}
           more == {Ask(who, s)}
<1>1. who \in Effects \cup Handlers
  BY DEF Handlers
<1>2. /\ Ask(who, s) \in Requests /\ Ask(who, s).who = who
      /\ Ask(who, s).server = s /\ Ask(who, s).live
      /\ Ask(who, s).answer.servers = {} /\ Ask(who, s).answer.rooms = {}
  BY <1>1, AskIs
<1>3. /\ gone \in SUBSET reqs /\ more \in SUBSET Requests
      /\ reqs' = (reqs \ gone) \cup more /\ want' = goal
      /\ UNCHANGED <<joined, rooms, path, visited, active, servers, listed>>
  BY <1>2 DEF Handle, Click
<1>4. Fits(Ask(who, s), path, active)
  BY <1>2 DEF Fits, Indexes, Leads
<1>5. \A q \in more : /\ Fits(q, path, active) /\ q.answer.servers \subseteq joined'
                      /\ q.answer.rooms \subseteq In(rooms', q.server)
  BY <1>2, <1>4
<1>6. \A x \in gone : FALSE
  OBVIOUS
<1> HIDE DEF gone, more
<1>7. ChannelIsThere(path, active, reqs) => ChannelIsThere(path, active, reqs)'
  BY <1>3, <1>6, ChannelStaysThere
<1>8. /\ joined \subseteq joined' /\ joined' \subseteq Servers
      /\ rooms \subseteq rooms' /\ rooms' \subseteq Channels
      /\ want' \in Servers \cup {0} /\ servers' \subseteq joined'
      /\ listed' \in [Servers -> SUBSET Channels]
      /\ \A t \in Servers : listed'[t] \subseteq In(rooms', t)
  BY <1>3 DEF LandsInv, ShellTyped, Honest
<1>9. QED
  BY <1>3, <1>5, <1>6, <1>7, <1>8, StandingKeeps

LEMMA HandlersLand ==
  ASSUME LandsInv,
         \/ \E s \in Servers : SelectServer(s)
         \/ CreateServer \/ JoinByInvite
         \/ \E c \in Channels : AddChannel(c)
  PROVE  LandsInv'
<1>1. \A who \in {"nav", "create", "join", "add"} : \A s \in Servers :
        /\ Ask(who, s).who = who /\ Ask(who, s).server = s
  BY DEF Ask
<1>2. CASE \E s \in Servers : SelectServer(s)
  <2>1. PICK s \in Servers : SelectServer(s)
    BY <1>2
  <2>2. Handle("nav", s, s) /\ UNCHANGED made
    BY <2>1 DEF SelectServer
  <2>3. ~Brings(Ask("nav", s)) /\ made' \subseteq Channels
    BY <1>1, <2>2 DEF Brings, LandsInv, ShellTyped
  <2>4. QED
    BY <2>2, <2>3, HandleLands
<1>3. CASE CreateServer \/ JoinByInvite
  <2>1. PICK who \in {"create", "join"} : Handle(who, New, New) /\ UNCHANGED made
    BY <1>3 DEF CreateServer, JoinByInvite
  <2>2. New \in Servers /\ made' \subseteq Channels
    BY <2>1, ShellAssumption DEF LandsInv, ShellTyped
  <2>3. QED
    BY <2>1, <2>2, HandleLands
<1>4. CASE \E c \in Channels : AddChannel(c)
  <2>1. PICK c \in Channels : AddChannel(c)
    BY <1>4
  <2>2. /\ active.server \in Servers /\ Handle("add", active.server, 0)
        /\ made' = made \cup {c} /\ made \subseteq Channels
    BY <2>1, ShellAssumption DEF AddChannel, LandsInv, ShellTyped
  <2>3. ~Brings(Ask("add", active.server))
    BY <1>1, <2>2 DEF Brings
  <2>4. QED
    BY <2>2, <2>3, HandleLands
<1>5. QED
  BY <1>2, <1>3, <1>4

\* A click that changes the address itself.
LEMMA FollowLands ==
  ASSUME LandsInv, NEW p \in Pages, NEW a \in ActivePairs, Follow(p, a),
         p.channel # 0 /\ p.channel = path.channel => a.channel = p.channel,
         a.server = active.server, p = path => p # Root
  PROVE  LandsInv'
<1>1. /\ Become(p, a, reqs, {}) /\ want' = p.server
      /\ UNCHANGED <<joined, rooms, servers, listed, made>>
  BY DEF Follow, Click
<1>2. /\ servers' \subseteq joined /\ want' \in Servers \cup {0}
      /\ listed' \in [Servers -> SUBSET Channels]
      /\ \A s \in Servers : listed'[s] \subseteq In(rooms, s)
  BY <1>1, PagesAre DEF LandsInv, ShellTyped, Honest
<1>3. p = path => ServerAgrees(p, a, reqs)
  BY DEF LandsInv, ServerAgrees
<1>4. p = path /\ a = active => ChannelIsThere(p, a, reqs)
  BY DEF LandsInv
<1>5. reqs \in SUBSET reqs
  OBVIOUS
<1>6. QED
  BY <1>1, <1>2, <1>3, <1>4, <1>5, PlainNavigationKeeps

\* Where the links and the browser's buttons lead.
LEMMA FollowedIs ==
  ASSUME LandsInv,
         \/ \E c \in Channels : SelectChannel(c)
         \/ SelectTournament
         \/ \E p \in visited.addresses : GoBack(p)
  PROVE  \E p \in Pages, a \in ActivePairs :
           /\ Follow(p, a) /\ a.server = active.server
           /\ p.channel # 0 /\ p.channel = path.channel => a.channel = p.channel
           /\ p = path => p # Root
<1>1. active \in ActivePairs /\ path \in Pages /\ visited.addresses \subseteq Pages
      /\ rooms \subseteq Channels /\ \A s \in Servers : listed[s] \subseteq In(rooms, s)
  BY DEF LandsInv, ShellTyped, Honest
<1>2. CASE \E c \in Channels : SelectChannel(c)
  <2>1. PICK c \in Channels : SelectChannel(c)
    BY <1>2
  <2> DEFINE p == At(IF c \in Texts THEN "channel" ELSE "voice", active.server, c)
             a == [active EXCEPT !.channel = c]
  <2>2. active.server \in Servers /\ ServerOf[c] = active.server
    BY <1>1, <2>1 DEF SelectChannel, ActivePairs, In
  <2>3. p \in Pages
    BY <2>2 DEF Pages
  <2>4. p.channel = c /\ p # Root
    BY ThePages
  <2>5. a \in ActivePairs /\ a.channel = c /\ a.server = active.server
    BY <1>1 DEF ActivePairs
  <2>6. Follow(p, a)
    BY <2>1 DEF SelectChannel
  <2> HIDE DEF p, a
  <2>7. QED
    BY <2>3, <2>4, <2>5, <2>6
<1>3. CASE SelectTournament
  <2> DEFINE p == At("tournaments", active.server, 0)
  <2>1. active.server \in Servers
    BY <1>1, <1>3 DEF SelectTournament, ActivePairs
  <2>2. p \in Pages /\ p.channel = 0 /\ p # Root
    BY <2>1, ThePages DEF Pages
  <2>3. Follow(p, active)
    BY <1>3 DEF SelectTournament
  <2> HIDE DEF p
  <2>4. QED
    BY <1>1, <2>2, <2>3
<1>4. CASE \E p \in visited.addresses : GoBack(p)
  <2>1. PICK p \in visited.addresses : GoBack(p)
    BY <1>4
  <2>2. Follow(p, active) /\ p # path
    BY <2>1 DEF GoBack
  <2>3. p.channel # 0 /\ p.channel = path.channel => active.channel = p.channel
    BY DEF LandsInv, ChannelAgrees
  <2>4. QED
    BY <1>1, <2>1, <2>2, <2>3
<1>5. QED
  BY <1>2, <1>3, <1>4

LEMMA LandsInvInit ==
  ASSUME Init
  PROVE  LandsInv
<1>1. PICK o \in Openings :
        /\ joined = o.joined /\ rooms = o.rooms /\ path = o.path
        /\ visited = [addresses |-> {o.path},
                      last |-> IF o.path.page = "channel" THEN o.path ELSE o.last]
  BY DEF Init
<1>2. /\ joined \subseteq Servers /\ rooms \subseteq Channels /\ path \in Pages
      /\ visited.addresses \subseteq Pages
  BY <1>1, OpeningsAssumption
<1>3. /\ path.server \in Servers \cup {0} /\ path.channel \in Channels \cup {0}
      /\ path.page = "root" <=> path = Root
      /\ path.page = "channel" => path \in ChannelPages
      /\ path.server = 0 <=> path.page \in {"root", "me"}
  BY <1>2, PagesAre
<1>4. visited.last \in {Root} \cup ChannelPages
  BY <1>1, <1>3, OpeningsAssumption DEF ChannelPages
<1>5. /\ active = [server |-> path.server, channel |-> path.channel]
      /\ servers = {} /\ listed = [s \in Servers |-> {}] /\ want = 0 /\ made = {}
      /\ Ask("list", 0) \in reqs
      /\ path = Root => Ask("index", 0) \in reqs
      /\ path.server # 0 => Ask("channels", path.server) \in reqs
      /\ \A q \in reqs : \/ q = Ask("list", 0)
                         \/ q = Ask("index", 0) /\ path = Root
                         \/ q = Ask("channels", path.server) /\ path.server # 0
  BY DEF Init
<1>6. active \in ActivePairs /\ active.server = path.server /\ active.channel = path.channel
  BY <1>3, <1>5 DEF ActivePairs
<1>7. \A w \in {"list", "index", "channels"} : \A s \in Servers \cup {0} :
        /\ Ask(w, s) \in Requests /\ Ask(w, s).who = w /\ Ask(w, s).server = s /\ Ask(w, s).live
        /\ Ask(w, s).answer.servers = {} /\ Ask(w, s).answer.rooms = {} /\ ~Ask(w, s).answer.done
  BY AskIs DEF Effects
<1>8. \A q \in reqs :
        /\ q \in Requests /\ q.live /\ q.answer.servers = {} /\ q.answer.rooms = {}
        /\ q.who = "list" \/ (q.who = "index" /\ path.page = "root")
             \/ (q.who = "channels" /\ q.server = path.server /\ q.server \in Servers)
  BY <1>3, <1>5, <1>7
<1>9. ShellTyped
  BY <1>2, <1>4, <1>5, <1>6, <1>8 DEF ShellTyped
<1>10. RequestsFit
  BY <1>6, <1>8 DEF RequestsFit, Fits, Indexes, Leads, Brings
<1>11. Honest
  BY <1>5, <1>8 DEF Honest
<1>12. ChannelAgrees /\ ServerAgrees(path, active, reqs)
  BY <1>5, <1>6, <1>7 DEF ChannelAgrees, ServerAgrees
<1>13. RootIsLeft
  BY <1>3, <1>5, <1>7 DEF RootIsLeft, Indexes
<1>14. ChannelIsThere(path, active, reqs)
  BY <1>3, <1>5, <1>7 DEF ChannelIsThere
<1>15. QED
  BY <1>9, <1>10, <1>11, <1>12, <1>13, <1>14 DEF LandsInv

-----------------------------------------------------------------------------
(* The last click.                                                         *)

LEMMA ClickStays ==
  ASSUME ClickInv, UNCHANGED <<joined, rooms, want, overtaken>>,
         \A q \in reqs : q.who \in Handlers => q \in reqs',
         \A q \in reqs' : q.who \in Handlers => q \in reqs,
         path.server = want /\ want # 0 /\ want \in joined /\ ~Leaving
           => path'.server = want /\ ~Leaving'
  PROVE  ClickInv'
<1>1. SUFFICES ASSUME ~overtaken, want # 0
               PROVE  Handled' \/ \E h \in reqs' : Pending(h)'
  BY DEF ClickInv
<1>2. CASE Handled
  <2>1. ~Busy'
    BY <1>2 DEF Handled, Busy
  <2>2. \/ In(rooms', want') = {} \/ want' \notin joined'
        \/ path'.server = want' /\ ~Leaving'
    BY <1>1, <1>2 DEF Handled
  <2>3. QED
    BY <2>1, <2>2 DEF Handled, In
<1>3. CASE \E h \in reqs : Pending(h)
  <2>1. PICK h \in reqs : Pending(h)
    BY <1>3
  <2>2. h \in reqs'
    BY <2>1 DEF Pending
  <2>3. Pending(h)'
    BY <2>1 DEF Pending, In
  <2>4. QED
    BY <2>2, <2>3
<1>4. QED
  BY <1>1, <1>2, <1>3 DEF ClickInv

\* A navigation touches no handler.
LEMMA HandlersStay ==
  ASSUME LandsInv, NEW p \in Pages, NEW a \in ActivePairs, NEW gone \in SUBSET reqs,
         NEW more \in SUBSET Requests, \A q \in more : q.who \notin Handlers,
         Become(p, a, reqs \ gone, more)
  PROVE  /\ \A q \in reqs \ gone : q.who \in Handlers => q \in reqs'
         /\ \A q \in reqs' : q.who \in Handlers => q \in reqs \ gone
<1> DEFINE others == reqs \ gone
<1>1. /\ path \in Pages /\ active \in ActivePairs /\ others \in SUBSET Requests
      /\ Become(p, a, others, more)
  BY DEF LandsInv, ShellTyped
<1> HIDE DEF others
<1>2. Became(p, a, others, more)
  BY <1>1, BecomeIs
<1>3. \A w \in {"list", "index", "channels"} : \A s : Ask(w, s).who = w
  BY DEF Ask
<1>4. {"list", "index", "channels", "first", "indexFirst"} \cap Handlers = {}
  BY DEF Handlers
<1>5. \A o \in others : o.who \in {"first", "index", "indexFirst"}
                          => [o EXCEPT !.live = FALSE].who \notin Handlers
  BY <1>1, <1>4 DEF Requests
<1>6. ASSUME NEW q \in reqs', q.who \in Handlers PROVE q \in others
  <2>1. \/ q \in more \/ q = Ask("list", 0) \/ q = Ask("index", 0)
        \/ q = Ask("channels", active'.server) \/ q \in others
        \/ \E o \in others : /\ q = [o EXCEPT !.live = FALSE]
                             /\ o.who \in {"first", "index", "indexFirst"}
    BY <1>2 DEF Became
  <2>2. q \notin more
    BY <1>6
  <2>3. q # Ask("list", 0) /\ q # Ask("index", 0) /\ q # Ask("channels", active'.server)
    BY <1>3, <1>4, <1>6
  <2>4. ~\E o \in others : /\ q = [o EXCEPT !.live = FALSE]
                           /\ o.who \in {"first", "index", "indexFirst"}
    BY <1>5, <1>6
  <2>5. QED
    BY <2>1, <2>2, <2>3, <2>4
<1>7. ASSUME NEW q \in others, q.who \in Handlers PROVE q \in reqs'
  BY <1>2, <1>7 DEF Became
<1>8. QED
  BY <1>6, <1>7 DEF others

\* Nor does the shell begin to leave the server that it shows.
LEMMA NavigationStays ==
  ASSUME LandsInv, NEW p \in Pages, NEW a \in ActivePairs, NEW others \in SUBSET reqs,
         Become(p, a, others, {}), a.server = p.server, p.server # 0,
         p = path => ~Leaving
  PROVE  path'.server = p.server /\ ~Leaving'
<1> DEFINE more == {}
<1>1. /\ path \in Pages /\ active \in ActivePairs /\ others \in SUBSET Requests
      /\ more \in SUBSET Requests /\ Become(p, a, others, more)
  BY DEF LandsInv, ShellTyped
<1>2. \A q \in more : FALSE
  OBVIOUS
<1> HIDE DEF more
<1>3. Became(p, a, others, more)
  BY <1>1, BecomeIs
<1>4. path' = p /\ active'.server = p.server
  BY <1>3 DEF Became
<1>5. \A w \in {"list", "index", "channels"} : \A s : /\ Ask(w, s).who = w
                                                      /\ ~Ask(w, s).answer.done
  BY DEF Ask, NoAnswer
<1>6. \A o \in others : ~[o EXCEPT !.live = FALSE].live
  BY <1>1 DEF Requests
<1>7. ASSUME NEW q \in reqs', q.live,
             \/ q.who = "first"
             \/ q.who = "list" /\ q.answer.done /\ p.server \notin q.answer.servers
      PROVE  FALSE
  <2>1. \/ q \in more \/ q = Ask("list", 0) \/ q = Ask("index", 0)
        \/ q = Ask("channels", active'.server)
        \/ q \in others /\ (q.who \in {"list", "first"} => p = path)
        \/ \E o \in others : q = [o EXCEPT !.live = FALSE]
    BY <1>3 DEF Became
  <2>2. q # Ask("list", 0) /\ q # Ask("index", 0) /\ q # Ask("channels", active'.server)
    BY <1>5, <1>7
  <2>3. ~\E o \in others : q = [o EXCEPT !.live = FALSE]
    BY <1>6, <1>7
  <2>4. q \in reqs /\ p = path
    BY <1>2, <1>7, <2>1, <2>2, <2>3
  <2>5. QED
    BY <1>7, <2>4 DEF Leaving
<1>8. QED
  BY <1>4, <1>7 DEF Leaving

LEMMA EffectsKeepClick ==
  ASSUME LandsInv, ClickInv, NEW r \in reqs, r.who \notin Handlers,
         NEW p \in Pages, NEW a \in ActivePairs, NEW more \in SUBSET Requests,
         \A q \in more : q.who \notin Handlers,
         Become(p, a, reqs \ {r}, more), UNCHANGED <<joined, rooms, want, overtaken>>,
         path.server = want /\ want # 0 /\ want \in joined /\ ~Leaving
           => a.server = want /\ p.server = want /\ more = {}
  PROVE  ClickInv'
<1> DEFINE gone == {r}
<1>1. gone \in SUBSET reqs /\ Become(p, a, reqs \ gone, more) /\ reqs \ gone \in SUBSET reqs
      /\ \A q \in reqs : q.who \in Handlers => q \in reqs \ gone
  OBVIOUS
<1> HIDE DEF gone
<1>2. /\ \A q \in reqs \ gone : q.who \in Handlers => q \in reqs'
      /\ \A q \in reqs' : q.who \in Handlers => q \in reqs \ gone
  BY <1>1, HandlersStay
<1>3. ASSUME path.server = want, want # 0, want \in joined, ~Leaving
      PROVE  path'.server = want /\ ~Leaving'
  <2>1. a.server = p.server /\ p.server = want /\ Become(p, a, reqs \ gone, {})
    BY <1>1, <1>3
  <2>2. QED
    BY <1>1, <1>3, <2>1, NavigationStays
<1>4. QED
  BY <1>1, <1>2, <1>3, ClickStays

LEMMA ListArrivesClick ==
  ASSUME LandsInv, ClickInv, NEW r, ListArrives(r)
  PROVE  ClickInv'
<1>1. /\ r \in reqs /\ r.who = "list" /\ r.answer.done /\ r.live /\ servers' = r.answer.servers
      /\ UNCHANGED <<joined, rooms, want, overtaken>>
  BY DEF ListArrives, Arrives
<1>2. /\ r.answer.servers \in SUBSET Servers /\ r.who \notin Handlers
      /\ path \in Pages /\ active \in ActivePairs
  BY <1>1, RequestIs DEF Handlers, LandsInv, ShellTyped
<1>3. path.server = want /\ want # 0 /\ ~Leaving => path.server \in servers'
  BY <1>1 DEF Leaving
<1> DEFINE none == {}
<1>4. none \in SUBSET Requests /\ \A q \in none : FALSE
  OBVIOUS
<1>5. CASE servers' = {}
  <2>1. Become(DirectMessages, active, reqs \ {r}, none)
    BY <1>5 DEF ListArrives
  <2> HIDE DEF none
  <2>2. QED
    BY <1>1, <1>2, <1>3, <1>4, <1>5, <2>1, ThePages, EffectsKeepClick
<1>6. CASE servers' # {}
  <2> DEFINE next == IF path.server \in servers' THEN path.server ELSE Min(servers')
             leads == path.page # "root" /\ path.page # "me" /\ path.server # next
             a == [active EXCEPT !.server = next]
             more == IF leads THEN {Ask("first", next)} ELSE {}
  <2>1. Become(path, a, reqs \ {r}, more)
    BY <1>6 DEF ListArrives
  <2>2. next \in Servers
    BY <1>1, <1>2, <1>6, MinIsIn, ShellAssumption
  <2>3. a \in ActivePairs /\ a.server = next
    BY <1>2, <2>2 DEF ActivePairs
  <2>4. more \in SUBSET Requests /\ \A q \in more : q.who \notin Handlers
    BY <2>2, AskIs DEF Effects, Handlers
  <2>5. path.server \in servers' => next = path.server /\ more = {}
    OBVIOUS
  <2> HIDE DEF next, leads, a, more
  <2>6. QED
    BY <1>1, <1>2, <1>3, <2>1, <2>3, <2>4, <2>5, EffectsKeepClick
<1>7. QED
  BY <1>5, <1>6

LEMMA FirstArrivesClick ==
  ASSUME LandsInv, ClickInv, NEW r, FirstArrives(r) \/ IndexFirstArrives(r)
  PROVE  ClickInv'
<1> DEFINE c == First(r.answer.rooms, r.server)
           p == IF c = 0 THEN DirectMessages ELSE At("channel", r.server, c)
           none == {}
<1>1. /\ r \in reqs /\ (Leads(r) \/ Indexes(r))
      /\ Become(p, active, reqs \ {r}, none)
      /\ UNCHANGED <<joined, rooms, want, overtaken>>
  BY DEF FirstArrives, IndexFirstArrives, Arrives, Leads, Indexes
<1>2. r \in reqs
  BY DEF FirstArrives, IndexFirstArrives, Arrives
<1>3. /\ r.server \in Servers /\ c \in Channels \cup {0}
      /\ path.server = want /\ want # 0 => Leaving
  <2>1. r.who \in {"first", "indexFirst"} /\ r.live
    BY DEF FirstArrives, IndexFirstArrives, Arrives
  <2>2. r.server \in Servers /\ r.answer.rooms \in SUBSET Channels
        /\ (c = 0 \/ c \in In(rooms, r.server)) /\ path \in Pages
    BY <1>2, <2>1, RequestIs DEF LandsInv, ShellTyped
  <2>3. c \in Channels \cup {0}
    BY <2>2 DEF In, LandsInv, ShellTyped
  <2>4. r.who = "indexFirst" => path.server = 0
    BY <1>2, <2>1, <2>2, RequestIs, PagesAre DEF Indexes
  <2>5. r.who = "first" /\ path.server # 0 => Leaving
    BY <1>2, <2>1 DEF Leaving
  <2>6. QED
    BY <2>1, <2>2, <2>3, <2>4, <2>5
<1>4. p \in Pages /\ r.who \notin Handlers /\ active \in ActivePairs
  BY <1>1, <1>3, ThePages DEF ChannelPages, Handlers, Leads, Indexes, LandsInv, ShellTyped
<1>5. none \in SUBSET Requests /\ \A q \in none : FALSE
  OBVIOUS
<1> HIDE DEF c, p, none
<1>6. QED
  BY <1>1, <1>2, <1>3, <1>4, <1>5, EffectsKeepClick

LEMMA EnterIs ==
  ASSUME LandsInv, NEW s \in Servers, NEW c \in Channels \cup {0}, NEW others,
         Enter(s, c, others)
  PROVE  \E p \in Pages, a \in ActivePairs :
           /\ Become(p, a, others, {})
           /\ c # 0 => p.server = s /\ a.server = s
<1>1. CASE c = 0
  BY <1>1, ThePages DEF Enter, LandsInv, ShellTyped
<1>2. CASE c # 0
  <2> DEFINE p == At("channel", s, c)
             a == [server |-> s, channel |-> c]
  <2>1. Become(p, a, others, {})
    BY <1>2 DEF Enter
  <2>2. p \in Pages /\ p.server = s
    BY <1>2, ThePages DEF ChannelPages
  <2>3. a \in ActivePairs /\ a.server = s
    BY <1>2 DEF ActivePairs
  <2> HIDE DEF p, a
  <2>4. QED
    BY <2>1, <2>2, <2>3
<1>3. QED
  BY <1>1, <1>2

LEMMA ChannelsArriveClick ==
  ASSUME LandsInv, ClickInv, NEW r, ChannelsArrive(r)
  PROVE  ClickInv'
<1> DEFINE c == First(r.answer.rooms, r.server)
           none == {}
<1>1. /\ r \in reqs /\ r.who = "channels"
      /\ UNCHANGED <<joined, rooms, want, overtaken>>
      /\ \/ Become(path, active, reqs \ {r}, none)
         \/ r.answer.rooms # {} /\ Enter(r.server, c, reqs \ {r})
  BY DEF ChannelsArrive, Arrives
<1>2. /\ r.server \in Servers /\ r.server = active.server
      /\ r.answer.rooms \in SUBSET Channels /\ r.answer.rooms \subseteq In(rooms, r.server)
      /\ r.who \notin Handlers /\ path \in Pages /\ active \in ActivePairs
  BY <1>1, RequestIs DEF Handlers, LandsInv, ShellTyped
<1>3. none \in SUBSET Requests /\ \A q \in none : FALSE
  OBVIOUS
<1>4. path.server = want /\ want # 0 /\ ~Leaving => active.server = want
  BY DEF Leaving
<1>5. CASE Become(path, active, reqs \ {r}, none)
  <2> HIDE DEF none
  <2>1. path.server = want /\ want # 0 /\ want \in joined /\ ~Leaving
          => active.server = want /\ path.server = want /\ none = {}
    BY <1>4 DEF none
  <2>2. QED
    BY <1>1, <1>2, <1>3, <1>5, <2>1, EffectsKeepClick
<1>6. CASE r.answer.rooms # {} /\ Enter(r.server, c, reqs \ {r})
  <2>1. In(r.answer.rooms, r.server) = r.answer.rooms
    BY <1>2 DEF In
  <2>2. c # 0 /\ c \in Channels
    BY <1>2, <1>6, <2>1, FirstIs
  <2> HIDE DEF c
  <2>3. PICK p \in Pages, a \in ActivePairs :
          Become(p, a, reqs \ {r}, none) /\ p.server = r.server /\ a.server = r.server
    BY <1>2, <1>6, <2>2, EnterIs
  <2>4. path.server = want /\ want # 0 /\ want \in joined /\ ~Leaving
          => a.server = want /\ p.server = want /\ none = {}
    BY <1>2, <1>4, <2>3
  <2> HIDE DEF none
  <2>5. QED
    BY <1>1, <1>2, <1>3, <2>3, <2>4, EffectsKeepClick
<1>7. QED
  BY <1>1, <1>5, <1>6

LEMMA IndexArrivesClick ==
  ASSUME LandsInv, ClickInv, NEW r, IndexArrives(r)
  PROVE  ClickInv'
<1>1. /\ r \in reqs /\ r.who = "index" /\ r.live
      /\ UNCHANGED <<joined, rooms, want, overtaken>>
  BY DEF IndexArrives, Arrives
<1>2. /\ r.answer.servers \in SUBSET Servers /\ r.who \notin Handlers
      /\ path \in Pages /\ active \in ActivePairs /\ visited.last \in Pages
      /\ path.server = 0
  <2>1. path.page = "root" /\ path \in Pages
    BY <1>1, RequestIs DEF Indexes, LandsInv, ShellTyped
  <2>2. path.server = 0
    BY <2>1, PagesAre
  <2>3. QED
    BY <1>1, <2>1, <2>2, RequestIs, ThePages DEF Handlers, LandsInv, ShellTyped
<1> DEFINE none == {}
<1>3. none \in SUBSET Requests /\ \A q \in none : FALSE
  OBVIOUS
<1>4. CASE Become(DirectMessages, active, reqs \ {r}, none)
           \/ Become(visited.last, active, reqs \ {r}, none)
  <2> HIDE DEF none
  <2>1. QED
    BY <1>1, <1>2, <1>3, <1>4, ThePages, EffectsKeepClick
<1>5. CASE r.answer.servers # {} /\ Become(path, active, reqs \ {r},
                                         {Ask("indexFirst", Min(r.answer.servers))})
  <2>1. Min(r.answer.servers) \in Servers
    BY <1>2, <1>5, MinIsIn, ShellAssumption
  <2> DEFINE more == {Ask("indexFirst", Min(r.answer.servers))}
  <2>2. more \in SUBSET Requests /\ \A q \in more : q.who \notin Handlers
    BY <2>1, AskIs DEF Effects, Handlers
  <2>3. Become(path, active, reqs \ {r}, more)
    BY <1>5
  <2> HIDE DEF more
  <2>4. QED
    BY <1>1, <1>2, <2>2, <2>3, EffectsKeepClick
<1>6. QED
  BY <1>4, <1>5 DEF IndexArrives

LEMMA DroppedClick ==
  ASSUME LandsInv, ClickInv, NEW r, Dropped(r)
  PROVE  ClickInv'
<1>1. /\ r \in reqs /\ ~r.live /\ reqs' = reqs \ {r}
      /\ UNCHANGED <<joined, rooms, path, active, want, overtaken>>
  BY DEF Dropped
<1>2. r.who \notin Handlers
  BY <1>1, RequestIs DEF Handlers
<1>3. ~Leaving => ~Leaving'
  BY <1>1 DEF Leaving
<1>4. QED
  BY <1>1, <1>2, <1>3, ClickStays

\* Only the last click is being handled, when a handler is at work at all.
LEMMA TheHandler ==
  ASSUME ClickInv, NEW r \in reqs, r.who \in Handlers, ~overtaken, want # 0
  PROVE  Pending(r) /\ r.who \notin {"add", "addList"} /\ r.server = want
<1>1. Busy
  BY DEF Busy
<1>2. PICK h \in reqs : Pending(h)
  BY <1>1 DEF ClickInv, Handled
<1>3. h = r
  BY <1>2 DEF Pending
<1>4. QED
  BY <1>2, <1>3 DEF Pending

LEMMA AnswerClick ==
  ASSUME LandsInv, ClickInv, NEW r, Answer(r)
  PROVE  ClickInv'
<1>1. /\ r \in reqs /\ ~r.answer.done
      /\ reqs' = (reqs \ {r}) \cup
           {[r EXCEPT !.answer = [servers |-> joined', rooms |-> In(rooms', r.server), done |-> TRUE]]}
      /\ UNCHANGED <<path, active, want, overtaken>>
  BY DEF Answer
<1>2. r \in Requests /\ joined \subseteq joined'
      /\ (r.who \notin {"create", "join"} => joined' = joined)
      /\ (r.who \notin {"createChannel", "add", "join"} => rooms' = rooms)
  BY <1>1, AnswerIs, RequestIs
<1>3. PICK r2 : /\ reqs' = (reqs \ {r}) \cup {r2}
                /\ r2.who = r.who /\ r2.server = r.server /\ r2.live = r.live
                /\ r2.answer.servers = joined' /\ r2.answer.rooms = In(rooms', r.server)
  <2> DEFINE x == [r EXCEPT !.answer = [servers |-> joined', rooms |-> In(rooms', r.server),
                                        done |-> TRUE]]
  <2>1. /\ x.who = r.who /\ x.server = r.server /\ x.live = r.live
        /\ x.answer.servers = joined' /\ x.answer.rooms = In(rooms', r.server)
    BY <1>2 DEF Requests
  <2>2. reqs' = (reqs \ {r}) \cup {x}
    BY <1>1
  <2> HIDE DEF x
  <2>3. QED
    BY <2>1, <2>2
<1>4. CASE r.who \in Handlers
  <2>1. SUFFICES ASSUME ~overtaken, want # 0
                 PROVE  \E h \in reqs' : Pending(h)'
    BY <1>1 DEF ClickInv
  <2>2. Pending(r) /\ r.server = want
    BY <1>1, <1>4, <2>1, TheHandler
  <2>3. r2.who \in Handlers \ {"add", "addList"} /\ r2.server = want'
        /\ (r2.who = "nav" => want' \in joined')
    BY <1>1, <1>2, <1>3, <2>2 DEF Pending
  <2>4. \A q \in reqs' : q.who \in Handlers => q = r2
    BY <1>3, <2>2 DEF Pending
  <2>5. r2.answer.rooms = In(rooms, want)'
    BY <1>1, <1>3, <2>2 DEF In
  <2>6. Pending(r2)'
    BY <2>3, <2>4, <2>5 DEF Pending
  <2>7. QED
    BY <1>3, <2>6
<1>5. CASE r.who \notin Handlers
  <2>1. UNCHANGED <<joined, rooms, want, overtaken>>
    BY <1>1, <1>2, <1>5 DEF Handlers
  <2>2. /\ \A q \in reqs : q.who \in Handlers => q \in reqs'
        /\ \A q \in reqs' : q.who \in Handlers => q \in reqs
    BY <1>1, <1>3, <1>5
  <2>3. path.server \in joined /\ ~Leaving => ~Leaving'
    BY <1>1, <1>3, <2>1 DEF Leaving
  <2>4. QED
    BY <1>1, <2>1, <2>2, <2>3, ClickStays
<1>6. QED
  BY <1>4, <1>5

-----------------------------------------------------------------------------
(* The handlers go on, or they are through.                                *)

LEMMA ContinueClick ==
  ASSUME LandsInv, ClickInv, NEW r \in reqs, r.who \in Handlers,
         NEW who \in {"createList", "createFirst", "createChannel", "joinList", "joinFirst", "addList"},
         who = "addList" => r.who = "add", Continue(r, who)
  PROVE  ClickInv'
<1> DEFINE r2 == Ask(who, r.server)
<1>1. reqs' = (reqs \ {r}) \cup {r2} /\ UNCHANGED <<want, overtaken>>
  BY DEF Continue
<1>2. SUFFICES ASSUME ~overtaken, want # 0
               PROVE  \E h \in reqs' : Pending(h)'
  BY <1>1 DEF ClickInv
<1>3. Pending(r) /\ r.who \notin {"add", "addList"} /\ r.server = want
  BY <1>2, TheHandler
<1>4. r2.who = who /\ r2.server = r.server /\ ~r2.answer.done
  BY DEF Ask, NoAnswer
<1> HIDE DEF r2
<1>5. r2.who \in Handlers \ {"add", "addList"} /\ r2.server = want' /\ r2.who # "nav"
  BY <1>1, <1>3, <1>4 DEF Handlers
<1>6. \A q \in reqs' : q.who \in Handlers => q = r2
  BY <1>1, <1>3 DEF Pending
<1>7. Pending(r2)'
  BY <1>4, <1>5, <1>6 DEF Pending
<1>8. QED
  BY <1>1, <1>7

\* The last handler leads the user where the click was to end.
LEMMA EnterEnds ==
  ASSUME LandsInv, ClickInv, NEW r \in reqs, r.who \in Handlers,
         Enter(r.server, First(r.answer.rooms, r.server), reqs \ {r}),
         UNCHANGED <<joined, rooms, want>>, overtaken' = (overtaken \/ Leaving'),
         \/ r.who \in {"nav", "joinFirst"} /\ r.answer.done
         \/ First(r.answer.rooms, r.server) # 0
  PROVE  ClickInv'
<1>1. SUFFICES ASSUME ~overtaken, ~Leaving', want # 0
               PROVE  Handled'
  BY DEF ClickInv
<1>2. Pending(r) /\ r.server = want
  BY <1>1, TheHandler
<1> DEFINE c == First(r.answer.rooms, r.server)
           none == {}
           gone == {r}
<1>3. /\ r.server \in Servers /\ c \in Channels \cup {0}
      /\ r.answer.rooms \in SUBSET Channels
  <2>1. /\ r.server \in Servers /\ (c = 0 \/ c \in In(rooms, r.server))
        /\ r.answer.rooms \in SUBSET Channels
    BY RequestIs DEF Handlers
  <2>2. QED
    BY <2>1 DEF In, LandsInv, ShellTyped
<1>4. c = 0 => In(rooms, want) = {}
  <2>1. ASSUME c = 0 PROVE In(rooms, want) = {}
    <3>1. r.answer.rooms = In(rooms, want)
      BY <1>2, <2>1 DEF Pending
    <3>2. In(r.answer.rooms, r.server) = {}
      BY <1>3, <2>1, FirstIs
    <3>3. QED
      BY <1>2, <3>1, <3>2 DEF In
  <2>2. QED
    BY <2>1
<1>5. Enter(r.server, c, reqs \ {r})
  OBVIOUS
<1> HIDE DEF c
<1>6. PICK p \in Pages, a \in ActivePairs :
        Become(p, a, reqs \ {r}, {}) /\ (c # 0 => p.server = r.server)
  BY <1>3, <1>5, EnterIs
<1>7. /\ none \in SUBSET Requests /\ \A q \in none : q.who \notin Handlers
      /\ gone \in SUBSET reqs /\ Become(p, a, reqs \ gone, none)
  BY <1>6
<1>8. ~Busy'
  <2> HIDE DEF none, gone
  <2>1. \A q \in reqs' : q.who \in Handlers => q \in reqs \ gone
    BY <1>7, HandlersStay
  <2>2. \A q \in reqs' : q.who \notin Handlers
    BY <1>2, <2>1 DEF Pending, gone
  <2>3. QED
    BY <2>2 DEF Busy
<1>9. path' = p
  BY <1>6 DEF Become
<1>10. In(rooms, want)' = In(rooms, want)
  BY DEF In
<1>11. QED
  BY <1>1, <1>2, <1>4, <1>6, <1>8, <1>9, <1>10 DEF Handled

LEMMA HandlersArriveClick ==
  ASSUME LandsInv, ClickInv, NEW r,
         NavArrives(r) \/ MembershipArrives(r) \/ RefreshArrives(r) \/ CreatedArrives(r)
  PROVE  ClickInv'
<1>1. r \in reqs /\ r.who \in Handlers
  BY DEF NavArrives, MembershipArrives, RefreshArrives, CreatedArrives, Arrives, Handlers
<1>2. CASE NavArrives(r)
  BY <1>1, <1>2, EnterEnds DEF NavArrives, Arrives
<1>3. CASE MembershipArrives(r) \/ RefreshArrives(r)
  <2>1. PICK who \in {"createList", "createFirst", "joinList", "joinFirst"} : Continue(r, who)
    BY <1>3 DEF MembershipArrives, RefreshArrives
  <2>2. QED
    BY <1>1, <2>1, ContinueClick
<1>4. CASE CreatedArrives(r)
  <2>1. CASE Continue(r, "createChannel")
    BY <1>1, <2>1, ContinueClick
  <2>2. CASE /\ First(r.answer.rooms, r.server) # 0
             /\ Enter(r.server, First(r.answer.rooms, r.server), reqs \ {r})
             /\ overtaken' = (overtaken \/ Leaving')
             /\ UNCHANGED <<joined, rooms, want>>
    BY <1>1, <2>2, EnterEnds
  <2>3. QED
    BY <1>4, <2>1, <2>2 DEF CreatedArrives
<1>5. QED
  BY <1>2, <1>3, <1>4

LEMMA AddedArrivesClick ==
  ASSUME LandsInv, ClickInv, NEW r, AddedArrives(r)
  PROVE  ClickInv'
<1>1. r \in reqs /\ r.who \in {"add", "addList"} /\ UNCHANGED <<want, overtaken>>
  BY DEF AddedArrives, Arrives, Continue
<1>2. overtaken \/ want = 0
  BY <1>1, TheHandler DEF Handlers
<1>3. QED
  BY <1>1, <1>2 DEF ClickInv

-----------------------------------------------------------------------------
(* The user's next click.                                                  *)

LEMMA HandleClick ==
  ASSUME LandsInv, NEW who \in {"nav", "create", "join", "add"}, NEW s \in Servers,
         NEW goal \in {0, s}, who = "add" => goal = 0,
         who = "nav" => s \in joined, Handle(who, s, goal)
  PROVE  ClickInv'
<1> DEFINE n == Ask(who, s)
<1>1. /\ reqs' = reqs \cup {n} /\ want' = goal /\ overtaken' = Busy
      /\ UNCHANGED <<joined, rooms>>
  BY DEF Handle, Click
<1>2. n.who = who /\ n.server = s /\ ~n.answer.done
  BY DEF Ask, NoAnswer
<1> HIDE DEF n
<1>3. SUFFICES ASSUME ~Busy, goal # 0
               PROVE  Pending(n)'
  BY <1>1 DEF ClickInv
<1>4. n.who \in Handlers \ {"add", "addList"} /\ n.server = want'
  BY <1>1, <1>2, <1>3 DEF Handlers
<1>5. \A q \in reqs' : q.who \in Handlers => q = n
  BY <1>1, <1>3 DEF Busy
<1>6. n.who = "nav" => want' \in joined'
  BY <1>1, <1>2, <1>3
<1>7. QED
  BY <1>2, <1>4, <1>5, <1>6 DEF Pending

LEMMA HandlersClick ==
  ASSUME LandsInv,
         \/ \E s \in Servers : SelectServer(s)
         \/ CreateServer \/ JoinByInvite
         \/ \E c \in Channels : AddChannel(c)
  PROVE  ClickInv'
<1>1. CASE \E s \in Servers : SelectServer(s)
  BY <1>1, HandleClick DEF SelectServer, LandsInv, Honest
<1>2. CASE CreateServer \/ JoinByInvite
  BY <1>2, HandleClick, ShellAssumption DEF CreateServer, JoinByInvite
<1>3. CASE \E c \in Channels : AddChannel(c)
  <2>1. active.server \in Servers /\ Handle("add", active.server, 0)
    BY <1>3, ShellAssumption DEF AddChannel
  <2>2. QED
    BY <2>1, HandleClick
<1>4. QED
  BY <1>1, <1>2, <1>3

LEMMA FollowClick ==
  ASSUME LandsInv, NEW p \in Pages, NEW a \in ActivePairs, Follow(p, a)
  PROVE  ClickInv'
<1> DEFINE none == {}
<1>1. /\ Become(p, a, reqs \ none, none) /\ want' = p.server
      /\ overtaken' = (Busy \/ Leaving') /\ path' = p
      /\ none \in SUBSET reqs /\ none \in SUBSET Requests /\ \A q \in none : FALSE
  <2>1. reqs \ none = reqs
    OBVIOUS
  <2>2. Become(p, a, reqs, none) /\ want' = p.server /\ overtaken' = (Busy \/ Leaving')
    BY DEF Follow, Click
  <2>3. path' = p
    BY <2>2 DEF Become
  <2>4. QED
    BY <2>1, <2>2, <2>3
<1>2. SUFFICES ASSUME ~Busy, ~Leaving'
               PROVE  Handled'
  BY <1>1 DEF ClickInv
<1> HIDE DEF none
<1>3. \A q \in reqs' : q.who \in Handlers => q \in reqs \ none
  BY <1>1, HandlersStay
<1>4. ~Busy'
  BY <1>2, <1>3 DEF Busy
<1>5. QED
  BY <1>1, <1>2, <1>4 DEF Handled

-----------------------------------------------------------------------------
(* While nothing fails and nobody is excluded.                             *)

LEMMA StandsStill ==
  ASSUME UNCHANGED vars
  PROVE  /\ LandsInv => LandsInv'
         /\ ClickInv => ClickInv'
<1>1. UNCHANGED <<joined, rooms, path, visited, active, servers, listed, reqs, want, overtaken, made>>
  BY DEF vars
<1>2. LandsInv => LandsInv'
  BY <1>1 DEF LandsInv, ShellTyped, RequestsFit, Fits, Indexes, Leads, Brings, Honest, In,
              ChannelAgrees, RootIsLeft, ServerAgrees, ChannelIsThere
<1>3. ClickInv => ClickInv'
  BY <1>1 DEF ClickInv, Handled, Pending, Busy, Leaving, In
<1>4. QED
  BY <1>2, <1>3

LEMMA ShellStep ==
  ASSUME ShellInv, [Next]_vars
  PROVE  ShellInv'
<1>1. SUFFICES ASSUME Untroubled'
               PROVE  LandsInv' /\ ClickInv'
  BY DEF ShellInv
<1>2. ~Excluded /\ \A r \in reqs : ~Fails(r)
  BY <1>1 DEF Excluded, Fails, Untroubled
<1>3. trouble' = trouble
  BY <1>2 DEF Next, vars, Answer, Receive, ListArrives, FirstArrives, ChannelsArrive,
              IndexArrives, IndexFirstArrives, Dropped, NavArrives, MembershipArrives,
              RefreshArrives, CreatedArrives, AddedArrives, Continue, SelectServer,
              CreateServer, JoinByInvite, AddChannel, SelectChannel, SelectTournament,
              GoBack, Handle, Follow
<1>4. LandsInv /\ ClickInv
  BY <1>1, <1>3 DEF ShellInv, Untroubled
<1>5. CASE UNCHANGED vars
  BY <1>4, <1>5, StandsStill
<1>6. CASE \E r \in reqs : Answer(r)
  BY <1>4, <1>6, AnswerLands, AnswerClick
<1>7. CASE \E r \in reqs : Receive(r)
  <2>1. PICK r \in reqs : Receive(r)
    BY <1>7
  <2>2. LandsInv'
    BY <1>4, <2>1, ListArrivesLands, FirstArrivesLands, ChannelsArriveLands,
       IndexArrivesLands, DroppedLands, NavArrivesLands, MembershipArrivesLands,
       RefreshArrivesLands, CreatedArrivesLands, AddedArrivesLands DEF Receive
  <2>3. ClickInv'
    BY <1>4, <2>1, ListArrivesClick, FirstArrivesClick, ChannelsArriveClick,
       IndexArrivesClick, DroppedClick, HandlersArriveClick, AddedArrivesClick DEF Receive
  <2>4. QED
    BY <2>2, <2>3
<1>8. CASE \/ \E s \in Servers : SelectServer(s)
           \/ CreateServer \/ JoinByInvite
           \/ \E c \in Channels : AddChannel(c)
  BY <1>4, <1>8, HandlersLand, HandlersClick
<1>9. CASE \/ \E c \in Channels : SelectChannel(c)
           \/ SelectTournament
           \/ \E p \in visited.addresses : GoBack(p)
  <2>1. PICK p \in Pages, a \in ActivePairs :
          /\ Follow(p, a) /\ a.server = active.server
          /\ p.channel # 0 /\ p.channel = path.channel => a.channel = p.channel
          /\ p = path => p # Root
    BY <1>4, <1>9, FollowedIs
  <2>2. QED
    BY <1>4, <2>1, FollowLands, FollowClick
<1>10. QED
  BY <1>2, <1>5, <1>6, <1>7, <1>8, <1>9 DEF Next

LEMMA ShellInvAlways == Spec => []ShellInv
<1>1. Init => ShellInv
  <2>1. ASSUME Init PROVE ClickInv
    BY <2>1 DEF Init, ClickInv
  <2>2. QED
    BY <2>1, LandsInvInit DEF ShellInv
<1>2. ShellInv /\ [Next]_vars => ShellInv'
  BY ShellStep
<1>3. QED
  BY <1>1, <1>2, PTL DEF Spec

(* When nothing is waited for any more, and nothing failed and nobody was  *)
(* excluded, the address and the active pair of AppShell agree, the server *)
(* is the user's and the channel is one that the user can see.             *)
THEOREM UserLands == Spec => []Lands
<1>1. ShellInv => Lands
  <2>1. SUFFICES ASSUME LandsInv, Quiet
                 PROVE  /\ path.page # "root"
                        /\ path.page # "me" => path.server = active.server /\ path.server \in joined
                        /\ path.page \in {"channel", "voice"} => path.channel = active.channel
                        /\ path.page = "channel" =>
                             path.channel \in In(rooms, path.server) \/ In(rooms, path.server) \subseteq made
    BY DEF ShellInv, Lands
  <2>2. reqs = {} /\ path \in Pages
    BY <2>1 DEF Quiet, LandsInv, ShellTyped
  <2>3. path.page # "root"
    BY <2>1, <2>2 DEF LandsInv, RootIsLeft
  <2>4. path.page # "me" => path.server = active.server /\ path.server \in joined
    BY <2>1, <2>2, <2>3, PagesAre DEF LandsInv, ServerAgrees
  <2>5. path.page \in {"channel", "voice"} => path.channel = active.channel
    BY <2>1, <2>2, PagesAre DEF LandsInv, ChannelAgrees
  <2>6. path.page = "channel" =>
          path.channel \in In(rooms, path.server) \/ In(rooms, path.server) \subseteq made
    BY <2>1, <2>2, <2>4 DEF LandsInv, ChannelIsThere
  <2>7. QED
    BY <2>3, <2>4, <2>5, <2>6
<1>2. QED
  BY <1>1, ShellInvAlways, PTL

(* When nothing is waited for any more, the user is in the server of the   *)
(* last click: neither the redirects of the index page nor an older answer *)
(* of the lists or of another handler has the last word.                   *)
THEOREM LastClickDecides == Spec => []LastClickCounts
<1>1. ShellInv => LastClickCounts
  BY DEF ShellInv, ClickInv, LastClickCounts, Handled, Quiet
<1>2. QED
  BY <1>1, ShellInvAlways, PTL

==============================================================================
