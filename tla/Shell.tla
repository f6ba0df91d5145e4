-------------------------------- MODULE Shell --------------------------------
(***************************************************************************)
(* Where the user is: the address bar, the active server and channel of    *)
(* AppShell and its lists, and the requests that move the user around when *)
(* they are answered.  Effects of AppShell start a request when what they  *)
(* depend on changes and drop the answer of the one before; the click      *)
(* handlers wait for theirs whatever happens meanwhile.                    *)
(*                                                                         *)
(* A step is one event of the browser with the effects that follow it:     *)
(* they are flushed before the next event is handled.                      *)
(***************************************************************************)
EXTENDS Integers, FiniteSets, FiniteSetsExt

CONSTANTS Servers,    \* in the order of the list, numbers from 1
          Channels,   \* in the order of their position, numbers from 1
          ServerOf,   \* the server of a channel
          Texts,      \* the text channels
          New,        \* the server the user may create or be invited to
          Openings    \* how the shell is opened: the user's servers and
                      \* channels, the address, last_visited, and the bounds
                      \* of clicks and of trouble (exclusions and failures)

ASSUME ShellAssumption ==
  /\ Servers \subseteq Nat \ {0} /\ Channels \subseteq Nat \ {0}
  /\ ServerOf \in [Channels -> Servers]
  /\ Texts \subseteq Channels /\ New \in Servers
  /\ \E c \in Channels : ServerOf[c] = New

VARIABLES
  joined,   \* backend: the servers of the user
  rooms,    \* backend: the channels the user can see
  path,     \* the address: [page, server, channel], 0 for a part it lacks
  visited,  \* the addresses of the session, and last_visited of storage
  active,   \* activeServerId and activeChannelId, 0 for none
  servers,  \* the server rail
  listed,   \* channelsByServer
  reqs,     \* the requests whose answer is waited for
  want,     \* the server of the user's last click, 0 for none
  overtaken,\* that click came while another handler was at work, or led to
            \* where the user is on the way out
  made,     \* the channels the user has added
  clicks,   \* how many more there may be
  trouble   \* how many more, and whether there were any

vars == <<joined, rooms, path, visited, active, servers, listed, reqs, want,
          overtaken, made, clicks, trouble>>

At(page, s, c) == [page |-> page, server |-> s, channel |-> c]
Root == At("root", 0, 0)
DirectMessages == At("me", 0, 0)
Pages == {Root, DirectMessages}
  \cup {At("tournaments", s, 0) : s \in Servers}
  \cup {At("channel", s, c) : s \in Servers, c \in Channels}
  \cup {At("voice", ServerOf[c], c) : c \in Channels \ Texts}

(* A session begins at a route of the app; last_visited is a channel's.    *)
ASSUME OpeningsAssumption ==
  \A o \in Openings :
    /\ o.joined \subseteq Servers /\ o.rooms \subseteq Channels /\ o.path \in Pages
    /\ o.last = Root \/ \E s \in Servers, c \in Channels : o.last = At("channel", s, c)

(* The effects wait only while they are live; handlers always.             *)
Effects == {"list", "first", "channels", "index", "indexFirst"}
Handlers == {"nav", "create", "createList", "createFirst", "createChannel",
             "join", "joinList", "joinFirst", "add", "addList"}
NoAnswer == [servers |-> {}, rooms |-> {}, done |-> FALSE]
Ask(who, s) == [who |-> who, server |-> s, live |-> TRUE, answer |-> NoAnswer]
Asks(who) == {r \in reqs : r.who = who}

Init ==
  /\ \E o \in Openings :
       /\ joined = o.joined /\ rooms = o.rooms /\ path = o.path
       /\ visited = [addresses |-> {o.path},
                     last |-> IF o.path.page = "channel" THEN o.path ELSE o.last]
       /\ clicks = o.clicks /\ trouble = [left |-> o.trouble, met |-> FALSE]
  /\ active = [server |-> path.server, channel |-> path.channel]
  /\ servers = {} /\ listed = [s \in Servers |-> {}]
  /\ reqs = {Ask("list", 0)}
       \cup {Ask("index", 0) : x \in {path} \cap {Root}}
       \cup {Ask("channels", s) : s \in {path.server} \ {0}}
  /\ want = 0 /\ overtaken = FALSE /\ made = {}

-----------------------------------------------------------------------------
In(R, s) == {c \in R : ServerOf[c] = s}

(* getFirstNavigableChannelId: the text channels come first.               *)
First(R, s) ==
  LET text == In(R, s) \cap Texts
  IN IF text # {} THEN Min(text) ELSE IF In(R, s) # {} THEN Min(In(R, s)) ELSE 0

(* The address becomes p, the handler has set the active pair to a and     *)
(* started `more`: the effects follow.  A part of the address that changed *)
(* becomes active; the lists are asked for again when what they depend on  *)
(* changed, and their answers before that are dropped.                     *)
Become(p, a, others, more) ==
  LET a2 == [server |-> IF p.server \notin {0, path.server} THEN p.server ELSE a.server,
             channel |-> IF p.channel \notin {0, path.channel} THEN p.channel ELSE a.channel]
      moved == p # path
      relist == moved \/ a2 # active
      Kept(r) == CASE r.who = "list" -> ~moved
                   [] r.who = "channels" -> ~relist
                   [] OTHER -> TRUE
      Cut(r) == IF moved /\ r.who \in {"first", "index", "indexFirst"}
                THEN [r EXCEPT !.live = FALSE] ELSE r
  IN /\ path' = p /\ active' = a2
     /\ reqs' = {Cut(r) : r \in {q \in others : Kept(q)}}
          \cup (IF moved THEN {Ask("list", 0)} ELSE {})
          \cup (IF relist THEN {Ask("channels", s) : s \in {a2.server} \ {0}} ELSE {})
          \cup (IF moved /\ p = Root THEN {Ask("index", 0)} ELSE {})
          \cup more
     /\ visited' = [addresses |-> visited.addresses \cup {p},
                    last |-> IF p.page = "channel" THEN p ELSE visited.last]

(* The server of the address is about to be left: it was not among the     *)
(* servers that loadServers got.                                           *)
Leaving ==
  /\ path.server # 0
  /\ \/ active.server # path.server
     \/ \E r \in reqs :
          /\ r.live
          /\ \/ r.who = "first"
             \/ r.who = "list" /\ r.answer.done /\ path.server \notin r.answer.servers

Enter(s, c, others) ==
  IF c = 0 THEN Become(DirectMessages, active, others, {})
           ELSE Become(At("channel", s, c), [server |-> s, channel |-> c], others, {})

-----------------------------------------------------------------------------
(* The backend.                                                            *)

(* It answers a request, doing what was asked for.                         *)
Answer(r) ==
  /\ r \in reqs /\ ~r.answer.done
  /\ joined' = IF r.who \in {"create", "join"} THEN joined \cup {r.server} ELSE joined
  /\ rooms' = rooms \cup
       (CASE r.who = "createChannel" -> {First(Channels, r.server)}
          [] r.who = "add" -> In(made, r.server)
          [] r.who = "join" -> In(Channels, r.server)
          [] OTHER -> {})
  /\ reqs' = (reqs \ {r}) \cup
       {[r EXCEPT !.answer = [servers |-> joined', rooms |-> In(rooms', r.server), done |-> TRUE]]}
  /\ UNCHANGED <<path, visited, active, servers, listed, want, overtaken, made, clicks, trouble>>

(* The user is thrown out of a server, or a channel is hidden from him.    *)
Excluded ==
  /\ trouble.left > 0
  /\ trouble' = [left |-> trouble.left - 1, met |-> TRUE]
  /\ \/ \E s \in joined : joined' = joined \ {s} /\ UNCHANGED rooms
     \/ \E c \in rooms : rooms' = rooms \ {c} /\ UNCHANGED joined
  /\ UNCHANGED <<path, visited, active, servers, listed, reqs, want, overtaken, made, clicks>>

-----------------------------------------------------------------------------
(* The effects' answers.                                                   *)

Arrives(r, who) == r \in reqs /\ r.who = who /\ r.answer.done /\ r.live

(* Mutant: the list leads to its first server, whatever the address.       *)
ListArrivesFirst(r) ==
  /\ Arrives(r, "list")
  /\ servers' = r.answer.servers
  /\ IF servers' = {}
     THEN Become(DirectMessages, active, reqs \ {r}, {})
     ELSE LET next == Min(servers')
              leads == path.page # "root" /\ path.page # "me" /\ path.server # next
          IN Become(path, [active EXCEPT !.server = next], reqs \ {r},
                    IF leads THEN {Ask("first", next)} ELSE {})
  /\ UNCHANGED <<joined, rooms, listed, want, overtaken, made, clicks, trouble>>

(* loadServers: without a server that is in the list, to the first one;    *)
(* the index page finds its own way.                                       *)
ListArrives(r) ==
  /\ Arrives(r, "list")
  /\ servers' = r.answer.servers
  /\ IF servers' = {}
     THEN Become(DirectMessages, active, reqs \ {r}, {})
     ELSE LET next == IF path.server \in servers' THEN path.server ELSE Min(servers')
              leads == path.page # "root" /\ path.page # "me" /\ path.server # next
          IN Become(path, [active EXCEPT !.server = next], reqs \ {r},
                    IF leads THEN {Ask("first", next)} ELSE {})
  /\ UNCHANGED <<joined, rooms, listed, want, overtaken, made, clicks, trouble>>

FirstArrives(r) ==
  /\ Arrives(r, "first")
  /\ LET c == First(r.answer.rooms, r.server)
     IN IF c = 0 THEN Become(DirectMessages, active, reqs \ {r}, {})
        ELSE Become(At("channel", r.server, c), active, reqs \ {r}, {})
  /\ UNCHANGED <<joined, rooms, servers, listed, want, overtaken, made, clicks, trouble>>

(* Mutant: a server without channels leads back to the index page.         *)
ChannelsArriveOrLeave(r) ==
  /\ Arrives(r, "channels")
  /\ listed' = [listed EXCEPT ![r.server] = r.answer.rooms]
  /\ IF active.channel \in r.answer.rooms \/ path.page \in {"voice", "tournaments"}
     THEN Become(path, active, reqs \ {r}, {})
     ELSE IF r.answer.rooms = {} THEN Become(Root, active, reqs \ {r}, {})
     ELSE Enter(r.server, First(r.answer.rooms, r.server), reqs \ {r})
  /\ UNCHANGED <<joined, rooms, servers, want, overtaken, made, clicks, trouble>>

(* Mutant: a channel that is not there stays on the screen.                *)
ChannelsArriveOnly(r) ==
  /\ Arrives(r, "channels")
  /\ listed' = [listed EXCEPT ![r.server] = r.answer.rooms]
  /\ Become(path, active, reqs \ {r}, {})
  /\ UNCHANGED <<joined, rooms, servers, want, overtaken, made, clicks, trouble>>

(* loadChannels: when the active channel is not among them, to the first   *)
(* one, but not from a voice or tournament page.                           *)
ChannelsArrive(r) ==
  /\ Arrives(r, "channels")
  /\ listed' = [listed EXCEPT ![r.server] = r.answer.rooms]
  /\ IF \/ active.channel \in r.answer.rooms \/ r.answer.rooms = {}
        \/ path.page \in {"voice", "tournaments"}
     THEN Become(path, active, reqs \ {r}, {})
     ELSE Enter(r.server, First(r.answer.rooms, r.server), reqs \ {r})
  /\ UNCHANGED <<joined, rooms, servers, want, overtaken, made, clicks, trouble>>

(* AppIndexRedirect: to the channel visited last, if its server is there,  *)
(* or else to the first channel of the first server.                       *)
IndexArrives(r) ==
  /\ Arrives(r, "index")
  /\ CASE r.answer.servers = {} -> Become(DirectMessages, active, reqs \ {r}, {})
       [] visited.last.server \in r.answer.servers ->
            Become(visited.last, active, reqs \ {r}, {})
       [] OTHER -> Become(path, active, reqs \ {r},
                          {Ask("indexFirst", Min(r.answer.servers))})
  /\ UNCHANGED <<joined, rooms, servers, listed, want, overtaken, made, clicks, trouble>>

IndexFirstArrives(r) ==
  /\ Arrives(r, "indexFirst")
  /\ LET c == First(r.answer.rooms, r.server)
     IN IF c = 0 THEN Become(DirectMessages, active, reqs \ {r}, {})
        ELSE Become(At("channel", r.server, c), active, reqs \ {r}, {})
  /\ UNCHANGED <<joined, rooms, servers, listed, want, overtaken, made, clicks, trouble>>

(* An answer that is no longer waited for.                                 *)
Dropped(r) ==
  /\ r \in reqs /\ r.answer.done /\ ~r.live
  /\ reqs' = reqs \ {r}
  /\ UNCHANGED <<joined, rooms, path, visited, active, servers, listed, want,
                 overtaken, made, clicks, trouble>>

-----------------------------------------------------------------------------
(* The handlers' answers.                                                  *)

(* navigateToServerFirstChannel, for the rail and after joining.           *)
NavArrives(r) ==
  /\ r.who \in {"nav", "joinFirst"} /\ Arrives(r, r.who)
  /\ Enter(r.server, First(r.answer.rooms, r.server), reqs \ {r})
  /\ overtaken' = (overtaken \/ Leaving')
  /\ UNCHANGED <<joined, rooms, servers, listed, want, made, clicks, trouble>>

(* handleCreateServer and handleJoinByInvite, one request after the other. *)
Continue(r, who) ==
  /\ reqs' = (reqs \ {r}) \cup {Ask(who, r.server)}
  /\ UNCHANGED <<joined, rooms, path, visited, active, want, overtaken, made, clicks, trouble>>

MembershipArrives(r) ==
  /\ \/ Arrives(r, "create") /\ Continue(r, "createList")
     \/ Arrives(r, "join") /\ Continue(r, "joinList")
  /\ UNCHANGED <<servers, listed>>

RefreshArrives(r) ==
  /\ \/ Arrives(r, "createList") /\ Continue(r, "createFirst")
     \/ Arrives(r, "joinList") /\ Continue(r, "joinFirst")
  /\ servers' = r.answer.servers
  /\ UNCHANGED listed

(* A server that was created has no channel until the first one is made.   *)
CreatedArrives(r) ==
  LET c == First(r.answer.rooms, r.server)
  IN /\ \/ Arrives(r, "createFirst") /\ c = 0 /\ Continue(r, "createChannel")
        \/ /\ r.who \in {"createFirst", "createChannel"} /\ Arrives(r, r.who) /\ c # 0
           /\ Enter(r.server, c, reqs \ {r})
           /\ overtaken' = (overtaken \/ Leaving')
           /\ UNCHANGED <<joined, rooms, want, made, clicks, trouble>>
     /\ UNCHANGED <<servers, listed>>

(* handleCreateChannel and refreshChannels.                                *)
AddedArrives(r) ==
  /\ \/ Arrives(r, "add") /\ Continue(r, "addList") /\ UNCHANGED listed
     \/ /\ Arrives(r, "addList")
        /\ reqs' = reqs \ {r}
        /\ listed' = [listed EXCEPT ![r.server] = r.answer.rooms]
        /\ UNCHANGED <<joined, rooms, path, visited, active, want, overtaken, made, clicks, trouble>>
  /\ UNCHANGED servers

(* A request fails.  The index page, the second request of loadServers and *)
(* the rail go to the direct messages, the first two even when nobody      *)
(* waits for them any more; the dialogs show the error.                    *)
Fails(r) ==
  /\ r \in reqs
  /\ trouble.left > 0
  /\ trouble' = [left |-> trouble.left - 1, met |-> TRUE]
  /\ IF r.who \in {"list", "first", "index", "indexFirst", "nav"}
     THEN Become(DirectMessages, active, reqs \ {r}, {})
     ELSE reqs' = reqs \ {r} /\ UNCHANGED <<path, visited, active>>
  /\ UNCHANGED <<joined, rooms, servers, listed, want, overtaken, made, clicks>>

-----------------------------------------------------------------------------
(* The user.                                                               *)

(* A click that is to end in server s, 0 for nowhere in particular.        *)
Click(s) ==
  /\ clicks > 0 /\ clicks' = clicks - 1
  /\ want' = s

Busy == \E r \in reqs : r.who \in Handlers

Handle(who, s, goal) ==
  /\ Click(goal)
  /\ reqs' = reqs \cup {Ask(who, s)}
  /\ overtaken' = Busy
  /\ UNCHANGED <<joined, rooms, path, visited, active, servers, listed, trouble>>

SelectServer(s) == s \in servers /\ Handle("nav", s, s) /\ UNCHANGED made
CreateServer == New \notin joined /\ Handle("create", New, New) /\ UNCHANGED made
JoinByInvite == New \notin joined /\ Handle("join", New, New) /\ UNCHANGED made

AddChannel(c) ==
  /\ path.page # "me" /\ active.server = ServerOf[c] /\ c \notin rooms \cup made
  /\ Handle("add", active.server, 0)
  /\ made' = made \cup {c}

(* The links of the sidebar are those of the active server.                *)
Follow(p, a) ==
  /\ Click(p.server)
  /\ Become(p, a, reqs, {})
  /\ overtaken' = (Busy \/ Leaving')
  /\ UNCHANGED <<joined, rooms, servers, listed, made, trouble>>

SelectChannel(c) ==
  /\ path.page # "me" /\ active.server # 0 /\ c \in listed[active.server]
  /\ Follow(At(IF c \in Texts THEN "channel" ELSE "voice", active.server, c),
            [active EXCEPT !.channel = c])

SelectTournament ==
  /\ path.page # "me" /\ active.server # 0
  /\ Follow(At("tournaments", active.server, 0), active)

(* The browser's back and forward buttons.                                 *)
GoBack(p) == p \in visited.addresses \ {path} /\ Follow(p, active)

-----------------------------------------------------------------------------
Receive(r) ==
  \/ ListArrives(r)
  \/ FirstArrives(r)
  \/ ChannelsArrive(r)
  \/ IndexArrives(r)
  \/ IndexFirstArrives(r)
  \/ Dropped(r)
  \/ NavArrives(r)
  \/ MembershipArrives(r)
  \/ RefreshArrives(r)
  \/ CreatedArrives(r)
  \/ AddedArrives(r)

Next ==
  \/ Excluded
  \/ \E r \in reqs : Answer(r)
  \/ \E r \in reqs : Receive(r)
  \/ \E r \in reqs : Fails(r)
  \/ \E s \in Servers : SelectServer(s)
  \/ CreateServer
  \/ JoinByInvite
  \/ \E c \in Channels : AddChannel(c)
  \/ \E c \in Channels : SelectChannel(c)
  \/ SelectTournament
  \/ \E p \in visited.addresses : GoBack(p)

(* Every request ends: it is answered, and the answer is received.         *)
Respond == \E r \in reqs : Answer(r) \/ Receive(r)

Spec == Init /\ [][Next]_vars /\ WF_vars(Respond)

-----------------------------------------------------------------------------
Quiet == reqs = {}
Untroubled == ~trouble.met

(* However the redirects of the index page, the two lists and the handlers *)
(* come in each other's way, the user stays somewhere in the end: no two   *)
(* of them send the user to and fro for ever.                              *)
Settles == <>[]Quiet

(* Where the user stays, the address and the active pair agree, the server *)
(* is one of the user's and the channel, where it has any, one of its own. *)
(* Failed requests and exclusions meanwhile are excepted, and so is a      *)
(* server that had no channel but those the user added meanwhile.          *)
Lands ==
  Quiet /\ Untroubled =>
    /\ path.page # "root"
    /\ path.page # "me" => path.server = active.server /\ path.server \in joined
    /\ path.page \in {"channel", "voice"} => path.channel = active.channel
    /\ path.page = "channel" =>
         path.channel \in In(rooms, path.server) \/ In(rooms, path.server) \subseteq made

(* The user stays in the server of the last click, unless another handler  *)
(* was still at work then and moves the user later, the click led to where *)
(* loadServers was taking the user away from, since its answer is older    *)
(* than the user's membership, or the server has no channel.               *)
LastClickCounts ==
  Quiet /\ Untroubled /\ ~overtaken /\ want # 0 =>
    path.server = want \/ In(rooms, want) = {} \/ want \notin joined
=============================================================================
