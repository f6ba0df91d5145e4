------------------------------- MODULE MCShell -------------------------------
EXTENDS Shell

(* Server 1 has a text and a voice channel, server 2 two text channels.    *)
MCServerOf == <<1, 1, 2, 2, 3>>
MCTexts == {1, 3, 4, 5}

Opened(in, seen, at, before, n, m) ==
  [joined |-> in, rooms |-> seen, path |-> at, last |-> before, clicks |-> n,
   trouble |-> m]

(* The index page, with and without a channel to return to, and addresses  *)
(* that are right, of another server, of a channel of another server, of a *)
(* server that has no channel, and of the server the user is yet to join.  *)
MCOpenings ==
  {Opened({1, 2}, {1, 2, 3, 4}, Root, At("channel", 2, 4), 2, 0)}
  \cup {Opened({1, 2}, {1, 2, 3, 4}, Root, last, 1, 0) :
      last \in {Root, At("channel", 3, 5)}}
  \cup {Opened({1, 2}, {1, 2, 3, 4}, At("channel", 2, 4), Root, 2, 0)}
  \cup {Opened({1, 2}, {1, 2, 4}, p, Root, 1, 1) :
      p \in {At("channel", 2, 1), DirectMessages, Root}}
  \cup {Opened({1, 2}, {1, 2, 3, 4}, At("channel", 3, 5), Root, 1, 0)}
  \cup {Opened(in, {4}, p, At("channel", 1, 1), 1, 0) :
      in \in {{}, {1}, {1, 2}},
      p \in {Root, DirectMessages, At("channel", 1, 4), At("channel", 2, 4)}}
=============================================================================
