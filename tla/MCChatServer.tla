---------------------------- MODULE MCChatServer ----------------------------
(* Three connections.  A client writes one of a few scripts, chosen so that  *)
(* each request is met in each state of the user that tells it apart.        *)
EXTENDS ChatServer, TLC

CONSTANTS c1, c2, c3, lobby, m1, m2

L(t) == [tag |-> t, arg |-> NoName]
LoginAs(t) == [tag |-> t, arg |-> m1]
Join(n) == [tag |-> "join", arg |-> n]
Say(m) == [tag |-> "sendall", arg |-> m]

Talk == <<LoginAs("slogin"), Join(lobby), Say(m1), Say(m2)>>
TalkOnce == <<LoginAs("slogin"), Join(lobby), Say(m1)>>
Leave == <<LoginAs("slogin"), Join(lobby), Say(m1), L("leave"), L("leave"), L("quit")>>
Stray == <<LoginAs("slogin"), Say(m1), L("bad"), L("other"), Join(NoName), Say(m1)>>
Listen == <<LoginAs("rlogin"), Join(lobby)>>
ListenNowhere == <<LoginAs("rlogin"), Join(NoName)>>
ListenNot == <<LoginAs("rlogin"), L("leave")>>
NoLogin == <<Join(lobby)>>
Garbage == <<L("bad")>>
Nobody == <<>>

Clients(a, b, c) == (c1 :> a) @@ (c2 :> b) @@ (c3 :> c)

Ample(w) == [wire |-> w, fds |-> 3, threads |-> 3]
Scarce(w) == [wire |-> w, fds |-> 2, threads |-> 1]

AllSetups ==
  {Ample(w) : w \in
     {Clients(Talk, Listen, Nobody), Clients(TalkOnce, TalkOnce, Listen),
      Clients(Leave, Listen, Nobody), Clients(Stray, ListenNowhere, Nobody),
      Clients(NoLogin, Garbage, ListenNot)}}

FewSetups ==
  {Ample(Clients(Talk, Listen, Nobody)), Ample(Clients(Stray, ListenNowhere, Nobody))}

LiveSetups == FewSetups \cup {Scarce(Clients(NoLogin, Listen, Garbage))}
==============================================================================
