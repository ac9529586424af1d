------------------------------ MODULE MCClients ------------------------------
(* A few pairs of users: what is typed is short, too long to be delivered in   *)
(* one line or to be sent in one, and its rests are rejected, obeyed, answered *)
(* or printed; so are the rests of names.  Others say a text of each kind.     *)
EXTENDS Clients

Whole == [shows |-> "whole", rest |-> <<>>]
Colon == [shows |-> "colon", rest |-> <<>>]
Junk == [tag |-> "bad", here |-> TRUE, shows |-> "whole"]
Rest(here, shows) == [tag |-> "delivery", here |-> here, shows |-> shows]

\* What others say: by a user with a long name; with a rest of every kind.
SomeSaid ==
  {[shows |-> "name", rest |-> <<>>],
   [shows |-> "no_text", rest |-> <<Junk>>],
   [shows |-> "no_name", rest |-> <<Junk, Rest(TRUE, "whole")>>],
   [shows |-> "cut", rest |-> <<Rest(TRUE, "no_text"), Rest(FALSE, "cut")>>]}

Up(tag) == [tag |-> tag, to |-> "none", says |-> Whole]
JoinTo(place) == [tag |-> "join", to |-> place, says |-> Whole]
Long(line, rest) == [does |-> "send", line |-> line, rest |-> rest]
Short(line) == Long(line, <<>>)
Refused == [does |-> "nothing"]
BareJoin == [does |-> "abort"]
Cutting(text) == Says([shows |-> "cut", rest |-> <<text>>])

Named(rest, reply_rest) == [rest |-> rest, reply_rest |-> reply_rest]
Plain == Named(<<>>, "none")

Pair(types, s_name, r_name) ==
  [types |-> types, blank |-> Whole, sender |-> s_name, receiver |-> r_name,
   join_rest |-> <<>>, plain |-> TRUE]

Words == <<Short(JoinTo("here")), Short(Says(Colon)), Short(Up("quit"))>>

SomeUsers ==
  {Pair(Words, Plain, Plain),
   Pair(<<Short(JoinTo("here")), Short(Cutting(Rest(TRUE, "whole"))), Short(Up("leave"))>>,
        Plain, Plain),
   \* Rests that are taken for what a user might have typed.
   Pair(<<Long(JoinTo("here"), <<Up("bad")>>),
          Long(Cutting(Junk), <<Says(Whole), Up("bad")>>), Short(Says(Whole))>>, Plain, Plain),
   Pair(<<Short(JoinTo("here")), Long(Cutting(Junk), <<Up("other"), JoinTo("elsewhere")>>),
          Short(Says(Whole))>>, Plain, Plain),
   Pair(<<Short(JoinTo("here")), Long(Cutting(Junk), <<Up("quit")>>), Short(Up("leave"))>>,
        Plain, Plain),
   \* Outside of a room.
   Pair(<<Short(Says(Whole)), Refused, Short(JoinTo("none")), Short(Up("leave")), BareJoin>>,
        Plain, Plain),
   \* Long names.
   Pair(Words, Named(<<>>, "bad"), Plain),
   Pair(<<Short(Up("leave")), Short(Up("quit"))>>, Named(<<>>, "other"), Named(<<>>, "bad")),
   Pair(<<Short(Up("quit"))>>, Named(<<JoinTo("here"), Says(Whole)>>, "ok"), Plain),
   [Pair(<<Short(JoinTo("here")), Short(Cutting(Rest(TRUE, "whole")))>>, Plain,
         Named(<<JoinTo("here")>>, "ok"))
      EXCEPT !.plain = FALSE],
   Pair(<<>>, Named(<<Up("bad")>>, "err"), Named(<<Up("bad")>>, "err")),
   \* A room whose name has a colon or does not fit.
   [Pair(<<Short(JoinTo("here")), Short(Says(Whole))>>, Plain, Plain)
      EXCEPT !.plain = FALSE, !.join_rest = <<Up("bad")>>]}
==============================================================================
