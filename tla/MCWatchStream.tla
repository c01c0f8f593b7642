--------------------------- MODULE MCWatchStream ---------------------------
(* Small instances of WatchStream.  The messages are shaped as the server   *)
(* sends them: a post and a reaction are broadcast to their channel, a      *)
(* status to a user; and the user pins a post of another.                   *)
EXTENDS WatchStream

InChannel(type, by, in) ==
  [type |-> type, by |-> by, of |-> by, in |-> in, payload |-> by,
   scope |-> [channel |-> in, user |-> ""], data |-> [channel |-> "", user |-> ""]]
OfUser(type, by, in) ==
  [type |-> type, by |-> by, of |-> by, in |-> in, payload |-> "",
   scope |-> [channel |-> "", user |-> by], data |-> [channel |-> in, user |-> ""]]
Typing(by, in) == [InChannel("typing", by, in) EXCEPT !.payload = "", !.data.user = by]
Pin(by, of, in) == [InChannel("post_edited", by, in) EXCEPT !.of = of, !.payload = of]

Events == <<InChannel("posted", "ann", "c1"), InChannel("posted", "me", "c1"),
            Pin("me", "ann", "c1"), OfUser("channel_viewed", "me", "c1"),
            Pin("bob", "me", "c1"), Typing("bob", "c1"), InChannel("posted", "bob", "c2")>>
OneChannel == {"c1"}
AllTypes == {}
=============================================================================
