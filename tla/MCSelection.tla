----------------------------- MODULE MCSelection -----------------------------
(* Small instances of Selection and ChannelLists: a root and replies, two of  *)
(* which were made in the same millisecond; four channels, two of a name and  *)
(* one a direct channel.                                                      *)
EXTENDS ChannelLists

FourIds == 1..4
FourMoments == 0..3
TwoTie == <<1, 3, 2, 3>>
TwoOfAName == <<2, 1, 2, 3>>
OneDirect == {4}
=============================================================================
