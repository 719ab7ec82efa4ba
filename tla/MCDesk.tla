------------------------------- MODULE MCDesk -------------------------------
EXTENDS Desk
CONSTANTS h1, h2, null
AllKinds == DialogueKinds \cup {"compression", "video"}
Mix(kinds, most) == [kinds |-> kinds, most |-> most]
UpdateMixes ==
  {Mix({"compression", "video", "text", "ban"}, 4), Mix({"text", "ban", "unban"}, 4),
   Mix({"reddit", "text", "sort"}, 5), Mix({"cookies", "document"}, 4),
   Mix({"broadcast", "text", "send"}, 4), Mix({"add proxy", "reddit", "text"}, 4)}
TextOnly == {Mix({"text"}, 4)}
TwoSwitches == {"compression", "video"}
=============================================================================
