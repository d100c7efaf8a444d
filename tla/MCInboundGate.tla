----------------------------- MODULE MCInboundGate -----------------------------
(***************************************************************************)
(* InboundGate for TLC: an operator, a friend on the allowlist, a stranger,*)
(* a channel.                                                              *)
(***************************************************************************)
EXTENDS InboundGate

CONSTANTS op, friend, stranger, room

MCPeers == {op, friend, stranger}
MCChannels == {room}
MCAllowed == {op, friend}

Message(id, kind, chat, from, says, file, re) ==
    [id |-> id, kind |-> kind, chat |-> chat, from |-> from, at |-> 0,
     says |-> says, file |-> file, re |-> re, whom |-> friend]

DM(id, from, says, file) == Message(id, "dm", from, from, says, file, 0)

Text == DM(1, friend, "chatter", FALSE)
MoreText == DM(2, friend, "request", FALSE)

\* The files of a friend, who writes about them or not.
FileEvents ==
    {Text, MoreText, DM(3, friend, "nothing", TRUE),
     DM(4, friend, "nothing", TRUE), DM(5, friend, "chatter", TRUE)}

\* The operator blocks the friend, unblocks, blocks again and lists; a stranger
\* sends a file.
BlockEvents ==
    {Text, DM(6, stranger, "nothing", TRUE), DM(7, op, "block", FALSE),
     DM(8, op, "unblock", FALSE), DM(9, op, "block", FALSE),
     DM(10, op, "blocked", FALSE)}

\* A stranger's file in the channel, its deletion, and what a member says.
RoomEvents ==
    {Message(11, "group", room, stranger, "nothing", TRUE, 0),
     Message(12, "delete", room, stranger, "nothing", FALSE, 11),
     Message(13, "group", room, friend, "mention", FALSE, 11),
     Message(14, "group", room, friend, "request", TRUE, 11)}

\* A request without a file besides.
TalkEvents ==
    RoomEvents \union {Message(15, "group", room, friend, "request", FALSE, 0)}

MCScenarios == {FileEvents, BlockEvents, RoomEvents}
TurnScenarios == {FileEvents, TalkEvents}
MCEvents == UNION (MCScenarios \union TurnScenarios)
===============================================================================
