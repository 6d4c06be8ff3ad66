---------------------------- MODULE MCConsoleToBoard ----------------------------
(* ConsoleToBoard with a long line, a short one, one that fits into the buffer   *)
(* and not into a packet, and one packet of another task.  The buffer is full    *)
(* for ever when two lines have lost the pieces with their newlines.             *)
EXTENDS ConsoleToBoard

CONSTANTS long, over, short, drawing, console, view

MCLines == {long, short, over}
MCLength == [l \in MCLines |-> CASE l = long -> 2 [] l = over -> 3 [] OTHER -> 1]
MCPackets == {drawing} \cup UNION {[1 .. n -> SerCon!Pieces] : n \in 1 .. BufSize}
MCTooLong == UNION {[1 .. n -> SerCon!Pieces] : n \in PacketRoom + 1 .. BufSize}
===============================================================================
