----------------------------- MODULE ConsoleToBoard -----------------------------
(***************************************************************************)
(* The serial console and the line to the board: what the operator types   *)
(* is read, cut into lines and passed on with send_utf_string by           *)
(* sercon_line_callback (src/main.cpp), which runs in the console's task,  *)
(* while another task draws.  The console reads nothing until send_pkt has *)
(* returned, so a board line that is full makes it miss what is typed.     *)
(*                                                                         *)
(* The three commands of the console are in the module Firmware and are    *)
(* not typed here; a restart, which one of them asks for, may come at any  *)
(* time.                                                                   *)
(***************************************************************************)
EXTENDS NjeLine

CONSTANTS Lines, LinesTyped, Length, BufSize, RxRoom,   \* those of SerialConsole
          PacketRoom,                       \* pieces whose Shift JIS fills a packet
          Console,                          \* the writer that is the console's task
          Drawn,                            \* packets of the other writers
          Restarts                          \* bound: restarts

ASSUME ConsoleAssumption ==
    /\ LinesTyped \in Nat
    /\ Length \in [Lines -> Nat \ {0}]
    /\ BufSize \in Nat \ {0} /\ PacketRoom \in Nat \ {0} /\ RxRoom \in Nat \ {0}
    /\ Console \in Writers /\ Drawn \subseteq Packets /\ Restarts \in Nat

VARIABLES typed, coming, rx, service, linebuf, rest, place, fair, spoilt, restarts

SerCon == INSTANCE SerialConsole

\* What the console can cut off is a packet.  It cuts off as much as its own buffer
\* of 1024 bytes holds, not as much as a packet does.
ASSUME CutsAssumption ==
    \A n \in 1 .. BufSize : \A cut \in [1 .. n -> SerCon!Pieces] :
        cut \in Packets /\ (cut \in TooLong <=> n > PacketRoom)

consoleVars == <<typed, coming, rx, service, linebuf, rest, place, fair, spoilt>>
systemVars == <<vars, consoleVars, restarts>>

SystemTypeOK == TypeOK /\ SerCon!ConsoleTypeOK /\ restarts \in 0 .. Restarts

SystemInit == Init /\ SerCon!ConsoleInit /\ restarts = 0

SystemRestart ==
    /\ restarts < Restarts /\ restarts' = restarts + 1
    /\ Restart /\ SerCon!ConsoleRestart

\* sercon_line_callback, for a text that is no command, is send_utf_string: a cut
\* of more than a packet's 128 bytes is sent Overlong, unless the overrun stack
\* makes the firmware restart, which is a SystemRestart.
PassOn ==
    /\ SerCon!Cut
    /\ IF service = "listening" THEN Begin(Console, SerCon!Current) ELSE UNCHANGED vars
    /\ UNCHANGED restarts

LineDone ==
    /\ sending[Console] = NoPacket
    /\ SerCon!CallbackReturns
    /\ UNCHANGED <<vars, restarts>>

ConsoleTask ==
    \/ PassOn \/ LineDone
    \/ (SerCon!Read \/ SerCon!NoMoreLines) /\ UNCHANGED <<vars, restarts>>

Setup == (SerCon!serial_begin \/ SerCon!serial_set_line_callback) /\ UNCHANGED <<vars, restarts>>

World == (SerCon!Receive \/ \E l \in Lines : SerCon!Type(l)) /\ UNCHANGED <<vars, restarts>>

Draw == /\ \E w \in Writers \ {Console}, p \in Drawn : Begin(w, p)
        /\ UNCHANGED <<consoleVars, restarts>>
BoardLine == (Transmit \/ \E w \in Writers : Write(w)) /\ UNCHANGED <<consoleVars, restarts>>

SystemNext == ConsoleTask \/ Setup \/ World \/ Draw \/ BoardLine \/ SystemRestart

\* Every task goes on, and so do the UART and the operator's terminal.  Nothing
\* is assumed of what is typed and drawn.
SystemSpec ==
    /\ SystemInit /\ [][SystemNext]_systemVars
    /\ WF_systemVars(ConsoleTask) /\ WF_systemVars(Setup)
    /\ WF_systemVars(SerCon!Receive /\ UNCHANGED <<vars, restarts>>)
    /\ WF_systemVars(Transmit /\ UNCHANGED <<consoleVars, restarts>>)
    /\ \A w \in Writers : WF_systemVars(Write(w) /\ UNCHANGED <<consoleVars, restarts>>)
-------------------------------------------------------------------------------
\* No two lines are joined before they go to the board: see SerialConsole.
NeverJoins == SerCon!NeverJoins

(***************************************************************************)
(* A line that fits into the buffer of the console and into the 128 bytes  *)
(* of a packet, and that began to arrive when the console had dealt with   *)
(* all before, reaches the board whole, as a line of its own, unless       *)
(* pieces of it were lost (no room, or a restart) or another task was in   *)
(* send_pkt at the same time.                                              *)
(***************************************************************************)
Echoed ==
    \A l \in Lines : Length[l] <= BufSize /\ Length[l] <= PacketRoom =>
        l \in fair ~>
            \/ Line(SerCon!Whole(l)) \in received
            \/ l \in spoilt
            \/ SerCon!Whole(l) \in torn
===============================================================================
