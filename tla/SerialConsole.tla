----------------------------- MODULE SerialConsole -----------------------------
(***************************************************************************)
(* The serial console (src/service/sercon.cpp): a task that reads what the *)
(* UART has received into a buffer, cuts it into lines and hands each to a *)
(* callback.  After a newline it starts to write at the beginning of the   *)
(* buffer again, whatever else it has read.                                *)
(*                                                                         *)
(* The operator's terminal and the UART driver are external.  A line is    *)
(* typed once; it consists of pieces <<l, 1>>, ..., <<l, Length[l]>>, the  *)
(* last of which ends in the newline.  What the receive buffer has no room *)
(* for, or arrives while the driver is not installed, is lost.             *)
(***************************************************************************)
EXTENDS Naturals, SequencesExt

CONSTANTS
    Lines,      \* the lines that may be typed
    LinesTyped, \* bound: how many of them are
    Length,     \* how many pieces each has
    BufSize,    \* pieces the line buffer holds (BUF_SIZE)
    RxRoom      \* pieces the driver's receive buffer holds

VARIABLES
    typed,      \* lines typed so far
    coming,     \* what of the line being typed has not been received
    rx,         \* the driver's receive buffer
    service,    \* "off"; "begun", without a callback; "listening"
    linebuf,    \* buffer[0 .. ptr - 1]
    rest,       \* in the loop over lines: what is behind current
    place,      \* where the task is: "read", "lines", or "call", in the callback
    fair,       \* lines that began to arrive when all before had been read (auxiliary)
    spoilt      \* lines of which a piece was lost outside the task (auxiliary)

consoleVars == <<typed, coming, rx, service, linebuf, rest, place, fair, spoilt>>

Pieces == UNION {{<<l, i>> : i \in 1 .. Length[l]} : l \in Lines}
Whole(l) == [i \in 1 .. Length[l] |-> <<l, i>>]
IsNewline(p) == p[2] = Length[p[1]]
HasNewline(s) == \E i \in DOMAIN s : IsNewline(s[i])
LinesIn(s) == {s[i][1] : i \in DOMAIN s}

ConsoleTypeOK ==
    /\ typed \subseteq Lines
    /\ coming \in Seq(Pieces)
    /\ rx \in Seq(Pieces) /\ Len(rx) <= RxRoom
    /\ service \in {"off", "begun", "listening"}
    /\ linebuf \in Seq(Pieces) /\ Len(linebuf) <= BufSize
    /\ rest \in Seq(Pieces)
    /\ place \in {"read", "lines", "call"}
    /\ fair \subseteq typed /\ spoilt \subseteq typed
    \* What is left to cut is in the buffer or behind a line cut already.
    /\ place = "read" => rest = <<>> /\ ~HasNewline(linebuf)

ConsoleInit ==
    /\ typed = {} /\ coming = <<>> /\ rx = <<>>
    /\ service = "off"
    /\ linebuf = <<>> /\ rest = <<>> /\ place = "read"
    /\ fair = {} /\ spoilt = {}
-------------------------------------------------------------------------------
(* The operator and the driver (external). *)

Type(l) ==
    /\ l \notin typed /\ Cardinality(typed) < LinesTyped
    /\ coming = <<>>
    /\ typed' = typed \cup {l}
    /\ coming' = Whole(l)
    /\ UNCHANGED <<rx, service, linebuf, rest, place, fair, spoilt>>

Receive ==
    /\ coming # <<>>
    /\ LET p == Head(coming)
           kept == service # "off" /\ Len(rx) < RxRoom
       IN  /\ rx' = IF kept THEN Append(rx, p) ELSE rx
           /\ spoilt' = IF kept THEN spoilt ELSE spoilt \cup {p[1]}
           /\ fair' = IF p[2] = 1 /\ service = "listening" /\ rx = <<>> /\ linebuf = <<>>
                       THEN fair \cup {p[1]} ELSE fair
    /\ coming' = Tail(coming)
    /\ UNCHANGED <<typed, service, linebuf, rest, place>>
-------------------------------------------------------------------------------
(* setup *)

serial_begin ==
    /\ service = "off"
    /\ service' = "begun"
    /\ UNCHANGED <<typed, coming, rx, linebuf, rest, place, fair, spoilt>>

serial_set_line_callback ==
    /\ service = "begun"
    /\ service' = "listening"
    /\ UNCHANGED <<typed, coming, rx, linebuf, rest, place, fair, spoilt>>
-------------------------------------------------------------------------------
(* sercon_task *)

\* Mutated form: what is read replaces what is in the buffer.
ReadOver ==
    /\ service # "off" /\ place = "read"
    /\ LET n == IF Len(rx) < BufSize THEN Len(rx) ELSE BufSize
       IN  /\ n > 0
           /\ linebuf' = SubSeq(rx, 1, n)
           /\ rx' = SubSeq(rx, n + 1, Len(rx))
    /\ IF HasNewline(linebuf')
       THEN place' = "lines" /\ rest' = linebuf'
       ELSE UNCHANGED <<place, rest>>
    /\ UNCHANGED <<typed, coming, service, fair, spoilt>>

\* As much as there is and the buffer holds; nothing, for ever, once it is full.
Read ==
    /\ service # "off" /\ place = "read"
    /\ LET space == BufSize - Len(linebuf)
           n == IF Len(rx) < space THEN Len(rx) ELSE space
       IN  /\ n > 0
           /\ linebuf' = linebuf \o SubSeq(rx, 1, n)
           /\ rx' = SubSeq(rx, n + 1, Len(rx))
    /\ IF HasNewline(linebuf')
       THEN place' = "lines" /\ rest' = linebuf'
       ELSE UNCHANGED <<place, rest>>
    /\ UNCHANGED <<typed, coming, service, fair, spoilt>>

\* Mutated form: the last newline is looked for.
LastNewline(s) == SelectLastInSeq(s, IsNewline)

\* strchr(s, '\n'); 0 if there is none.
FirstNewline(s) == SelectInSeq(s, IsNewline)

\* The text up to the newline.
Current == SubSeq(rest, 1, FirstNewline(rest))

\* Current goes to the callback, if there is one.
Cut ==
    /\ place = "lines" /\ HasNewline(rest)
    /\ rest' = SubSeq(rest, FirstNewline(rest) + 1, Len(rest))
    /\ linebuf' = <<>>
    /\ IF service = "listening"
       THEN place' = "call"
       ELSE UNCHANGED place
    /\ UNCHANGED <<typed, coming, rx, service, fair, spoilt>>

CallbackReturns ==
    /\ place = "call"
    /\ place' = "lines"
    /\ UNCHANGED <<typed, coming, rx, service, linebuf, rest, fair, spoilt>>

\* What stands behind the last newline is given up: ptr is 0.
NoMoreLines ==
    /\ place = "lines" /\ ~HasNewline(rest)
    /\ place' = "read" /\ rest' = <<>>
    /\ UNCHANGED <<typed, coming, rx, service, linebuf, fair, spoilt>>

\* A restart of the ESP32: the operator's terminal goes on sending.
ConsoleRestart ==
    /\ rx' = <<>> /\ service' = "off"
    /\ linebuf' = <<>> /\ rest' = <<>> /\ place' = "read"
    /\ spoilt' = spoilt \cup LinesIn(rx) \cup LinesIn(linebuf) \cup LinesIn(rest)
    /\ UNCHANGED <<typed, coming, fair>>
-------------------------------------------------------------------------------
(***************************************************************************)
(* What the callback is given is a line or the end of one: the task may    *)
(* lose the beginning of a line that was read with the end of another, but *)
(* never joins two, unless the driver has lost a piece.                    *)
(***************************************************************************)
NeverJoins ==
    place = "lines" /\ HasNewline(rest) =>
        \/ \E l \in Lines : \E i \in 1 .. Length[l] : Current = SubSeq(Whole(l), i, Length[l])
        \/ LinesIn(Current) \cap spoilt # {}
===============================================================================
