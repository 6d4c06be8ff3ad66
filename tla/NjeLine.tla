-------------------------------- MODULE NjeLine --------------------------------
(***************************************************************************)
(* The serial line to the board (src/nje/hwif.cpp).  send_pkt writes a     *)
(* packet in four calls of uart_write_bytes and takes no lock, and every   *)
(* task that draws, erases or passes a console line on calls it.           *)
(*                                                                         *)
(* The UART driver is external: one call is not mixed with another, waits  *)
(* for room in the transmit buffer, and returns before the bytes have been *)
(* sent.  A restart of the ESP32 empties the buffer.                       *)
(*                                                                         *)
(* A packet is the text send_utf_string is given; what goes out is its     *)
(* Shift JIS.  The conversion fills dest_str, which holds 128 bytes and a  *)
(* null, without looking at its end.  Of a longer text it overruns the     *)
(* stack of the task: send_pkt says so and sends all there is, which is    *)
(* more than the board takes, or the firmware restarts.                    *)
(***************************************************************************)
EXTENDS Naturals, Sequences, FiniteSets

CONSTANTS Writers,      \* the tasks that send
          Packets,      \* the packets they send, each once
          Room,         \* pieces the transmit buffer holds
          TooLong,      \* those whose Shift JIS is more than 128 bytes
          NoPacket

ASSUME LineAssumption ==
    Room \in Nat \ {0} /\ NoPacket \notin Packets /\ TooLong \subseteq Packets

Break == <<"break">>            \* \r\n
Stamp(p) == <<"stamp", p>>      \* the time, eight digits
Overlong == <<"text", NoPacket>>
Text(p) == IF p \in TooLong THEN Overlong ELSE <<"text", p>>    \* in Shift JIS

VARIABLES
    sending,    \* the packet each writer is in send_pkt with
    at,         \* the next of its writes, 1 to 4
    buffer,     \* the driver's transmit buffer
    coming_in,  \* what the board has received since the last break, and the break
    received,   \* the lines it has received that are a packet
    done,       \* packets whose send_pkt has returned (auxiliary)
    torn        \* packets during whose send_pkt another task was in it, too,
                \* or that a restart cut short (auxiliary)

vars == <<sending, at, buffer, coming_in, received, done, torn>>

Pieces == {Break} \cup {Stamp(p) : p \in Packets} \cup {Text(p) : p \in Packets}

Busy == {w \in Writers : sending[w] # NoPacket}
Begun == {sending[w] : w \in Busy} \cup done \cup torn

TypeOK ==
    /\ sending \in [Writers -> Packets \cup {NoPacket}]
    /\ at \in [Writers -> 1 .. 4]
    /\ buffer \in Seq(Pieces) /\ Len(buffer) <= Room
    /\ coming_in \in Seq(Pieces) /\ received \subseteq Seq(Pieces)
    /\ done \subseteq Packets /\ torn \subseteq Packets

Init ==
    /\ sending = [w \in Writers |-> NoPacket]
    /\ at = [w \in Writers |-> 1]
    /\ buffer = <<>> /\ coming_in = <<>> /\ received = {}
    /\ done = {} /\ torn = {}

Begin(w, p) ==
    /\ sending[w] = NoPacket
    /\ p \notin Begun
    /\ sending' = [sending EXCEPT ![w] = p]
    /\ at' = [at EXCEPT ![w] = 1]
    /\ torn' = IF Busy = {} THEN torn
                ELSE torn \cup {p} \cup {sending[v] : v \in Busy}
    /\ UNCHANGED <<buffer, coming_in, received, done>>

\* Mutated form of the writes of a packet: the break before it comes after it.
FormatNoLeadingBreak(p) == <<Stamp(p), Text(p), Break, Break>>

Format(p) == <<Break, Stamp(p), Text(p), Break>>

\* Mutated forms: a write that does not wait for room, or waits for too much.
WriteAtOnce(w) ==
    /\ sending[w] # NoPacket
    /\ buffer' = Append(buffer, Format(sending[w])[at[w]])
    /\ IF at[w] < 4
       THEN at' = [at EXCEPT ![w] = @ + 1] /\ UNCHANGED <<sending, done>>
       ELSE /\ sending' = [sending EXCEPT ![w] = NoPacket]
            /\ done' = done \cup {sending[w]}
            /\ UNCHANGED at
    /\ UNCHANGED <<coming_in, received, torn>>

WriteWhole(w) ==
    /\ sending[w] # NoPacket
    /\ Len(buffer) + 4 <= Room
    /\ buffer' = Append(buffer, Format(sending[w])[at[w]])
    /\ IF at[w] < 4
       THEN at' = [at EXCEPT ![w] = @ + 1] /\ UNCHANGED <<sending, done>>
       ELSE /\ sending' = [sending EXCEPT ![w] = NoPacket]
            /\ done' = done \cup {sending[w]}
            /\ UNCHANGED at
    /\ UNCHANGED <<coming_in, received, torn>>

Write(w) ==
    /\ sending[w] # NoPacket
    /\ Len(buffer) < Room
    /\ buffer' = Append(buffer, Format(sending[w])[at[w]])
    /\ IF at[w] < 4
       THEN at' = [at EXCEPT ![w] = @ + 1] /\ UNCHANGED <<sending, done>>
       ELSE /\ sending' = [sending EXCEPT ![w] = NoPacket]
            /\ done' = done \cup {sending[w]}
            /\ UNCHANGED at
    /\ UNCHANGED <<coming_in, received, torn>>

\* The lines of s: what stands between a break and the next.
LinesOf(s) ==
    LET breaks == {i \in DOMAIN s : s[i] = Break}
        next(i) == CHOOSE j \in breaks : j > i /\ \A k \in breaks : k > i => j <= k
    IN  {SubSeq(s, i + 1, next(i) - 1) : i \in {b \in breaks : \E j \in breaks : j > b}}

Line(p) == <<Stamp(p), Text(p)>>
IsPacket(s) == /\ Len(s) = 2 /\ s[1][1] = "stamp"
               /\ s = Line(s[1][2]) /\ s[2] # Overlong

\* The UART sends.  A break ends one line for the board and begins the next.
Transmit ==
    /\ buffer # <<>>
    /\ received' = received \cup
                    {s \in LinesOf(Append(coming_in, Head(buffer))) : IsPacket(s)}
    /\ coming_in' = IF Head(buffer) = Break THEN <<Break>> ELSE Append(coming_in, Head(buffer))
    /\ buffer' = Tail(buffer)
    /\ UNCHANGED <<sending, at, done, torn>>

\* Whatever has not left the UART by then never will.
Restart ==
    /\ sending' = [w \in Writers |-> NoPacket]
    /\ at' = [w \in Writers |-> 1]
    /\ buffer' = <<>>
    /\ torn' = torn \cup {sending[w] : w \in Busy}
                    \cup {p \in done : Line(p) \notin received}
    /\ UNCHANGED <<coming_in, received, done>>

Next ==
    \/ \E w \in Writers : Write(w) \/ \E p \in Packets : Begin(w, p)
    \/ Transmit \/ Restart

Spec == Init /\ [][Next]_vars

\* The UART goes on sending, and a writer that finds room writes.
FairSpec == Spec /\ WF_vars(Transmit) /\ \A w \in Writers : WF_vars(Write(w))
-------------------------------------------------------------------------------
(***************************************************************************)
(* A packet of at most 128 bytes, during whose sending no other task sent, *)
(* reaches the board as a line of its own, whatever torn packets precede   *)
(* it: those of tasks that sent at the same time, or of a run of the       *)
(* firmware that ended halfway.                                            *)
(***************************************************************************)
UntornArrives ==
    \A p \in done \ (torn \cup TooLong) : Line(p) \in received \cup LinesOf(coming_in \o buffer)

\* send_pkt returns, however small the buffer is.
SendReturns == \A w \in Writers : sending[w] # NoPacket ~> sending[w] = NoPacket
===============================================================================
