-------------------------- MODULE ConsoleToBoardProofs --------------------------
(***************************************************************************)
(* Safety of the line to the board, for any writers, packets and room in   *)
(* the transmit buffer: what one task sends undisturbed arrives as a line. *)
(*                                                                         *)
(* Then of the console and that line together, for any lines, lengths and  *)
(* sizes of the buffers: two lines are joined only if the driver has lost  *)
(* a piece, and what is sent undisturbed arrives.                          *)
(***************************************************************************)
EXTENDS ConsoleToBoard, SequenceTheorems, WellFoundedInduction, TLAPS

\* What has been sent and not yet been taken for a line, in order.
Sent == coming_in \o buffer

\* The four pieces of p stand in s; s ends in the first n pieces of f.
Has(s, p) ==
    \E i \in 1 .. Len(s) - 3 :
        s[i] = Break /\ s[i + 1] = Stamp(p) /\ s[i + 2] = Text(p) /\ s[i + 3] = Break
EndsIn(s, f, n) == n <= Len(s) /\ \A j \in 1 .. n : s[Len(s) - n + j] = f[j]

Types ==
    /\ sending \in [Writers -> Packets \cup {NoPacket}]
    /\ at \in [Writers -> 1 .. 4]
    /\ coming_in \in Seq(Pieces) /\ buffer \in Seq(Pieces)
    /\ done \subseteq Packets

\* The board begins a line at every break.
OneBreak == \A i \in 2 .. Len(coming_in) : coming_in[i] # Break

\* A task that sends undisturbed is alone, and what it has written comes last.
Undisturbed ==
    \A w \in Busy : sending[w] \notin torn =>
        Busy = {w} /\ EndsIn(Sent, Format(sending[w]), at[w] - 1)

\* What it has written completely is under way or has arrived.
Arrives == \A p \in done \ (torn \cup TooLong) : Line(p) \in received \/ Has(Sent, p)

LineInv == Types /\ OneBreak /\ Undisturbed /\ Arrives
-------------------------------------------------------------------------------
(* Pieces and sequences of them. *)

\* A set of positions has a least one.
LEMMA LeastExists ==
    ASSUME NEW S \in SUBSET Nat, S # {}
    PROVE  \E n \in S : \A m \in S : n <= m
  <1> DEFINE Less == OpToRel(<, Nat)
  <1>1. PICK n \in S : \A m \in S : ~(<<m, n>> \in Less)
    BY NatLessThanWellFounded, WFMin
  <1>2. \A m \in S : ~(m < n)
    BY <1>1 DEF OpToRel
  <1> QED
    BY <1>2

\* A break is no other piece, and a time is no text.
LEMMA PiecesDiffer ==
    \A p, q : /\ Stamp(p) # Break /\ Text(p) # Break /\ Stamp(p) # Text(q)
  <1> SUFFICES ASSUME NEW p, NEW q PROVE Stamp(p) # Break /\ Text(p) # Break /\ Stamp(p) # Text(q)
    OBVIOUS
  <1>1. Stamp(p)[1] = "stamp" /\ Text(p)[1] = "text" /\ Text(q)[1] = "text" /\ Break[1] = "break"
    BY DEF Stamp, Text, Overlong, Break
  <1> QED
    BY <1>1

\* The four writes of a packet.
LEMMA FormatFacts ==
    ASSUME NEW p
    PROVE  /\ Format(p)[1] = Break /\ Format(p)[2] = Stamp(p)
           /\ Format(p)[3] = Text(p) /\ Format(p)[4] = Break
           /\ p \in Packets => \A k \in 1 .. 4 : Format(p)[k] \in Pieces
           /\ \A k \in 2 .. 3 : Format(p)[k] # Break
  <1>1. /\ Format(p)[1] = Break /\ Format(p)[2] = Stamp(p)
        /\ Format(p)[3] = Text(p) /\ Format(p)[4] = Break
    BY DEF Format
  <1>2. \A k \in 1 .. 4 : k \in {1, 2, 3, 4}
    OBVIOUS
  <1>3. \A k \in 2 .. 3 : k \in {2, 3}
    OBVIOUS
  <1>4. p \in Packets => {Break, Stamp(p), Text(p)} \subseteq Pieces
    BY DEF Pieces
  <1> QED
    BY <1>1, <1>2, <1>3, <1>4, PiecesDiffer

\* A packet in s that is not too long is a line of s.
LEMMA PacketIsLine ==
    ASSUME NEW s \in Seq(Pieces), NEW p \in Packets \ TooLong, Has(s, p)
    PROVE  Line(p) \in LinesOf(s) /\ IsPacket(Line(p))
  <1> DEFINE breaks == {i \in DOMAIN s : s[i] = Break}
             next(i) == CHOOSE j \in breaks : j > i /\ \A k \in breaks : k > i => j <= k
  <1>1. Len(s) \in Nat /\ DOMAIN s = 1 .. Len(s)
    OBVIOUS
  <1>2. PICK i \in 1 .. Len(s) - 3 :
           s[i] = Break /\ s[i + 1] = Stamp(p) /\ s[i + 2] = Text(p) /\ s[i + 3] = Break
    BY DEF Has
  <1>3. i \in breaks /\ i + 3 \in breaks /\ i + 1 \notin breaks /\ i + 2 \notin breaks
    BY <1>1, <1>2, PiecesDiffer
  <1>4. \A k \in breaks : k > i => i + 3 <= k
    BY <1>1, <1>2, <1>3
  <1>5. next(i) = i + 3
    BY <1>1, <1>2, <1>3, <1>4
  <1>6. SubSeq(s, i + 1, i + 2) = Line(p)
    <2> DEFINE d == SubSeq(s, i + 1, i + 2)
    <2>1. s[i + 1] \in Pieces /\ s[i + 2] \in Pieces
      BY <1>1, <1>2, ElementOfSeq
    <2>2. d \in Seq(Pieces) /\ Len(d) = 2 /\ d[1] = s[i + 1] /\ d[2] = s[i + 2]
      BY <1>1, <1>2
    <2>3. Line(p) \in Seq(Pieces) /\ Len(Line(p)) = 2
          /\ Line(p)[1] = s[i + 1] /\ Line(p)[2] = s[i + 2]
      BY <1>2, <2>1 DEF Line
    <2> HIDE DEF d
    <2>4. \A k \in 1 .. 2 : d[k] = Line(p)[k]
      <3>1. \A k \in 1 .. 2 : k = 1 \/ k = 2
        OBVIOUS
      <3> QED
        BY <2>2, <2>3, <3>1
    <2>5. d = Line(p)
      BY ONLY <2>2, <2>3, <2>4, SeqEqual
    <2> QED
      BY <2>5 DEF d
  <1>7. SubSeq(s, i + 1, next(i) - 1) = Line(p)
    <2>1. next(i) - 1 = i + 2
      BY <1>1, <1>2, <1>5
    <2> QED
      BY <1>6, <2>1
  <1>8. LinesOf(s) = {SubSeq(s, b + 1, next(b) - 1) : b \in {b \in breaks : \E j \in breaks : j > b}}
    BY DEF LinesOf
  <1>9. i \in {b \in breaks : \E j \in breaks : j > b}
    BY <1>1, <1>2, <1>3
  <1>10. Line(p) \in LinesOf(s)
    BY <1>7, <1>8, <1>9
  <1>11. IsPacket(Line(p))
    <2>1. Text(p) # Overlong
      BY LineAssumption DEF Text, Overlong
    <2>2. Len(Line(p)) = 2 /\ Line(p)[1] = Stamp(p) /\ Line(p)[2] = Text(p)
      BY DEF Line
    <2>3. Stamp(p)[1] = "stamp" /\ Stamp(p)[2] = p
      BY DEF Stamp
    <2> QED
      BY <2>1, <2>2, <2>3 DEF IsPacket
  <1> QED
    BY <1>10, <1>11

\* What is written behind s leaves a packet in it.
LEMMA AppendHas ==
    ASSUME NEW s \in Seq(Pieces), NEW x \in Pieces, NEW p, Has(s, p)
    PROVE  Has(Append(s, x), p)
  <1>1. PICK i \in 1 .. Len(s) - 3 :
           s[i] = Break /\ s[i + 1] = Stamp(p) /\ s[i + 2] = Text(p) /\ s[i + 3] = Break
    BY DEF Has
  <1> DEFINE t == Append(s, x)
  <1>2. Len(s) \in Nat /\ Len(t) = Len(s) + 1 /\ \A k \in 1 .. Len(s) : t[k] = s[k]
    OBVIOUS
  <1> HIDE DEF t
  <1>3. t[i] = s[i] /\ t[i + 1] = s[i + 1] /\ t[i + 2] = s[i + 2] /\ t[i + 3] = s[i + 3]
        /\ i \in 1 .. Len(t) - 3
    BY <1>1, <1>2
  <1>4. Has(t, p)
    BY <1>1, <1>3 DEF Has
  <1> QED
    BY <1>4 DEF t

\* The next piece is written behind those before it.
LEMMA AppendEnds ==
    ASSUME NEW s \in Seq(Pieces), NEW f, NEW k \in 1 .. 4, f[k] \in Pieces, EndsIn(s, f, k - 1)
    PROVE  EndsIn(Append(s, f[k]), f, k)
  <1> DEFINE t == Append(s, f[k])
  <1>1. /\ Len(s) \in Nat /\ Len(t) = Len(s) + 1 /\ t[Len(s) + 1] = f[k]
        /\ \A i \in 1 .. Len(s) : t[i] = s[i]
    OBVIOUS
  <1> HIDE DEF t
  <1>2. k - 1 <= Len(s) /\ \A j \in 1 .. k - 1 : s[Len(s) - (k - 1) + j] = f[j]
    BY DEF EndsIn
  <1>3. k <= Len(t)
    BY <1>1, <1>2
  <1>4. ASSUME NEW j \in 1 .. k PROVE t[Len(t) - k + j] = f[j]
    <2>1. CASE j = k
      BY <1>1, <2>1
    <2>2. CASE j # k
      <3>1. j \in 1 .. k - 1 /\ Len(t) - k + j = Len(s) - (k - 1) + j
            /\ Len(s) - (k - 1) + j \in 1 .. Len(s)
        BY <1>1, <1>2, <2>2
      <3> QED
        BY <1>1, <1>2, <3>1
    <2> QED
      BY <2>1, <2>2
  <1>5. EndsIn(t, f, k)
    BY <1>3, <1>4 DEF EndsIn
  <1> QED
    BY <1>5 DEF t

\* All four pieces of p.
LEMMA EndsHas ==
    ASSUME NEW s \in Seq(Pieces), NEW p, EndsIn(s, Format(p), 4)
    PROVE  Has(s, p)
  <1> DEFINE i == Len(s) - 3
  <1>1. Len(s) \in Nat /\ 4 <= Len(s) /\ \A j \in 1 .. 4 : s[Len(s) - 4 + j] = Format(p)[j]
    BY DEF EndsIn
  <1>2. /\ Len(s) - 4 + 1 = i /\ Len(s) - 4 + 2 = i + 1 /\ Len(s) - 4 + 3 = i + 2
        /\ Len(s) - 4 + 4 = i + 3 /\ i \in 1 .. Len(s) - 3
    BY <1>1
  <1> HIDE DEF i
  <1>3. 1 \in 1 .. 4 /\ 2 \in 1 .. 4 /\ 3 \in 1 .. 4 /\ 4 \in 1 .. 4
    OBVIOUS
  <1>4. s[i] = Break /\ s[i + 1] = Stamp(p) /\ s[i + 2] = Text(p) /\ s[i + 3] = Break
    BY <1>1, <1>2, <1>3, FormatFacts
  <1> QED
    BY <1>2, <1>4 DEF Has
-------------------------------------------------------------------------------
(* Every step keeps it. *)

\* Nothing has been sent.
LEMMA LineStarts == Init => LineInv
  <1> SUFFICES ASSUME Init PROVE LineInv
    OBVIOUS
  <1>1. Types /\ OneBreak
    BY DEF Init, Types, OneBreak
  <1>2. Busy = {} /\ done = {}
    BY DEF Init, Busy
  <1> QED
    BY <1>1, <1>2 DEF LineInv, Undisturbed, Arrives

\* A step that leaves the line alone.
LEMMA LineStutters == LineInv /\ UNCHANGED vars => LineInv'
  BY DEF LineInv, Types, OneBreak, Undisturbed, Arrives, Sent, Busy, vars

\* A task enters send_pkt: alone, or in the middle of others' packets.
LEMMA BeginKeeps ==
    ASSUME LineInv, NEW w \in Writers, NEW p \in Packets, Begin(w, p)
    PROVE  LineInv'
  <1>1. p # NoPacket
    BY LineAssumption
  <1>2. /\ sending[w] = NoPacket /\ sending' = [sending EXCEPT ![w] = p]
        /\ at' = [at EXCEPT ![w] = 1] /\ p \notin done
        /\ UNCHANGED <<buffer, coming_in, received, done>>
    BY DEF Begin, Begun
  <1>3. Types' /\ OneBreak' /\ Sent' = Sent
    BY <1>2 DEF LineInv, Types, OneBreak, Sent
  <1>4. sending'[w] = p /\ at'[w] = 1 /\ Busy' = Busy \cup {w}
        /\ \A v \in Writers : v # w => sending'[v] = sending[v] /\ at'[v] = at[v]
    BY <1>1, <1>2 DEF LineInv, Types, Busy
  <1>5. Len(Sent) \in Nat
    BY DEF Sent, LineInv, Types
  <1>6. CASE Busy = {}
    <2>1. torn' = torn /\ Busy' = {w}
      BY <1>4, <1>6 DEF Begin
    <2>2. EndsIn(Sent, Format(p), 0)
      BY <1>5 DEF EndsIn
    <2>3. Undisturbed'
      BY <1>3, <1>4, <2>1, <2>2 DEF Undisturbed
    <2>4. Arrives'
      BY <1>2, <1>3, <2>1 DEF LineInv, Arrives
    <2> QED
      BY <1>3, <2>3, <2>4 DEF LineInv
  <1>7. CASE Busy # {}
    <2>1. torn' = torn \cup {p} \cup {sending[v] : v \in Busy}
      BY <1>7 DEF Begin
    <2>2. \A v \in Busy' : sending'[v] \in torn'
      BY <1>2, <1>4, <2>1 DEF Busy
    <2>3. Arrives'
      BY <1>2, <1>3, <2>1 DEF LineInv, Arrives
    <2> QED
      BY <1>3, <2>2, <2>3 DEF LineInv, Undisturbed
  <1> QED
    BY <1>6, <1>7

\* A task writes the next piece of its packet.
LEMMA WriteKeeps ==
    ASSUME LineInv, NEW w \in Writers, Write(w)
    PROVE  LineInv'
  <1> DEFINE p == sending[w]
             k == at[w]
             x == Format(sending[w])[at[w]]
  <1>1. /\ p # NoPacket /\ buffer' = Append(buffer, x)
        /\ UNCHANGED <<coming_in, received, torn>>
        /\ \/ k < 4 /\ at' = [at EXCEPT ![w] = @ + 1] /\ UNCHANGED <<sending, done>>
           \/ ~(k < 4) /\ sending' = [sending EXCEPT ![w] = NoPacket]
              /\ done' = done \cup {p} /\ UNCHANGED at
    BY DEF Write
  <1>2. p \in Packets /\ k \in 1 .. 4 /\ w \in Busy
    BY <1>1 DEF LineInv, Types, Busy
  <1>3. x \in Pieces
    BY <1>2, FormatFacts
  <1>4. Sent \in Seq(Pieces) /\ Sent' = Append(Sent, x)
    BY <1>1, <1>3 DEF LineInv, Types, Sent
  <1>5. OneBreak'
    BY <1>1 DEF LineInv, OneBreak
  <1>6. Types'
    <2>1. buffer' \in Seq(Pieces) /\ coming_in' \in Seq(Pieces)
      BY <1>1, <1>3 DEF LineInv, Types
    <2>2. sending' \in [Writers -> Packets \cup {NoPacket}] /\ at' \in [Writers -> 1 .. 4]
      BY <1>1, <1>2 DEF LineInv, Types
    <2>3. done' \subseteq Packets
      BY <1>1, <1>2 DEF LineInv, Types
    <2> QED
      BY <2>1, <2>2, <2>3 DEF Types
  <1>7. p \notin torn => Busy = {w} /\ EndsIn(Sent', Format(p), k)
    <2> SUFFICES ASSUME p \notin torn PROVE Busy = {w} /\ EndsIn(Sent', Format(p), k)
      OBVIOUS
    <2>1. Busy = {w} /\ EndsIn(Sent, Format(p), k - 1)
      BY <1>2 DEF LineInv, Undisturbed
    <2> QED
      BY <1>2, <1>3, <1>4, <2>1, AppendEnds
  <1>8. \A q : Has(Sent, q) => Has(Sent', q)
    BY <1>3, <1>4, AppendHas
  <1>9. \A v \in Busy : v # w => sending[v] \in torn
    BY <1>2 DEF LineInv, Undisturbed
  <1> HIDE DEF x
  <1>10. CASE k < 4
    <2>1. /\ sending' = sending /\ done' = done /\ at'[w] = k + 1 /\ Busy' = Busy
          /\ torn' = torn
      BY <1>1, <1>2, <1>10 DEF LineInv, Types, Busy
    <2>2. Undisturbed'
      <3> SUFFICES ASSUME NEW v \in Busy, sending[v] \notin torn
                   PROVE  Busy = {v} /\ EndsIn(Sent', Format(sending[v]), at'[v] - 1)
        BY <2>1 DEF Undisturbed
      <3>1. v = w
        BY <1>9
      <3>2. at'[w] - 1 = k
        BY <1>2, <2>1
      <3> QED
        BY <1>7, <3>1, <3>2
    <2>3. Arrives'
      BY <1>1, <1>8, <2>1 DEF LineInv, Arrives
    <2> QED
      BY <1>5, <1>6, <2>2, <2>3 DEF LineInv
  <1>11. CASE ~(k < 4)
    <2>1. /\ k = 4 /\ sending' = [sending EXCEPT ![w] = NoPacket] /\ done' = done \cup {p}
          /\ torn' = torn /\ received' = received
      BY <1>1, <1>2, <1>11
    <2>2. \A v \in Busy' : v \in Busy /\ v # w /\ sending'[v] = sending[v]
      BY <2>1 DEF LineInv, Types, Busy
    <2>3. Undisturbed'
      BY <1>9, <2>1, <2>2 DEF Undisturbed
    <2>4. p \notin torn => Has(Sent', p)
      <3>1. Sent' \in Seq(Pieces)
        BY <1>3, <1>4
      <3> QED
        BY <1>7, <2>1, <3>1, EndsHas
    <2>5. Arrives'
      BY <1>8, <2>1, <2>4 DEF LineInv, Arrives
    <2> QED
      BY <1>5, <1>6, <2>3, <2>5 DEF LineInv
  <1> QED
    BY <1>10, <1>11

\* A restart: what has not left the UART is torn.
LEMMA LineRestartKeeps == LineInv /\ Restart => LineInv'
  <1> SUFFICES ASSUME LineInv, Restart PROVE LineInv'
    OBVIOUS
  <1>1. Types' /\ OneBreak'
    BY DEF LineInv, Types, OneBreak, Restart
  <1>2. Busy' = {}
    BY DEF Restart, Busy
  <1>3. \A p \in (done \ (torn \cup TooLong))' : Line(p) \in received'
    BY DEF Restart
  <1> QED
    BY <1>1, <1>2, <1>3 DEF LineInv, Undisturbed, Arrives
\* A position behind the first n of n + m.
LEMMA BehindFacts ==
    \A n, m \in Nat : \A i \in 1 .. n + m - 3 : i > n =>
        \E j \in 1 .. m - 3 :
            /\ i = n + j /\ i + 1 = n + (j + 1) /\ i + 2 = n + (j + 2) /\ i + 3 = n + (j + 3)
            /\ j \in 1 .. m /\ j + 1 \in 1 .. m /\ j + 2 \in 1 .. m /\ j + 3 \in 1 .. m
  <1> SUFFICES ASSUME NEW n \in Nat, NEW m \in Nat, NEW i \in 1 .. n + m - 3, i > n
               PROVE  \E j \in 1 .. m - 3 :
                          /\ i = n + j /\ i + 1 = n + (j + 1) /\ i + 2 = n + (j + 2) /\ i + 3 = n + (j + 3)
                          /\ j \in 1 .. m /\ j + 1 \in 1 .. m /\ j + 2 \in 1 .. m /\ j + 3 \in 1 .. m
    OBVIOUS
  <1>1. i - n \in 1 .. m - 3
    OBVIOUS
  <1> QED
    BY <1>1

(***************************************************************************)
(* The UART sends a break: c is what the board has received since the last *)
(* one, and t is c and what follows, up to the break that is sent now.     *)
(***************************************************************************)
LEMMA BreakFacts ==
    ASSUME NEW c \in Seq(Pieces), NEW r \in Seq(Pieces), NEW s, NEW t, NEW u,
           \A i \in 2 .. Len(c) : c[i] # Break,
           s = c \o u, u = <<Break>> \o r, t = Append(c, Break), NEW p
    PROVE  /\ Has(s, p) => Has(t, p) \/ Has(u, p)
           /\ \A k \in 1 .. 4 : EndsIn(s, Format(p), k - 1) => EndsIn(u, Format(p), k - 1)
  <1>1. /\ Len(c) \in Nat /\ Len(u) \in Nat /\ Len(u) > 0
        /\ Len(s) = Len(c) + Len(u) /\ Len(t) = Len(c) + 1
        /\ u[1] = Break
    BY DEF Pieces
  <1>2. \A i \in 1 .. Len(c) : s[i] = c[i] /\ t[i] = c[i]
    BY DEF Pieces
  <1>3. \A i \in 1 .. Len(u) : s[Len(c) + i] = u[i]
    BY DEF Pieces
  <1>4. t[Len(c) + 1] = Break
    BY DEF Pieces
  <1>5. ASSUME Has(s, p) PROVE Has(t, p) \/ Has(u, p)
    <2>1. PICK i \in 1 .. Len(s) - 3 :
             s[i] = Break /\ s[i + 1] = Stamp(p) /\ s[i + 2] = Text(p) /\ s[i + 3] = Break
      BY <1>5 DEF Has
    <2>2. CASE i > Len(c)
      <3>1. PICK j \in 1 .. Len(u) - 3 :
                /\ i = Len(c) + j /\ i + 1 = Len(c) + (j + 1) /\ i + 2 = Len(c) + (j + 2)
                /\ i + 3 = Len(c) + (j + 3)
                /\ j \in 1 .. Len(u) /\ j + 1 \in 1 .. Len(u) /\ j + 2 \in 1 .. Len(u)
                /\ j + 3 \in 1 .. Len(u)
        <4> DEFINE n == Len(c)
                   m == Len(u)
        <4>1. n \in Nat /\ m \in Nat /\ i \in 1 .. n + m - 3 /\ i > n
          BY <1>1, <2>2
        <4> HIDE DEF n, m
        <4>2. \E j \in 1 .. m - 3 :
                  /\ i = n + j /\ i + 1 = n + (j + 1) /\ i + 2 = n + (j + 2) /\ i + 3 = n + (j + 3)
                  /\ j \in 1 .. m /\ j + 1 \in 1 .. m /\ j + 2 \in 1 .. m /\ j + 3 \in 1 .. m
          BY ONLY <4>1, BehindFacts
        <4> QED
          BY ONLY <4>2 DEF n, m
      <3>2. u[j] = s[i] /\ u[j + 1] = s[i + 1] /\ u[j + 2] = s[i + 2] /\ u[j + 3] = s[i + 3]
        BY <1>3, <3>1
      <3> QED
        BY <2>1, <3>1, <3>2 DEF Has
    <2>3. CASE i <= Len(c)
      <3>1. i = 1
        <4>1. Len(c) \in Nat /\ i \in 1 .. Len(s) - 3
          BY <1>1
        <4>2. i \in 1 .. Len(c)
          BY ONLY <4>1, <2>3
        <4>3. c[i] = Break
          BY ONLY <4>2, <1>2, <2>1
        <4>4. i \notin 2 .. Len(c)
          BY <4>3
        <4> QED
          BY ONLY <4>1, <4>2, <4>4
      <3>2. Len(c) <= 3
        <4> SUFFICES ASSUME Len(c) >= 4 PROVE FALSE
          BY <1>1
        <4>1. 4 \in 2 .. Len(c) /\ 4 \in 1 .. Len(c) /\ i + 3 = 4
          BY <1>1, <3>1
        <4> QED
          BY <1>2, <2>1, <4>1
      <3>3. Len(c) # 1 /\ Len(c) # 2
        <4>1. s[Len(c) + 1] = Break
          BY <1>1, <1>3
        <4>2. s[2] # Break /\ s[3] # Break
          <5>1. i + 1 = 2 /\ i + 2 = 3
            BY <3>1
          <5> QED
            BY <2>1, <5>1, PiecesDiffer
        <4>3. Len(c) = 1 => Len(c) + 1 = 2
          OBVIOUS
        <4>4. Len(c) = 2 => Len(c) + 1 = 3
          OBVIOUS
        <4> QED
          BY ONLY <4>1, <4>2, <4>3, <4>4
      <3>4. Len(c) = 3
        <4>1. Len(c) \in Nat /\ Len(c) >= 1
          BY <1>1, <2>3, <3>1
        <4>2. \A n \in Nat : n >= 1 /\ n <= 3 /\ n # 1 /\ n # 2 => n = 3
          OBVIOUS
        <4> QED
          BY <3>2, <3>3, <4>1, <4>2
      <3>5. t[1] = s[1] /\ t[2] = s[2] /\ t[3] = s[3] /\ t[4] = Break /\ 1 \in 1 .. Len(t) - 3
        BY <1>1, <1>2, <1>4, <3>4
      <3>6. t[1] = Break /\ t[1 + 1] = Stamp(p) /\ t[1 + 2] = Text(p) /\ t[1 + 3] = Break
        BY <2>1, <3>1, <3>5
      <3> QED
        BY <3>5, <3>6 DEF Has
    <2> QED
      BY <1>1, <2>1, <2>2, <2>3
  <1>6. ASSUME NEW k \in 1 .. 4, EndsIn(s, Format(p), k - 1) PROVE EndsIn(u, Format(p), k - 1)
    <2> DEFINE n == k - 1
    <2>0. k - 1 \in 0 .. 3
      OBVIOUS
    <2>1. n \in 0 .. 3 /\ n <= Len(s) /\ \A j \in 1 .. n : s[Len(s) - n + j] = Format(p)[j]
      BY ONLY <1>6, <2>0 DEF EndsIn
    <2> HIDE DEF n
    <2>2. n <= Len(u)
      <3> SUFFICES ASSUME n > Len(u) PROVE FALSE
        BY <1>1, <2>1
      <3> DEFINE j == n - Len(u) + 1
      <3>1. j \in 2 .. 3 /\ j \in 1 .. n /\ Len(s) - n + j = Len(c) + 1
        BY <1>1, <2>1
      <3> HIDE DEF j
      <3>2. s[Len(c) + 1] = Break
        BY <1>1, <1>3
      <3>3. s[Len(s) - n + j] = Format(p)[j] /\ Format(p)[j] # Break
        BY <2>1, <3>1, FormatFacts
      <3> QED
        BY ONLY <3>1, <3>2, <3>3
    <2>3. ASSUME NEW j \in 1 .. n PROVE u[Len(u) - n + j] = Format(p)[j]
      <3>1. Len(s) - n + j = Len(c) + (Len(u) - n + j) /\ Len(u) - n + j \in 1 .. Len(u)
        BY <1>1, <2>1, <2>2
      <3>2. s[Len(s) - n + j] = u[Len(u) - n + j]
        BY <1>3, <3>1
      <3> QED
        BY <2>1, <3>2
    <2>4. EndsIn(u, Format(p), n)
      BY <2>2, <2>3 DEF EndsIn
    <2> QED
      BY <2>4 DEF n
  <1> QED
    BY <1>5, <1>6

\* The UART sends a piece.
LEMMA TransmitKeeps == LineInv /\ Transmit => LineInv'
  <1> SUFFICES ASSUME LineInv, Transmit PROVE LineInv'
    OBVIOUS
  <1> DEFINE h == Head(buffer)
             r == Tail(buffer)
             t == Append(coming_in, h)
             u == <<h>> \o r
  <1>1. /\ buffer # <<>> /\ buffer' = r /\ UNCHANGED <<sending, at, done, torn>>
        /\ received' = received \cup {l \in LinesOf(t) : IsPacket(l)}
        /\ coming_in' = IF h = Break THEN <<Break>> ELSE t
    BY DEF Transmit
  <1>2. coming_in \in Seq(Pieces) /\ buffer \in Seq(Pieces)
    BY DEF LineInv, Types
  <1>3. h \in Pieces /\ r \in Seq(Pieces) /\ t \in Seq(Pieces) /\ u \in Seq(Pieces) /\ buffer = u
    BY <1>1, <1>2
  <1>4. Busy' = Busy
    BY <1>1 DEF Busy
  <1>5. Sent = coming_in \o u /\ Sent' = coming_in' \o r
    BY <1>1, <1>3 DEF Sent
  <1> HIDE DEF h, r
  <1>6. CASE h # Break
    <2>1. coming_in' = t /\ t = coming_in \o <<h>>
      BY <1>1, <1>2, <1>3, <1>6, AppendIsConcat
    <2>2. Sent' = Sent
      <3>1. <<h>> \in Seq(Pieces)
        BY <1>3
      <3>2. (coming_in \o <<h>>) \o r = coming_in \o (<<h>> \o r)
        BY ONLY <1>2, <1>3, <3>1, ConcatAssociative
      <3> QED
        BY <1>5, <2>1, <3>2
    <2>3. Types'
      BY <1>1, <1>3, <2>1 DEF LineInv, Types
    <2>4. OneBreak'
      <3>1. Len(coming_in) \in Nat /\ Len(t) = Len(coming_in) + 1
            /\ t[Len(coming_in) + 1] = h /\ \A i \in 1 .. Len(coming_in) : t[i] = coming_in[i]
        BY <1>2, <1>3
      <3> SUFFICES ASSUME NEW i \in 2 .. Len(t) PROVE t[i] # Break
        BY <2>1 DEF OneBreak
      <3> HIDE DEF t
      <3>2. CASE i = Len(coming_in) + 1
        BY <1>6, <3>1, <3>2
      <3>3. CASE i # Len(coming_in) + 1
        <4>1. i \in 2 .. Len(coming_in) /\ i \in 1 .. Len(coming_in)
          BY <3>1, <3>3
        <4> QED
          BY <3>1, <4>1 DEF LineInv, OneBreak
      <3> QED
        BY <3>2, <3>3
    <2>5. Undisturbed' /\ Arrives'
      BY <1>1, <1>4, <2>2 DEF LineInv, Undisturbed, Arrives
    <2> QED
      BY <2>3, <2>4, <2>5 DEF LineInv
  <1>7. CASE h = Break
    <2>1. coming_in' = <<Break>> /\ u = <<Break>> \o r /\ Sent' = u /\ t = Append(coming_in, Break)
      BY <1>1, <1>5, <1>7
    <2>2. \A i \in 2 .. Len(coming_in) : coming_in[i] # Break
      BY DEF LineInv, OneBreak
    <2> HIDE DEF t, u
    <2>3. \A p : /\ Has(Sent, p) => Has(t, p) \/ Has(Sent', p)
                 /\ \A k \in 1 .. 4 : EndsIn(Sent, Format(p), k - 1) => EndsIn(Sent', Format(p), k - 1)
      BY <1>2, <1>3, <1>5, <2>1, <2>2, BreakFacts
    <2>4. Types' /\ OneBreak'
      <3>1. <<Break>> \in Seq(Pieces) /\ Len(<<Break>>) = 1
        BY DEF Pieces
      <3> QED
        BY <1>1, <1>3, <2>1, <3>1 DEF LineInv, Types, OneBreak
    <2>5. Undisturbed'
      <3>1. \A w \in Busy : at[w] \in 1 .. 4
        BY DEF LineInv, Types, Busy
      <3> QED
        BY <1>1, <1>4, <2>3, <3>1 DEF LineInv, Undisturbed
    <2>6. Arrives'
      <3> SUFFICES ASSUME NEW p \in done \ (torn \cup TooLong), Line(p) \notin received'
                   PROVE  Has(Sent', p)
        BY <1>1 DEF Arrives
      <3>1. Has(Sent, p)
        BY <1>1 DEF LineInv, Arrives
      <3>2. ~Has(t, p)
        <4>1. p \in Packets \ TooLong
          BY DEF LineInv, Types
        <4> QED
          BY <1>1, <1>3, <4>1, PacketIsLine
      <3> QED
        BY <2>3, <3>1, <3>2
    <2> QED
      BY <2>4, <2>5, <2>6 DEF LineInv
  <1> QED
    BY <1>6, <1>7

\* It says what is to be shown.
LEMMA LineInvImplies == LineInv => UntornArrives
  <1> SUFFICES ASSUME LineInv, NEW p \in done \ (torn \cup TooLong), Line(p) \notin received
               PROVE  Line(p) \in LinesOf(Sent)
    BY DEF UntornArrives, Sent
  <1>1. Has(Sent, p)
    BY DEF LineInv, Arrives
  <1>2. Sent \in Seq(Pieces) /\ p \in Packets \ TooLong
    BY DEF LineInv, Types, Sent
  <1> QED
    BY <1>1, <1>2, PacketIsLine

\* Every step of the line keeps it.
LEMMA LineStep == LineInv /\ [Next]_vars => LineInv'
  <1> SUFFICES ASSUME LineInv, [Next]_vars PROVE LineInv'
    OBVIOUS
  <1>1. ASSUME NEW w \in Writers, Write(w) PROVE LineInv'
    BY <1>1, WriteKeeps
  <1>2. ASSUME NEW w \in Writers, NEW p \in Packets, Begin(w, p) PROVE LineInv'
    BY <1>2, BeginKeeps
  <1> QED
    BY <1>1, <1>2, TransmitKeeps, LineRestartKeeps, LineStutters DEF Next

(***************************************************************************)
(* The line by itself, with tasks that send any packets at any time and    *)
(* any number of restarts.                                                 *)
(***************************************************************************)
THEOREM UntornArrivesAlone == Spec => []UntornArrives
  BY LineStarts, LineStep, LineInvImplies, PTL DEF Spec
-------------------------------------------------------------------------------
(* The types. *)

\* A line of s is a part of it.
LEMMA LinesAreSeqs ==
    ASSUME NEW s \in Seq(Pieces)
    PROVE  LinesOf(s) \subseteq Seq(Pieces)
  <1> DEFINE breaks == {i \in DOMAIN s : s[i] = Break}
             next(i) == CHOOSE j \in breaks : j > i /\ \A k \in breaks : k > i => j <= k
  <1>1. Len(s) \in Nat /\ DOMAIN s = 1 .. Len(s)
    OBVIOUS
  <1>2. ASSUME NEW i \in breaks, NEW j \in breaks, j > i
        PROVE  SubSeq(s, i + 1, next(i) - 1) \in Seq(Pieces)
    <2> DEFINE Later == {k \in breaks : k > i}
    <2>1. Later \in SUBSET Nat /\ Later # {}
      BY <1>1, <1>2
    <2>2. PICK n \in Later : \A m \in Later : n <= m
      BY <2>1, LeastExists
    <2>3. next(i) \in breaks
      BY <2>2
    <2> DEFINE m == next(i)
    <2>4. m \in 1 .. Len(s) /\ i \in 1 .. Len(s)
      BY <1>1, <2>3
    <2> HIDE DEF m
    <2>5. \A k \in i + 1 .. m - 1 : k \in 1 .. Len(s)
      BY <1>1, <2>4
    <2>6. \A k \in i + 1 .. m - 1 : s[k] \in Pieces
      BY <2>5, ElementOfSeq
    <2>7. i + 1 \in Int /\ m - 1 \in Int
      BY <1>1, <2>4
    <2>8. SubSeq(s, i + 1, m - 1) \in Seq(Pieces)
      BY <2>6, <2>7, SubSeqProperties
    <2> QED
      BY <2>8 DEF m
  <1> QED
    BY <1>2 DEF LinesOf

\* Every step keeps the types.
LEMMA TypeOKStep == TypeOK /\ [Next]_vars => TypeOK'
  <1> SUFFICES ASSUME TypeOK, [Next]_vars PROVE TypeOK'
    OBVIOUS
  <1>1. /\ sending \in [Writers -> Packets \cup {NoPacket}] /\ at \in [Writers -> 1 .. 4]
        /\ buffer \in Seq(Pieces) /\ Len(buffer) <= Room /\ Len(buffer) \in Nat /\ Room \in Nat
        /\ coming_in \in Seq(Pieces) /\ received \subseteq Seq(Pieces)
        /\ done \subseteq Packets /\ torn \subseteq Packets
        /\ {sending[w] : w \in Busy} \subseteq Packets
    BY LineAssumption DEF TypeOK, Busy
  <1>2. ASSUME NEW w \in Writers, Write(w) PROVE TypeOK'
    <2> DEFINE x == Format(sending[w])[at[w]]
    <2>1. /\ sending[w] # NoPacket /\ Len(buffer) < Room /\ buffer' = Append(buffer, x)
          /\ UNCHANGED <<coming_in, received, torn>>
          /\ \/ at[w] < 4 /\ at' = [at EXCEPT ![w] = @ + 1] /\ UNCHANGED <<sending, done>>
             \/ /\ sending' = [sending EXCEPT ![w] = NoPacket]
                /\ done' = done \cup {sending[w]} /\ UNCHANGED at
      BY <1>2 DEF Write
    <2>2. sending[w] \in Packets /\ at[w] \in 1 .. 4
      BY <1>1, <2>1
    <2>3. x \in Pieces
      BY <2>2, FormatFacts
    <2> HIDE DEF x
    <2>4. buffer' \in Seq(Pieces) /\ Len(buffer') <= Room
      BY <1>1, <2>1, <2>3
    <2>5. sending' \in [Writers -> Packets \cup {NoPacket}] /\ at' \in [Writers -> 1 .. 4]
          /\ done' \subseteq Packets
      BY <1>1, <2>1, <2>2
    <2> QED
      BY <1>1, <2>1, <2>4, <2>5 DEF TypeOK
  <1>3. ASSUME NEW w \in Writers, NEW p \in Packets, Begin(w, p) PROVE TypeOK'
    BY <1>1, <1>3 DEF Begin, TypeOK
  <1>4. CASE Transmit
    <2> DEFINE h == Head(buffer)
               t == Append(coming_in, h)
    <2>1. /\ buffer # <<>> /\ buffer' = Tail(buffer) /\ UNCHANGED <<sending, at, done, torn>>
          /\ received' = received \cup {l \in LinesOf(t) : IsPacket(l)}
          /\ coming_in' = IF h = Break THEN <<Break>> ELSE t
      BY <1>4 DEF Transmit
    <2>2. h \in Pieces /\ t \in Seq(Pieces) /\ <<Break>> \in Seq(Pieces)
      BY <1>1, <2>1 DEF Pieces
    <2>3. buffer' \in Seq(Pieces) /\ Len(buffer') <= Room
      BY <1>1, <2>1
    <2> HIDE DEF h, t
    <2>4. received' \subseteq Seq(Pieces)
      BY <1>1, <2>1, <2>2, LinesAreSeqs
    <2> QED
      BY <1>1, <2>1, <2>2, <2>3, <2>4 DEF TypeOK
  <1>5. CASE Restart
    BY <1>1, <1>5 DEF Restart, TypeOK
  <1>6. CASE UNCHANGED vars
    BY <1>6 DEF vars, TypeOK
  <1> QED
    BY <1>2, <1>3, <1>4, <1>5, <1>6 DEF Next

\* The types of the line by itself.
THEOREM LineTypeCorrect == Spec => []TypeOK
  <1>1. Init => TypeOK
    BY LineAssumption DEF Init, TypeOK
  <1> QED
    BY <1>1, TypeOKStep, PTL DEF Spec
-------------------------------------------------------------------------------
(***************************************************************************)
(* The console and the line.                                               *)
(***************************************************************************)
Piece == SerCon!Pieces

(***************************************************************************)
(* Pieces p and q may stand side by side if p ends its line, if q goes on  *)
(* with it, or if the driver has lost pieces of the line of p; the last    *)
(* piece ends its line, or has lost what would follow.                     *)
(***************************************************************************)
Ends(p, sp) == SerCon!IsNewline(p) \/ p[1] \in sp
Follows(p, q, sp) == Ends(p, sp) \/ (q[1] = p[1] /\ q[2] = p[2] + 1)
Chained(s, sp) == \A i \in 1 .. Len(s) - 1 : Follows(s[i], s[i + 1], sp)
Linked(s, sp) == Chained(s, sp) /\ (s # <<>> => Ends(s[Len(s)], sp))

\* What the console has yet to cut, the driver to deliver, and the line to bring.
Stream == (IF place = "read" THEN linebuf ELSE rest) \o (rx \o coming)

Streams == /\ linebuf \in Seq(Piece) /\ rest \in Seq(Piece)
              /\ rx \in Seq(Piece) /\ coming \in Seq(Piece)

Buffered ==
    /\ place \in {"read", "lines", "call"}
    /\ place = "lines" => linebuf = <<>> \/ (linebuf = rest /\ SerCon!HasNewline(rest))
    /\ place = "call" => linebuf = <<>>

ConsoleInv == Streams /\ Buffered /\ Linked(Stream, spoilt)
-------------------------------------------------------------------------------
(* Sequences of pieces. *)

\* What stands behind the beginning of a linked sequence is linked.
LEMMA SuffixLinked ==
    ASSUME NEW a \in Seq(Piece), NEW b \in Seq(Piece), NEW sp, Linked(a \o b, sp)
    PROVE  Linked(b, sp)
  <1> DEFINE s == a \o b
  <1>1. /\ Len(a) \in Nat /\ Len(b) \in Nat /\ Len(s) = Len(a) + Len(b)
        /\ \A i \in 1 .. Len(b) : s[Len(a) + i] = b[i]
    OBVIOUS
  <1>2. Linked(s, sp)
    OBVIOUS
  <1>3. b # <<>> => s # <<>> /\ Len(b) \in 1 .. Len(b)
    OBVIOUS
  <1> HIDE DEF s
  <1>4. Chained(b, sp)
    <2> SUFFICES ASSUME NEW i \in 1 .. Len(b) - 1 PROVE Follows(b[i], b[i + 1], sp)
      BY DEF Chained
    <2>1. Len(a) + i \in 1 .. Len(s) - 1 /\ i \in 1 .. Len(b) /\ i + 1 \in 1 .. Len(b)
          /\ Len(a) + i + 1 = Len(a) + (i + 1)
      BY <1>1
    <2>2. s[Len(a) + i] = b[i] /\ s[Len(a) + i + 1] = b[i + 1]
      BY <1>1, <2>1
    <2> QED
      BY <1>2, <2>1, <2>2 DEF Linked, Chained
  <1>5. ASSUME b # <<>> PROVE Ends(b[Len(b)], sp)
    <2>1. s[Len(s)] = b[Len(b)]
      BY <1>1, <1>3, <1>5
    <2> QED
      BY <1>2, <1>3, <1>5, <2>1 DEF Linked
  <1> QED
    BY <1>4, <1>5 DEF Linked

\* The beginning of a linked sequence.
LEMMA PrefixChained ==
    ASSUME NEW a \in Seq(Piece), NEW b \in Seq(Piece), NEW sp, Linked(a \o b, sp)
    PROVE  Chained(a, sp)
  <1> DEFINE s == a \o b
  <1>1. /\ Len(a) \in Nat /\ Len(b) \in Nat /\ Len(s) = Len(a) + Len(b)
        /\ \A i \in 1 .. Len(a) : s[i] = a[i]
    OBVIOUS
  <1>2. Linked(s, sp)
    OBVIOUS
  <1> HIDE DEF s
  <1> SUFFICES ASSUME NEW i \in 1 .. Len(a) - 1 PROVE Follows(a[i], a[i + 1], sp)
    BY DEF Chained
  <1>3. s[i] = a[i] /\ s[i + 1] = a[i + 1] /\ i \in 1 .. Len(s) - 1
    BY <1>1
  <1> QED
    BY <1>2, <1>3 DEF Linked, Chained

\* One linked sequence behind another.
LEMMA JoinLinked ==
    ASSUME NEW a \in Seq(Piece), NEW b \in Seq(Piece), NEW sp, Linked(a, sp), Linked(b, sp)
    PROVE  Linked(a \o b, sp)
  <1> DEFINE s == a \o b
  <1>1. /\ Len(a) \in Nat /\ Len(b) \in Nat /\ Len(s) = Len(a) + Len(b)
        /\ \A i \in 1 .. Len(a) : s[i] = a[i]
        /\ \A i \in 1 .. Len(b) : s[Len(a) + i] = b[i]
        /\ (a = <<>> <=> Len(a) = 0) /\ (b = <<>> <=> Len(b) = 0) /\ (s = <<>> <=> Len(s) = 0)
    OBVIOUS
  <1> HIDE DEF s
  <1>2. Chained(s, sp)
    <2> SUFFICES ASSUME NEW i \in 1 .. Len(s) - 1 PROVE Follows(s[i], s[i + 1], sp)
      BY DEF Chained
    <2>1. CASE i < Len(a)
      <3>1. s[i] = a[i] /\ s[i + 1] = a[i + 1] /\ i \in 1 .. Len(a) - 1
        BY <1>1, <2>1
      <3> QED
        BY <3>1 DEF Linked, Chained
    <2>2. CASE i = Len(a)
      <3>1. s[i] = a[Len(a)] /\ a # <<>>
        BY <1>1, <2>2
      <3> QED
        BY <3>1 DEF Linked, Follows
    <2>3. CASE i > Len(a)
      <3> DEFINE j == i - Len(a)
      <3>1. /\ j \in 1 .. Len(b) - 1 /\ j \in 1 .. Len(b) /\ j + 1 \in 1 .. Len(b)
            /\ i = Len(a) + j /\ i + 1 = Len(a) + (j + 1)
        BY <1>1, <2>3
      <3> HIDE DEF j
      <3>2. s[i] = b[j] /\ s[i + 1] = b[j + 1]
        BY <1>1, <3>1
      <3> QED
        BY <3>1, <3>2 DEF Linked, Chained
    <2> QED
      BY <1>1, <2>1, <2>2, <2>3
  <1>3. ASSUME s # <<>> PROVE Ends(s[Len(s)], sp)
    <2>1. CASE b # <<>>
      BY <1>1, <2>1 DEF Linked
    <2>2. CASE b = <<>>
      BY <1>1, <1>3, <2>2 DEF Linked
    <2> QED
      BY <2>1, <2>2
  <1>4. Linked(s, sp)
    BY <1>2, <1>3 DEF Linked
  <1> QED
    BY <1>4 DEF s

\* A loss more does no harm.
LEMMA MoreSpoilt ==
    ASSUME NEW s, NEW sp, NEW more, Linked(s, sp)
    PROVE  Linked(s, sp \cup more)
  BY DEF Linked, Chained, Follows, Ends

\* A piece is lost from the middle, or from the end.
LEMMA LoseOne ==
    ASSUME NEW a \in Seq(Piece), NEW p \in Piece, NEW b \in Seq(Piece), NEW sp,
           Linked(a \o (<<p>> \o b), sp)
    PROVE  Linked(a \o b, sp \cup {p[1]})
  <1> DEFINE sp2 == sp \cup {p[1]}
             s == a \o (<<p>> \o b)
  <1>1. <<p>> \o b \in Seq(Piece) /\ <<p>> \in Seq(Piece)
    OBVIOUS
  <1>2. Linked(b, sp2)
    BY <1>1, SuffixLinked, MoreSpoilt
  <1>3. Linked(a, sp2)
    <2>1. /\ Len(a) \in Nat /\ Len(b) \in Nat /\ Len(s) = Len(a) + 1 + Len(b)
          /\ \A i \in 1 .. Len(a) : s[i] = a[i]
          /\ s[Len(a) + 1] = p /\ (a = <<>> <=> Len(a) = 0)
      OBVIOUS
    <2>2. Linked(s, sp)
      OBVIOUS
    <2> HIDE DEF s
    <2>3. Chained(a, sp2)
      <3> SUFFICES ASSUME NEW i \in 1 .. Len(a) - 1 PROVE Follows(a[i], a[i + 1], sp2)
        BY DEF Chained
      <3>1. s[i] = a[i] /\ s[i + 1] = a[i + 1] /\ i \in 1 .. Len(s) - 1
        BY <2>1
      <3> QED
        BY <2>2, <3>1 DEF Linked, Chained, Follows, Ends
    <2>4. ASSUME a # <<>> PROVE Ends(a[Len(a)], sp2)
      <3>1. s[Len(a)] = a[Len(a)] /\ s[Len(a) + 1] = p /\ Len(a) \in 1 .. Len(s) - 1
        BY <2>1, <2>4
      <3>2. Follows(a[Len(a)], p, sp)
        BY <2>2, <3>1 DEF Linked, Chained
      <3> QED
        BY <3>2 DEF Follows, Ends
    <2> QED
      BY <2>3, <2>4 DEF Linked
  <1> HIDE DEF sp2
  <1>4. Linked(a \o b, sp2)
    BY <1>2, <1>3, JoinLinked
  <1> QED
    BY <1>4 DEF sp2

\* A line as it is typed.
LEMMA WholeLinked ==
    ASSUME NEW l \in Lines, NEW sp
    PROVE  SerCon!Whole(l) \in Seq(Piece) /\ Linked(SerCon!Whole(l), sp)
  <1> DEFINE n == Length[l]
             s == SerCon!Whole(l)
  <1>1. n \in Nat /\ n > 0
    BY ConsoleAssumption
  <1>2. s = [i \in 1 .. n |-> <<l, i>>]
    BY DEF SerCon!Whole
  <1>3. \A i \in 1 .. n : <<l, i>> \in Piece
    BY DEF Piece, SerCon!Pieces
  <1>4. s \in Seq(Piece) /\ Len(s) = n
    BY <1>1, <1>2, <1>3
  <1>5. Chained(s, sp)
    <2> SUFFICES ASSUME NEW i \in 1 .. n - 1 PROVE Follows(s[i], s[i + 1], sp)
      BY <1>4 DEF Chained
    <2>1. s[i] = <<l, i>> /\ s[i + 1] = <<l, i + 1>>
      BY <1>1, <1>2
    <2> QED
      BY <2>1 DEF Follows
  <1>6. Ends(s[n], sp)
    <2>1. s[n] = <<l, n>>
      BY <1>1, <1>2
    <2> QED
      BY <2>1 DEF Ends, SerCon!IsNewline
  <1> QED
    BY <1>4, <1>5, <1>6 DEF Linked
-------------------------------------------------------------------------------
(* The first newline of a sequence of pieces. *)

\* strchr finds the first one.
LEMMA FirstNewlineFacts ==
    ASSUME NEW s \in Seq(Piece), SerCon!HasNewline(s)
    PROVE  /\ SerCon!FirstNewline(s) \in 1 .. Len(s)
           /\ SerCon!IsNewline(s[SerCon!FirstNewline(s)])
           /\ \A i \in 1 .. SerCon!FirstNewline(s) - 1 : ~SerCon!IsNewline(s[i])
  <1> DEFINE I == {i \in 1 .. Len(s) : SerCon!IsNewline(s[i])}
             k == SerCon!FirstNewline(s)
  <1>1. I \subseteq Nat /\ I # {}
    BY DEF SerCon!HasNewline
  <1>2. PICK n \in I : \A m \in I : n <= m
    BY <1>1, LeastExists
  <1>3. k = SerCon!Min(I)
    BY <1>1 DEF SerCon!FirstNewline, SerCon!SelectInSeq
  <1>4. k \in I /\ \A m \in I : k <= m
    BY <1>2, <1>3 DEF SerCon!Min
  <1> QED
    BY <1>4

(***************************************************************************)
(* What lies up to the first newline of a linked sequence is a line or the *)
(* end of one, or the driver has lost a piece of it.                       *)
(***************************************************************************)
LEMMA CutIsLine ==
    ASSUME NEW s \in Seq(Piece), SerCon!HasNewline(s), NEW sp, Chained(s, sp),
           NEW c, c = SubSeq(s, 1, SerCon!FirstNewline(s)), SerCon!LinesIn(c) \cap sp = {}
    PROVE  \E l \in Lines : \E i \in 1 .. Length[l] : c = SubSeq(SerCon!Whole(l), i, Length[l])
  <1> DEFINE k == SerCon!FirstNewline(s)
             l == s[1][1]
             f == s[1][2]
  <1>1. /\ k \in 1 .. Len(s) /\ SerCon!IsNewline(s[k])
        /\ \A i \in 1 .. k - 1 : ~SerCon!IsNewline(s[i])
    BY FirstNewlineFacts
  <1>2. /\ Len(s) \in Nat /\ Len(c) = k /\ DOMAIN c = 1 .. k
        /\ \A i \in 1 .. k : c[i] = s[i] /\ s[i] \in Piece
    BY <1>1
  <1> HIDE DEF k
  <1>3. l \in Lines /\ f \in 1 .. Length[l] /\ Length[l] \in Nat /\ s[1] = <<l, f>>
    <2>1. s[1] \in Piece
      BY <1>1, <1>2
    <2>2. PICK ll \in Lines : \E i \in 1 .. Length[ll] : s[1] = <<ll, i>>
      BY <2>1 DEF Piece, SerCon!Pieces
    <2> QED
      BY <2>2, ConsoleAssumption
  <1> HIDE DEF l, f
  <1>4. \A i \in 1 .. k : s[i] = <<l, f + i - 1>>
    <2> DEFINE Bad == {i \in 1 .. k : s[i] # <<l, f + i - 1>>}
    <2> SUFFICES ASSUME Bad # {} PROVE FALSE
      OBVIOUS
    <2>1. PICK n \in Bad : \A m \in Bad : n <= m
      <3>1. Bad \subseteq Nat
        BY <1>1
      <3> QED
        BY <3>1, LeastExists
    <2>2. s[1] = <<l, f>> /\ f + 1 - 1 = f
      BY <1>3
    <2>3. n - 1 \in 1 .. k - 1 /\ n - 1 \notin Bad /\ n \in 1 .. k
      BY <1>1, <2>1, <2>2
    <2>4. s[n - 1] = <<l, f + (n - 1) - 1>>
      BY <1>1, <2>3
    <2>5. Follows(s[n - 1], s[n], sp)
      BY <1>1, <1>2, <2>3 DEF Chained
    <2>6. ~SerCon!IsNewline(s[n - 1])
      BY <1>1, <2>3
    <2>7. s[n - 1][1] \in SerCon!LinesIn(c)
      <3>1. n - 1 \in 1 .. k
        BY <1>1, <1>2, <2>3
      <3>2. n - 1 \in DOMAIN c /\ c[n - 1] = s[n - 1]
        BY <1>2, <3>1
      <3> QED
        BY <3>2 DEF SerCon!LinesIn
    <2>8. s[n][1] = l /\ s[n][2] = f + n - 1
      BY <1>1, <1>3, <2>3, <2>4, <2>5, <2>6, <2>7 DEF Follows, Ends
    <2>9. s[n] \in Piece
      BY <1>2, <2>3
    <2> QED
      BY <2>1, <2>8, <2>9 DEF Piece, SerCon!Pieces
  <1>5. f + k - 1 = Length[l]
    BY <1>1, <1>4 DEF SerCon!IsNewline
  <1>6. c = SubSeq(SerCon!Whole(l), f, Length[l])
    <2> DEFINE w == SerCon!Whole(l)
               d == SubSeq(w, f, Length[l])
    <2>1. w \in Seq(Piece) /\ w = [i \in 1 .. Length[l] |-> <<l, i>>]
      BY <1>3, WholeLinked DEF SerCon!Whole
    <2> HIDE DEF w
    <2>5. Len(w) = Length[l]
      BY <1>3, <2>1
    <2>6. d \in Seq(Piece) /\ Len(d) = k /\ \A i \in 1 .. k : d[i] = w[f + i - 1]
      <3>1. f \in 1 .. Len(w) /\ Length[l] \in f .. Len(w) /\ Length[l] - f + 1 = k
        BY <1>1, <1>2, <1>3, <1>5, <2>5
      <3>2. f \in Int /\ Length[l] \in Int /\ \A i \in f .. Length[l] : w[i] \in Piece
        <4>1. \A i \in f .. Length[l] : i \in 1 .. Len(w)
          BY <1>3, <2>5
        <4>2. \A i \in f .. Length[l] : w[i] \in Piece
          BY <2>1, <4>1, ElementOfSeq
        <4> HIDE DEF d
        <4> QED
          BY <1>3, <4>2
      <3>3. Len(d) = Length[l] - f + 1 /\ d \in Seq(Piece)
            /\ \A i \in 1 .. Length[l] - f + 1 : d[i] = w[f + i - 1]
        BY <1>3, <3>2, SubSeqProperties
      <3> QED
        BY <3>1, <3>3
    <2>2. \A i \in 1 .. k : d[i] = <<l, f + i - 1>>
      <3> SUFFICES ASSUME NEW i \in 1 .. k PROVE d[i] = <<l, f + i - 1>>
        OBVIOUS
      <3>1. f + i - 1 \in 1 .. Length[l]
        BY <1>1, <1>2, <1>3, <1>5
      <3>2. d[i] = w[f + i - 1]
        BY <2>6
      <3> HIDE DEF d
      <3> QED
        BY <2>1, <3>1, <3>2
    <2>3. c \in Seq(Piece)
      BY <1>1 DEF k
    <2> HIDE DEF d
    <2>4. c = d
      BY <1>2, <1>4, <2>2, <2>3, <2>6, SeqEqual
    <2> QED
      BY <2>4 DEF d, w
  <1> QED
    BY <1>3, <1>6
-------------------------------------------------------------------------------
(* Every step of the console keeps it. *)

\* Nothing has been typed or read.
LEMMA ConsoleStarts == SerCon!ConsoleInit => ConsoleInv
  <1> SUFFICES ASSUME SerCon!ConsoleInit PROVE ConsoleInv
    OBVIOUS
  <1>1. Streams /\ Buffered /\ Stream = <<>>
    BY DEF SerCon!ConsoleInit, Streams, Buffered, Stream
  <1>2. Linked(<<>>, spoilt)
    BY DEF Linked, Chained
  <1> QED
    BY <1>1, <1>2 DEF ConsoleInv

\* A step that leaves the console alone.
LEMMA ConsoleStutters == ConsoleInv /\ UNCHANGED consoleVars => ConsoleInv'
  <1> SUFFICES ASSUME ConsoleInv, UNCHANGED consoleVars PROVE ConsoleInv'
    OBVIOUS
  <1>1. UNCHANGED <<coming, rx, linebuf, rest, place, spoilt>>
    BY DEF consoleVars
  <1>2. Stream' = Stream
    BY <1>1 DEF Stream
  <1>3. (Streams /\ Buffered)'
    BY <1>1 DEF ConsoleInv, Streams, Buffered
  <1> QED
    BY <1>1, <1>2, <1>3 DEF ConsoleInv

\* A line is typed.
LEMMA TypeKeeps == ASSUME ConsoleInv, NEW l \in Lines, SerCon!Type(l) PROVE ConsoleInv'
  <1> DEFINE back == IF place = "read" THEN linebuf ELSE rest
             w == SerCon!Whole(l)
  <1>1. /\ coming = <<>> /\ coming' = w
        /\ UNCHANGED <<rx, linebuf, rest, place, spoilt>>
    BY DEF SerCon!Type
  <1>2. w \in Seq(Piece) /\ Linked(w, spoilt)
    BY WholeLinked
  <1>3. back \in Seq(Piece) /\ rx \in Seq(Piece) /\ back \o rx \in Seq(Piece)
    BY DEF ConsoleInv, Streams
  <1>4. Stream' = back \o (rx \o w)
    BY <1>1 DEF Stream
  <1>5. Linked(back \o rx, spoilt)
    <2>1. Stream = back \o rx
      BY <1>1, <1>3 DEF Stream
    <2> QED
      BY <2>1 DEF ConsoleInv
  <1> HIDE DEF back, w
  <1>6. Stream' = (back \o rx) \o w
    BY <1>2, <1>3, <1>4, ConcatAssociative
  <1>7. Linked(Stream', spoilt')
    BY <1>1, <1>2, <1>3, <1>5, <1>6, JoinLinked
  <1>8. (Streams /\ Buffered)'
    BY <1>1, <1>2 DEF ConsoleInv, Streams, Buffered
  <1> QED
    BY <1>7, <1>8 DEF ConsoleInv

\* A piece arrives: it is kept, or lost.
LEMMA ReceiveKeeps == ConsoleInv /\ SerCon!Receive => ConsoleInv'
  <1> SUFFICES ASSUME ConsoleInv, SerCon!Receive PROVE ConsoleInv'
    OBVIOUS
  <1> DEFINE back == IF place = "read" THEN linebuf ELSE rest
             p == Head(coming)
             t == Tail(coming)
  <1>1. /\ coming # <<>> /\ coming' = t
        /\ UNCHANGED <<linebuf, rest, place>>
        /\ \/ rx' = Append(rx, p) /\ spoilt' = spoilt
           \/ rx' = rx /\ spoilt' = spoilt \cup {p[1]}
    BY DEF SerCon!Receive
  <1>2. back \in Seq(Piece) /\ rx \in Seq(Piece) /\ coming \in Seq(Piece)
    BY DEF ConsoleInv, Streams
  <1>3. p \in Piece /\ t \in Seq(Piece) /\ coming = <<p>> \o t /\ <<p>> \in Seq(Piece)
    BY <1>1, <1>2
  <1>4. Stream = back \o (rx \o coming) /\ Stream' = back \o (rx' \o t)
    BY <1>1 DEF Stream
  <1> HIDE DEF back, p, t
  <1>5. CASE rx' = Append(rx, p) /\ spoilt' = spoilt
    <2>1. rx' = rx \o <<p>> /\ rx' \in Seq(Piece)
      BY <1>2, <1>3, <1>5, AppendIsConcat, AppendProperties
    <2>2. Stream' = Stream
      BY <1>2, <1>3, <1>4, <2>1, ConcatAssociative
    <2>3. (Streams /\ Buffered)'
      BY <1>1, <1>3, <2>1 DEF ConsoleInv, Streams, Buffered
    <2> QED
      BY <1>5, <2>2, <2>3 DEF ConsoleInv
  <1>6. CASE rx' = rx /\ spoilt' = spoilt \cup {p[1]}
    <2>1. Linked((back \o rx) \o (<<p>> \o t), spoilt)
      <3>1. Linked(Stream, spoilt)
        BY DEF ConsoleInv
      <3>2. (back \o rx) \o coming = back \o (rx \o coming)
        BY <1>2, ConcatAssociative
      <3> QED
        BY <1>3, <1>4, <3>1, <3>2
    <2>2. back \o rx \in Seq(Piece)
      BY <1>2
    <2>3. Linked((back \o rx) \o t, spoilt')
      BY <1>3, <1>6, <2>1, <2>2, LoseOne
    <2>4. (back \o rx) \o t = Stream'
      BY <1>2, <1>3, <1>4, <1>6, ConcatAssociative
    <2>5. (Streams /\ Buffered)'
      BY <1>1, <1>3, <1>6 DEF ConsoleInv, Streams, Buffered
    <2> QED
      BY <2>3, <2>4, <2>5 DEF ConsoleInv
  <1> QED
    BY <1>1, <1>5, <1>6

\* Pieces move from the driver's buffer to the console's.
LEMMA ReadKeeps == ConsoleInv /\ SerCon!Read => ConsoleInv'
  <1> SUFFICES ASSUME ConsoleInv, SerCon!Read PROVE ConsoleInv'
    OBVIOUS
  <1>1. PICK n \in 1 .. Len(rx) :
           /\ linebuf' = linebuf \o SubSeq(rx, 1, n)
           /\ rx' = SubSeq(rx, n + 1, Len(rx))
    <2> DEFINE space == BufSize - Len(linebuf)
               n == IF Len(rx) < space THEN Len(rx) ELSE space
    <2>1. /\ n > 0 /\ linebuf' = linebuf \o SubSeq(rx, 1, n)
          /\ rx' = SubSeq(rx, n + 1, Len(rx))
      BY DEF SerCon!Read
    <2>2. Len(rx) \in Nat /\ Len(linebuf) \in Nat /\ BufSize \in Nat
      BY ConsoleAssumption DEF ConsoleInv, Streams
    <2>3. n \in 1 .. Len(rx)
      BY <2>1, <2>2
    <2> QED
      BY <2>1, <2>3
  <1>2. /\ place = "read" /\ UNCHANGED <<coming, spoilt>>
        /\ \/ place' = "lines" /\ rest' = linebuf' /\ SerCon!HasNewline(linebuf')
           \/ place' = "read" /\ rest' = rest
    BY DEF SerCon!Read
  <1> DEFINE a == SubSeq(rx, 1, n)
             b == SubSeq(rx, n + 1, Len(rx))
  <1>3. linebuf \in Seq(Piece) /\ rx \in Seq(Piece) /\ coming \in Seq(Piece) /\ rest \in Seq(Piece)
    BY DEF ConsoleInv, Streams
  <1>4. a \in Seq(Piece) /\ b \in Seq(Piece) /\ rx = a \o b
    BY <1>3
  <1>5. Stream = linebuf \o (rx \o coming) /\ Stream' = linebuf' \o (b \o coming)
    BY <1>1, <1>2 DEF Stream
  <1>6. linebuf' = linebuf \o a /\ rx' = b /\ linebuf' \in Seq(Piece)
    BY <1>1, <1>3, <1>4
  <1> HIDE DEF a, b
  <1>7. Stream' = Stream
    <2>3. /\ linebuf \in Seq(Piece) /\ a \in Seq(Piece) /\ b \in Seq(Piece)
          /\ coming \in Seq(Piece) /\ b \o coming \in Seq(Piece)
      BY <1>3, <1>4
    <2>1. (linebuf \o a) \o (b \o coming) = linebuf \o (a \o (b \o coming))
      <3> DEFINE c == b \o coming
      <3>1. c \in Seq(Piece)
        BY <2>3
      <3> HIDE DEF c
      <3>2. (linebuf \o a) \o c = linebuf \o (a \o c)
        BY ONLY <2>3, <3>1, ConcatAssociative
      <3> QED
        BY <3>2 DEF c
    <2>2. a \o (b \o coming) = (a \o b) \o coming
      BY ONLY <2>3, ConcatAssociative
    <2> QED
      BY <1>4, <1>5, <1>6, <2>1, <2>2
  <1>8. (Streams /\ Buffered)'
    BY <1>2, <1>3, <1>4, <1>6 DEF Streams, Buffered, SerCon!HasNewline
  <1> QED
    BY <1>2, <1>7, <1>8 DEF ConsoleInv

\* A line is cut off, and what is left is still linked.
LEMMA CutKeeps == ConsoleInv /\ SerCon!Cut => ConsoleInv'
  <1> SUFFICES ASSUME ConsoleInv, SerCon!Cut PROVE ConsoleInv'
    OBVIOUS
  <1> DEFINE k == SerCon!FirstNewline(rest)
             a == SubSeq(rest, 1, k)
             b == SubSeq(rest, k + 1, Len(rest))
  <1>1. /\ place = "lines" /\ SerCon!HasNewline(rest) /\ rest' = b /\ linebuf' = <<>>
        /\ place' \in {"lines", "call"} /\ UNCHANGED <<coming, rx, spoilt>>
    BY DEF SerCon!Cut
  <1>2. rx \in Seq(Piece) /\ coming \in Seq(Piece) /\ rest \in Seq(Piece)
        /\ rx \o coming \in Seq(Piece)
    BY DEF ConsoleInv, Streams
  <1>3. k \in 1 .. Len(rest)
    BY <1>1, <1>2, FirstNewlineFacts
  <1> HIDE DEF k
  <1>4. a \in Seq(Piece) /\ b \in Seq(Piece) /\ rest = a \o b
    BY <1>2, <1>3
  <1>5. Stream = rest \o (rx \o coming) /\ Stream' = b \o (rx \o coming)
    BY <1>1 DEF Stream
  <1> HIDE DEF a, b
  <1>6. Stream = a \o Stream' /\ Stream' \in Seq(Piece)
    <2>1. b \o (rx \o coming) \in Seq(Piece)
      BY <1>2, <1>4
    <2>2. (a \o b) \o (rx \o coming) = a \o (b \o (rx \o coming))
      BY <1>2, <1>4, ConcatAssociative
    <2> QED
      BY <1>4, <1>5, <2>1, <2>2
  <1>7. Linked(Stream', spoilt')
    BY <1>1, <1>4, <1>6, SuffixLinked DEF ConsoleInv
  <1>8. (Streams /\ Buffered)'
    BY <1>1, <1>2, <1>4 DEF Streams, Buffered
  <1> QED
    BY <1>7, <1>8 DEF ConsoleInv

\* What stands behind the last line is given up.
LEMMA NoMoreLinesKeeps == ConsoleInv /\ SerCon!NoMoreLines => ConsoleInv'
  <1> SUFFICES ASSUME ConsoleInv, SerCon!NoMoreLines PROVE ConsoleInv'
    OBVIOUS
  <1>1. /\ place = "lines" /\ place' = "read" /\ rest' = <<>> /\ linebuf = <<>>
        /\ UNCHANGED <<coming, rx, linebuf, spoilt>>
    BY DEF SerCon!NoMoreLines, ConsoleInv, Buffered
  <1>2. rx \in Seq(Piece) /\ coming \in Seq(Piece) /\ rest \in Seq(Piece)
        /\ rx \o coming \in Seq(Piece)
    BY DEF ConsoleInv, Streams
  <1>3. Stream = rest \o (rx \o coming) /\ Stream' = rx \o coming
    BY <1>1, <1>2 DEF Stream
  <1>4. Linked(Stream', spoilt')
    BY <1>1, <1>2, <1>3, SuffixLinked DEF ConsoleInv
  <1>5. (Streams /\ Buffered)'
    BY <1>1, <1>2 DEF Streams, Buffered
  <1> QED
    BY <1>4, <1>5 DEF ConsoleInv

\* A restart loses what the driver and the console hold.
LEMMA ConsoleRestartKeeps == ConsoleInv /\ SerCon!ConsoleRestart => ConsoleInv'
  <1> SUFFICES ASSUME ConsoleInv, SerCon!ConsoleRestart PROVE ConsoleInv'
    OBVIOUS
  <1> DEFINE back == IF place = "read" THEN linebuf ELSE rest
  <1>1. /\ rx' = <<>> /\ linebuf' = <<>> /\ rest' = <<>> /\ place' = "read" /\ coming' = coming
    BY DEF SerCon!ConsoleRestart
  <1>2. PICK lost : spoilt' = spoilt \cup lost
    <2>1. spoilt' = spoilt \cup (SerCon!LinesIn(rx) \cup SerCon!LinesIn(linebuf)
                                 \cup SerCon!LinesIn(rest))
      BY DEF SerCon!ConsoleRestart
    <2> QED
      BY <2>1
  <1>3. back \in Seq(Piece) /\ rx \in Seq(Piece) /\ coming \in Seq(Piece) /\ back \o rx \in Seq(Piece)
    BY DEF ConsoleInv, Streams
  <1>4. Stream = back \o (rx \o coming) /\ Stream' = coming
    BY <1>1, <1>3 DEF Stream
  <1> HIDE DEF back
  <1>5. Linked((back \o rx) \o coming, spoilt)
    <2>1. Linked(Stream, spoilt)
      BY DEF ConsoleInv
    <2>2. (back \o rx) \o coming = back \o (rx \o coming)
      BY <1>3, ConcatAssociative
    <2> QED
      BY <1>4, <2>1, <2>2
  <1>6. Linked(Stream', spoilt')
    BY <1>2, <1>3, <1>4, <1>5, SuffixLinked, MoreSpoilt
  <1>7. (Streams /\ Buffered)'
    BY <1>1, <1>3 DEF Streams, Buffered
  <1> QED
    BY <1>6, <1>7 DEF ConsoleInv

\* The callback returns, the service is set up.
LEMMA OthersKeep ==
    ConsoleInv /\ (SerCon!CallbackReturns \/ SerCon!serial_begin \/ SerCon!serial_set_line_callback)
        => ConsoleInv'
  <1> SUFFICES ASSUME ConsoleInv, SerCon!CallbackReturns \/ SerCon!serial_begin
                                  \/ SerCon!serial_set_line_callback
               PROVE  ConsoleInv'
    OBVIOUS
  <1>1. /\ UNCHANGED <<coming, rx, linebuf, rest, spoilt>>
        /\ place' = place \/ (place = "call" /\ place' = "lines")
    BY DEF SerCon!CallbackReturns, SerCon!serial_begin, SerCon!serial_set_line_callback
  <1>2. Stream' = Stream
    BY <1>1 DEF Stream
  <1>3. (Streams /\ Buffered)'
    BY <1>1 DEF ConsoleInv, Streams, Buffered
  <1> QED
    BY <1>1, <1>2, <1>3 DEF ConsoleInv

\* Every step of the system keeps it.
LEMMA ConsoleStep == ConsoleInv /\ [SystemNext]_systemVars => ConsoleInv'
  <1> SUFFICES ASSUME ConsoleInv, [SystemNext]_systemVars PROVE ConsoleInv'
    OBVIOUS
  <1>1. CASE ConsoleTask
    BY <1>1, CutKeeps, ReadKeeps, NoMoreLinesKeeps, OthersKeep DEF ConsoleTask, PassOn, LineDone
  <1>2. CASE Setup
    BY <1>2, OthersKeep DEF Setup
  <1>3. CASE World
    BY <1>3, ReceiveKeeps, TypeKeeps DEF World
  <1>4. CASE Draw \/ BoardLine \/ UNCHANGED systemVars
    BY <1>4, ConsoleStutters DEF Draw, BoardLine, systemVars
  <1>5. CASE SystemRestart
    BY <1>5, ConsoleRestartKeeps DEF SystemRestart
  <1> QED
    BY <1>1, <1>2, <1>3, <1>4, <1>5 DEF SystemNext

(***************************************************************************)
(* What the callback of the console is given is one line or the end of     *)
(* one, unless a piece of it was lost outside the task, however blocks and *)
(* lines fall together.                                                    *)
(***************************************************************************)
THEOREM NeverJoinsAlways == SystemSpec => []NeverJoins
  <1>1. SystemInit => ConsoleInv
    BY ConsoleStarts DEF SystemInit
  <1>2. ConsoleInv => NeverJoins
    <2> SUFFICES ASSUME ConsoleInv, place = "lines", SerCon!HasNewline(rest),
                        SerCon!LinesIn(SerCon!Current) \cap spoilt = {}
                 PROVE  \E l \in Lines : \E i \in 1 .. Length[l] :
                            SerCon!Current = SubSeq(SerCon!Whole(l), i, Length[l])
      BY DEF NeverJoins, SerCon!NeverJoins
    <2>1. rest \in Seq(Piece) /\ rx \o coming \in Seq(Piece)
      BY DEF ConsoleInv, Streams
    <2>2. Linked(rest \o (rx \o coming), spoilt)
      BY DEF ConsoleInv, Stream
    <2>3. Chained(rest, spoilt)
      BY <2>1, <2>2, PrefixChained
    <2>4. SerCon!Current = SubSeq(rest, 1, SerCon!FirstNewline(rest))
      BY DEF SerCon!Current
    <2> QED
      BY <2>1, <2>3, <2>4, CutIsLine
  <1> QED
    BY <1>1, <1>2, ConsoleStep, PTL DEF SystemSpec
-------------------------------------------------------------------------------
(***************************************************************************)
(* The types of the console.  What is cut off fits into the buffer, so it  *)
(* is a packet; and only of a line that has been typed are there pieces.   *)
(***************************************************************************)
OfTyped == /\ SerCon!LinesIn(coming) \subseteq typed /\ SerCon!LinesIn(rx) \subseteq typed
           /\ SerCon!LinesIn(linebuf) \subseteq typed /\ SerCon!LinesIn(rest) \subseteq typed

ConsoleTypes == SerCon!ConsoleTypeOK /\ Len(rest) <= BufSize /\ OfTyped

\* The lines that have a piece in a concatenation, and in a part.
LEMMA LinesInFacts ==
    ASSUME NEW s \in Seq(Piece), NEW t \in Seq(Piece)
    PROVE  /\ SerCon!LinesIn(s \o t) = SerCon!LinesIn(s) \cup SerCon!LinesIn(t)
           /\ \A m, n \in 1 .. Len(s) : SerCon!LinesIn(SubSeq(s, m, n)) \subseteq SerCon!LinesIn(s)
  <1>1. /\ Len(s) \in Nat /\ Len(t) \in Nat
        /\ DOMAIN s = 1 .. Len(s) /\ DOMAIN t = 1 .. Len(t)
    OBVIOUS
  <1>2. SerCon!LinesIn(s \o t) = SerCon!LinesIn(s) \cup SerCon!LinesIn(t)
    <2> DEFINE c == s \o t
    <2>1. /\ DOMAIN c = 1 .. Len(s) + Len(t)
          /\ \A i \in 1 .. Len(s) : c[i] = s[i]
          /\ \A i \in 1 .. Len(t) : c[Len(s) + i] = t[i]
      OBVIOUS
    <2> HIDE DEF c
    <2>2. \A i \in DOMAIN c : i \in DOMAIN s \/ i - Len(s) \in DOMAIN t
      BY <1>1, <2>1
    <2>3. ASSUME NEW i \in DOMAIN c, i \notin DOMAIN s PROVE c[i][1] \in SerCon!LinesIn(t)
      <3> DEFINE j == i - Len(s)
      <3>1. j \in DOMAIN t /\ Len(s) + j = i
        BY <1>1, <2>1, <2>2, <2>3
      <3> HIDE DEF j
      <3>2. c[i] = t[j]
        BY <1>1, <2>1, <3>1
      <3> QED
        BY <3>1, <3>2 DEF SerCon!LinesIn
    <2>4. ASSUME NEW i \in DOMAIN s PROVE i \in DOMAIN c /\ c[i] = s[i]
      BY <1>1, <2>1
    <2>5. ASSUME NEW i \in DOMAIN t PROVE t[i][1] \in SerCon!LinesIn(c)
      <3>1. Len(s) + i \in DOMAIN c /\ c[Len(s) + i] = t[i]
        BY <1>1, <2>1
      <3> QED
        BY <3>1 DEF SerCon!LinesIn
    <2>6. SerCon!LinesIn(c) \subseteq SerCon!LinesIn(s) \cup SerCon!LinesIn(t)
      BY <2>3, <2>4 DEF SerCon!LinesIn
    <2>7. SerCon!LinesIn(s) \cup SerCon!LinesIn(t) \subseteq SerCon!LinesIn(c)
      BY <2>4, <2>5 DEF SerCon!LinesIn
    <2>8. SerCon!LinesIn(c) = SerCon!LinesIn(s) \cup SerCon!LinesIn(t)
      BY <2>6, <2>7
    <2> QED
      BY <2>8 DEF c
  <1>3. ASSUME NEW m \in 1 .. Len(s), NEW n \in 1 .. Len(s)
        PROVE  SerCon!LinesIn(SubSeq(s, m, n)) \subseteq SerCon!LinesIn(s)
    <2> DEFINE d == SubSeq(s, m, n)
    <2>1. \A i \in DOMAIN d : m + i - 1 \in DOMAIN s /\ d[i] = s[m + i - 1]
      BY <1>1
    <2> HIDE DEF d
    <2>2. SerCon!LinesIn(d) \subseteq SerCon!LinesIn(s)
      BY <2>1 DEF SerCon!LinesIn
    <2> QED
      BY <2>2 DEF d
  <1> QED
    BY <1>2, <1>3

\* There is none in an empty sequence.
LEMMA LinesInEmpty == SerCon!LinesIn(<<>>) = {}
  BY DEF SerCon!LinesIn

\* An end of s.
LEMMA RestFacts ==
    ASSUME NEW s \in Seq(Piece), NEW k \in 1 .. Len(s)
    PROVE  /\ SubSeq(s, k + 1, Len(s)) \in Seq(Piece)
           /\ Len(SubSeq(s, k + 1, Len(s))) = Len(s) - k
           /\ SerCon!LinesIn(SubSeq(s, k + 1, Len(s))) \subseteq SerCon!LinesIn(s)
  <1>1. /\ SubSeq(s, k + 1, Len(s)) \in Seq(Piece)
        /\ Len(SubSeq(s, k + 1, Len(s))) = Len(s) - k
    OBVIOUS
  <1>2. CASE k = Len(s)
    <2>1. SubSeq(s, k + 1, Len(s)) = <<>>
      BY <1>2
    <2> QED
      BY <1>1, <2>1, LinesInEmpty
  <1>3. CASE k # Len(s)
    <2>1. k + 1 \in 1 .. Len(s) /\ Len(s) \in 1 .. Len(s)
      BY <1>3
    <2> QED
      BY <1>1, <2>1, LinesInFacts
  <1> QED
    BY <1>2, <1>3
\* The types at the start.
LEMMA TypesStart == SerCon!ConsoleInit => ConsoleTypes
  <1> SUFFICES ASSUME SerCon!ConsoleInit PROVE ConsoleTypes
    OBVIOUS
  <1>1. SerCon!ConsoleTypeOK
    BY ConsoleAssumption DEF SerCon!ConsoleInit, SerCon!ConsoleTypeOK, SerCon!HasNewline
  <1>2. Len(rest) <= BufSize /\ OfTyped
    BY ConsoleAssumption, LinesInEmpty DEF SerCon!ConsoleInit, OfTyped
  <1> QED
    BY <1>1, <1>2 DEF ConsoleTypes

\* What every lemma below needs of ConsoleTypes.
LEMMA TypesGive ==
    ConsoleTypes =>
        /\ coming \in Seq(Piece) /\ rx \in Seq(Piece) /\ linebuf \in Seq(Piece) /\ rest \in Seq(Piece)
        /\ Len(rx) \in Nat /\ Len(linebuf) \in Nat /\ Len(rest) \in Nat
        /\ BufSize \in Nat /\ RxRoom \in Nat
        /\ place \in {"read", "lines", "call"} /\ service \in {"off", "begun", "listening"}
        /\ typed \subseteq Lines /\ spoilt \subseteq typed /\ fair \subseteq typed
        /\ Len(rx) <= RxRoom /\ Len(linebuf) <= BufSize /\ Len(rest) <= BufSize
        /\ (place = "read" => rest = <<>> /\ ~SerCon!HasNewline(linebuf))
        /\ OfTyped
  BY ConsoleAssumption DEF ConsoleTypes, SerCon!ConsoleTypeOK, Piece

\* A step that leaves the console alone.
LEMMA TypedStutters == ConsoleTypes /\ UNCHANGED consoleVars => ConsoleTypes'
  BY DEF ConsoleTypes, SerCon!ConsoleTypeOK, SerCon!HasNewline, SerCon!LinesIn, OfTyped, consoleVars

\* The terminal, the driver, and setup.
LEMMA TypedWorld ==
    ConsoleTypes /\ (SerCon!Receive \/ (\E l \in Lines : SerCon!Type(l))
                     \/ SerCon!serial_begin \/ SerCon!serial_set_line_callback
                     \/ SerCon!CallbackReturns) => ConsoleTypes'
  <1> SUFFICES ASSUME ConsoleTypes,
                      SerCon!Receive \/ (\E l \in Lines : SerCon!Type(l))
                      \/ SerCon!serial_begin \/ SerCon!serial_set_line_callback
                      \/ SerCon!CallbackReturns
               PROVE  ConsoleTypes'
    OBVIOUS
  <1> USE TypesGive
  <1>1. CASE SerCon!Receive
    <2> DEFINE p == Head(coming)
               t == Tail(coming)
    <2>1. /\ coming # <<>> /\ coming' = t
          /\ UNCHANGED <<typed, service, linebuf, rest, place>>
          /\ fair' = fair \/ fair' = fair \cup {p[1]}
          /\ \/ rx' = Append(rx, p) /\ spoilt' = spoilt /\ Len(rx) < RxRoom
             \/ rx' = rx /\ spoilt' = spoilt \cup {p[1]}
      BY <1>1 DEF SerCon!Receive
    <2>2. p \in Piece /\ t \in Seq(Piece) /\ coming = <<p>> \o t /\ <<p>> \in Seq(Piece)
      BY <2>1
    <2> HIDE DEF p, t
    <2>3. p[1] \in SerCon!LinesIn(<<p>>)
      BY DEF SerCon!LinesIn
    <2>4. SerCon!LinesIn(<<p>>) \subseteq typed /\ SerCon!LinesIn(t) \subseteq typed
      <3>1. SerCon!LinesIn(<<p>> \o t) \subseteq typed
        BY <2>2 DEF OfTyped
      <3>2. <<p>> \in Seq(Piece) /\ t \in Seq(Piece)
        BY <2>2
      <3>3. SerCon!LinesIn(<<p>> \o t) = SerCon!LinesIn(<<p>>) \cup SerCon!LinesIn(t)
        BY ONLY <3>2, LinesInFacts
      <3> QED
        BY <3>1, <3>3
    <2>5. rx' \in Seq(Piece) /\ Len(rx') <= RxRoom /\ SerCon!LinesIn(rx') \subseteq typed
      <3>1. CASE rx' = rx
        BY <3>1 DEF OfTyped
      <3>2. CASE rx' = Append(rx, p) /\ Len(rx) < RxRoom
        <4>1. rx' = rx \o <<p>> /\ rx' \in Seq(Piece) /\ Len(rx') = Len(rx) + 1
          BY <2>2, <3>2, AppendIsConcat, AppendProperties
        <4>2. SerCon!LinesIn(rx') = SerCon!LinesIn(rx) \cup SerCon!LinesIn(<<p>>)
          BY <2>2, <4>1, LinesInFacts
        <4> QED
          BY <2>4, <3>2, <4>1, <4>2 DEF OfTyped
      <3> QED
        BY <2>1, <3>1, <3>2
    <2>6. fair' \subseteq typed /\ spoilt' \subseteq typed
      BY <2>1, <2>3, <2>4
    <2> QED
      BY <2>1, <2>2, <2>4, <2>5, <2>6
         DEF ConsoleTypes, SerCon!ConsoleTypeOK, SerCon!HasNewline, OfTyped, Piece
  <1>2. ASSUME NEW l \in Lines, SerCon!Type(l) PROVE ConsoleTypes'
    <2> DEFINE w == SerCon!Whole(l)
    <2>1. /\ typed' = typed \cup {l} /\ coming' = w
          /\ UNCHANGED <<rx, service, linebuf, rest, place, fair, spoilt>>
      BY <1>2 DEF SerCon!Type
    <2>2. w \in Seq(Piece)
      BY WholeLinked
    <2>3. SerCon!LinesIn(w) \subseteq typed'
      BY <2>1, ConsoleAssumption DEF SerCon!LinesIn, SerCon!Whole
    <2> HIDE DEF w
    <2>4. typed' \subseteq Lines /\ OfTyped'
      BY <2>1, <2>3 DEF OfTyped
    <2> QED
      BY <2>1, <2>2, <2>4 DEF ConsoleTypes, SerCon!ConsoleTypeOK, SerCon!HasNewline, Piece
  <1>3. CASE SerCon!serial_begin \/ SerCon!serial_set_line_callback \/ SerCon!CallbackReturns
    <2>1. /\ UNCHANGED <<typed, coming, rx, linebuf, rest, fair, spoilt>>
          /\ service' \in {"off", "begun", "listening"}
          /\ place' = place \/ place' = "lines"
      BY <1>3 DEF SerCon!serial_begin, SerCon!serial_set_line_callback, SerCon!CallbackReturns
    <2> QED
      BY <2>1 DEF ConsoleTypes, SerCon!ConsoleTypeOK, SerCon!HasNewline, OfTyped, Piece
  <1> QED
    BY <1>1, <1>2, <1>3

\* The console's task reads.
LEMMA TypedRead == ConsoleTypes /\ SerCon!Read => ConsoleTypes'
  <1> SUFFICES ASSUME ConsoleTypes, SerCon!Read PROVE ConsoleTypes'
    OBVIOUS
  <1> USE TypesGive
  <1> DEFINE space == BufSize - Len(linebuf)
             n == IF Len(rx) < space THEN Len(rx) ELSE space
             a == SubSeq(rx, 1, n)
             b == SubSeq(rx, n + 1, Len(rx))
  <1>1. /\ n > 0 /\ linebuf' = linebuf \o a /\ rx' = b
        /\ UNCHANGED <<typed, coming, service, fair, spoilt>>
        /\ \/ place' = "lines" /\ rest' = linebuf'
           \/ UNCHANGED <<place, rest>> /\ ~SerCon!HasNewline(linebuf')
    BY DEF SerCon!Read
  <1>2. n \in 1 .. Len(rx) /\ n <= BufSize - Len(linebuf) /\ n \in Nat
    BY <1>1
  <1> HIDE DEF n
  <1>3. a \in Seq(Piece) /\ Len(a) = n /\ SerCon!LinesIn(a) \subseteq typed
    <2>1. a \in Seq(Piece) /\ Len(a) = n
      BY <1>2
    <2>2. 1 \in 1 .. Len(rx)
      BY <1>2
    <2>3. SerCon!LinesIn(a) \subseteq SerCon!LinesIn(rx)
      BY <1>2, <2>2, LinesInFacts
    <2> QED
      BY <2>1, <2>3 DEF OfTyped
  <1>4. b \in Seq(Piece) /\ Len(b) = Len(rx) - n /\ SerCon!LinesIn(b) \subseteq typed
    BY <1>2, RestFacts DEF OfTyped
  <1> HIDE DEF a, b
  <1>5. linebuf' \in Seq(Piece) /\ Len(linebuf') <= BufSize /\ SerCon!LinesIn(linebuf') \subseteq typed
    <2>1. linebuf' \in Seq(Piece) /\ Len(linebuf') = Len(linebuf) + n
      <3>1. linebuf' = linebuf \o a /\ linebuf \in Seq(Piece)
        BY <1>1
      <3> QED
        BY ONLY <1>3, <3>1, ConcatProperties
    <2>2. SerCon!LinesIn(linebuf') = SerCon!LinesIn(linebuf) \cup SerCon!LinesIn(a)
      BY <1>1, <1>3, LinesInFacts
    <2> QED
      BY <1>2, <1>3, <2>1, <2>2 DEF OfTyped
  <1>6. rx' \in Seq(Piece) /\ Len(rx') <= RxRoom /\ SerCon!LinesIn(rx') \subseteq typed
    BY <1>1, <1>2, <1>4
  <1>7. OfTyped' /\ Len(rest') <= BufSize
    BY <1>1, <1>5, <1>6 DEF OfTyped
  <1>8. SerCon!ConsoleTypeOK'
    BY <1>1, <1>5, <1>6 DEF SerCon!ConsoleTypeOK, SerCon!Read, SerCon!HasNewline, Piece
  <1> QED
    BY <1>7, <1>8 DEF ConsoleTypes

\* It cuts, is done with a block, or is gone.
LEMMA TypedLines ==
    ConsoleTypes /\ Buffered /\ (SerCon!Cut \/ SerCon!NoMoreLines \/ SerCon!ConsoleRestart)
        => ConsoleTypes'
  <1> SUFFICES ASSUME ConsoleTypes, Buffered, SerCon!Cut \/ SerCon!NoMoreLines \/ SerCon!ConsoleRestart
               PROVE  ConsoleTypes'
    OBVIOUS
  <1> USE TypesGive
  <1>1. CASE SerCon!Cut
    <2> DEFINE k == SerCon!FirstNewline(rest)
               b == SubSeq(rest, k + 1, Len(rest))
    <2>1. /\ rest' = b /\ linebuf' = <<>> /\ place' \in {"lines", "call"} /\ SerCon!HasNewline(rest)
          /\ UNCHANGED <<typed, coming, rx, service, fair, spoilt>>
      BY <1>1 DEF SerCon!Cut
    <2>2. k \in 1 .. Len(rest)
      BY <2>1, FirstNewlineFacts
    <2> HIDE DEF k
    <2>3. b \in Seq(Piece) /\ Len(b) = Len(rest) - k /\ SerCon!LinesIn(b) \subseteq typed
      BY <2>2, RestFacts DEF OfTyped
    <2> HIDE DEF b
    <2>4. OfTyped' /\ Len(rest') <= BufSize
      BY <2>1, <2>2, <2>3, LinesInEmpty DEF OfTyped
    <2>5. SerCon!ConsoleTypeOK'
      BY <2>1, <2>3 DEF SerCon!ConsoleTypeOK, Piece
    <2> QED
      BY <2>4, <2>5 DEF ConsoleTypes
  <1>2. CASE SerCon!NoMoreLines
    <2>1. /\ place = "lines" /\ ~SerCon!HasNewline(rest) /\ place' = "read" /\ rest' = <<>>
          /\ UNCHANGED <<typed, coming, rx, service, linebuf, fair, spoilt>>
          /\ linebuf = <<>>
      BY <1>2 DEF SerCon!NoMoreLines, Buffered
    <2> QED
      BY <2>1, LinesInEmpty DEF ConsoleTypes, SerCon!ConsoleTypeOK, SerCon!HasNewline, OfTyped, Piece
  <1>3. CASE SerCon!ConsoleRestart
    <2>1. /\ rx' = <<>> /\ service' = "off" /\ linebuf' = <<>> /\ rest' = <<>> /\ place' = "read"
          /\ spoilt' = spoilt \cup SerCon!LinesIn(rx) \cup SerCon!LinesIn(linebuf) \cup SerCon!LinesIn(rest)
          /\ UNCHANGED <<typed, coming, fair>>
      BY <1>3 DEF SerCon!ConsoleRestart
    <2>2. OfTyped' /\ spoilt' \subseteq typed
      BY <2>1, LinesInEmpty DEF OfTyped
    <2> QED
      BY <2>1, <2>2 DEF ConsoleTypes, SerCon!ConsoleTypeOK, SerCon!HasNewline, Piece
  <1> QED
    BY <1>1, <1>2, <1>3
\* Every step of the system keeps the types of the console.
LEMMA TypedStep == ConsoleTypes /\ ConsoleInv /\ [SystemNext]_systemVars => ConsoleTypes'
  <1> SUFFICES ASSUME ConsoleTypes, Buffered, [SystemNext]_systemVars PROVE ConsoleTypes'
    BY DEF ConsoleInv
  <1>1. CASE ConsoleTask
    BY <1>1, TypedLines, TypedRead, TypedWorld DEF ConsoleTask, PassOn, LineDone
  <1>2. CASE Setup
    BY <1>2, TypedWorld DEF Setup
  <1>3. CASE World
    BY <1>3, TypedWorld DEF World
  <1>4. CASE Draw \/ BoardLine \/ UNCHANGED systemVars
    BY <1>4, TypedStutters DEF Draw, BoardLine, systemVars
  <1>5. CASE SystemRestart
    BY <1>5, TypedLines DEF SystemRestart
  <1> QED
    BY <1>1, <1>2, <1>3, <1>4, <1>5 DEF SystemNext
-------------------------------------------------------------------------------
(* The two together. *)

\* What is cut off is a packet.
LEMMA CurrentIsPacket ==
    ConsoleTypes /\ SerCon!Cut => SerCon!Current \in Packets
  <1> SUFFICES ASSUME ConsoleTypes, SerCon!Cut PROVE SerCon!Current \in Packets
    OBVIOUS
  <1> DEFINE k == SerCon!FirstNewline(rest)
             c == SubSeq(rest, 1, k)
  <1>1. rest \in Seq(Piece) /\ Len(rest) \in Nat /\ Len(rest) <= BufSize /\ BufSize \in Nat
    BY TypesGive
  <1>2. k \in 1 .. Len(rest)
    BY <1>1, FirstNewlineFacts DEF SerCon!Cut
  <1> HIDE DEF k
  <1>3. c \in [1 .. k -> Piece]
    <2>1. c \in Seq(Piece) /\ Len(c) = k
      BY <1>1, <1>2
    <2> HIDE DEF c
    <2> QED
      BY <2>1, LenProperties
  <1>4. k \in 1 .. BufSize
    BY <1>1, <1>2
  <1>5. c \in Packets
    BY <1>3, <1>4, CutsAssumption DEF Piece
  <1> QED
    BY <1>5 DEF SerCon!Current, k

\* A step of the system is one of the line, or leaves it alone.
LEMMA StepOfLine == ConsoleTypes /\ [SystemNext]_systemVars => [Next]_vars
  <1> SUFFICES ASSUME ConsoleTypes, [SystemNext]_systemVars PROVE [Next]_vars
    OBVIOUS
  <1>1. CASE PassOn
    <2>1. SerCon!Current \in Packets /\ Console \in Writers
      BY <1>1, CurrentIsPacket, ConsoleAssumption DEF PassOn
    <2> QED
      BY <1>1, <2>1 DEF PassOn, Next
  <1>2. CASE LineDone \/ Setup \/ World \/ UNCHANGED systemVars
             \/ ((SerCon!Read \/ SerCon!NoMoreLines) /\ UNCHANGED <<vars, restarts>>)
    BY <1>2 DEF LineDone, Setup, World, systemVars
  <1>3. CASE Draw
    BY <1>3, ConsoleAssumption DEF Draw, Next
  <1>4. CASE BoardLine \/ SystemRestart
    BY <1>4 DEF BoardLine, SystemRestart, Next
  <1> QED
    BY <1>1, <1>2, <1>3, <1>4 DEF SystemNext, ConsoleTask

\* The start of both.
LEMMA SystemStarts == SystemInit => ConsoleInv /\ ConsoleTypes /\ Init
  BY ConsoleStarts, TypesStart DEF SystemInit

\* Every behaviour of the system is one of the line.
THEOREM LineOfSystem == SystemSpec => Spec /\ []ConsoleTypes
  BY SystemStarts, ConsoleStep, TypedStep, StepOfLine, PTL DEF SystemSpec, Spec

(***************************************************************************)
(* What one task sends while no other does reaches the board as a line,    *)
(* the console's lines included, whatever was torn before it.              *)
(***************************************************************************)
THEOREM UntornArrivesAlways == SystemSpec => []UntornArrives
  BY LineOfSystem, UntornArrivesAlone, PTL
(***************************************************************************)
(* Every variable keeps its type: no buffer outgrows its size, what the    *)
(* console is between reads holds no line, and what it cuts is a packet.   *)
(***************************************************************************)
THEOREM SystemTypeCorrect == SystemSpec => []SystemTypeOK
  <1> DEFINE Counted == restarts \in 0 .. Restarts
  <1>1. SystemInit => Counted
    BY ConsoleAssumption DEF SystemInit
  <1>2. Counted /\ [SystemNext]_systemVars => Counted'
    <2> SUFFICES ASSUME Counted, [SystemNext]_systemVars PROVE Counted'
      OBVIOUS
    <2>1. restarts' = restarts \/ (restarts < Restarts /\ restarts' = restarts + 1)
      BY DEF SystemNext, ConsoleTask, PassOn, LineDone, Setup, World, Draw, BoardLine,
             SystemRestart, systemVars
    <2> QED
      BY <2>1, ConsoleAssumption
  <1>3. TypeOK /\ ConsoleTypes /\ Counted => SystemTypeOK
    BY DEF ConsoleTypes, SystemTypeOK
  <1> HIDE DEF Counted
  <1> QED
    BY <1>1, <1>2, <1>3, LineOfSystem, LineTypeCorrect, PTL DEF SystemSpec
===============================================================================
