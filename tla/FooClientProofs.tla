---------------------------- MODULE FooClientProofs ----------------------------
(***************************************************************************)
(* What the foobar2000 client has handled is what the view shows, for any  *)
(* number of tracks, changes and losses of the connection.                 *)
(***************************************************************************)
EXTENDS FooClient, SequenceTheorems, TLAPS

News(l) == l.type \in {"111", "112"}

(***************************************************************************)
(* TypeOK in parts.  It is not inductive by itself: the lines that reach   *)
(* the buffers are those of a track, and the clock never stands at 0,      *)
(* which last_recv starts from.  foo_task parses a block to its end before *)
(* it reads.                                                               *)
(***************************************************************************)
Places ==
    /\ player \in Players /\ changes \in 0 .. Changes /\ losses \in 0 .. Losses
    /\ link \in {"none", "up", "closed", "failed"}
    /\ pc \in {"connect", "recv", "parse", "artist", "take", "store", "stamp", "give", "clear"}
    /\ viewPc \in {"idle", "see", "playing", "artist", "title", "draw", "hide"}
    /\ missed \in BOOLEAN

Sequenced ==
    /\ net \in Seq(Lines) /\ block \in Seq(Lines)
    /\ pc \in {"artist", "take", "store", "stamp", "give"} => block # <<>> /\ News(Head(block))
    /\ pc \in {"connect", "recv", "clear"} => block = <<>>

Buffers ==
    /\ artist \in Tracks \cup {Blank, Torn} /\ title \in Tracks \cup {Blank}
    /\ play_sts \in BOOLEAN
    /\ vArtist \in Tracks \cup {Blank, Torn} /\ vTitle \in Tracks \cup {Blank}
    /\ shown \in {Dark} \cup (Tracks \cup {Blank, Torn}) \X (Tracks \cup {Blank})

Clocks ==
    /\ now \in Nat \ {0} /\ last_recv \in Nat /\ last_foo \in Nat
    /\ last_recv <= now /\ last_foo <= last_recv

TypeInv == Places /\ Sequenced /\ Buffers /\ Clocks

\* The status is what line l says.
Stored(l) == artist = l.track /\ title = l.track /\ play_sts = (l.type = "111")

\* A line in work is in the buffers as far as foo_task has come with it.
InWork ==
    /\ pc \in {"take", "store"} => artist = Head(block).track
    /\ pc \in {"stamp", "give"} => Stored(Head(block))

\* The last line that has been sent and not been handled.
Newest == IF net # <<>> THEN net[Len(net)] ELSE block[Len(block)]

(***************************************************************************)
(* While the connection lasts, the newest line is of what is played, or a  *)
(* remnant of the one that was; when none is left and none was missed, the *)
(* status is of what is played.                                            *)
(***************************************************************************)
UpToDate ==
    /\ link = "up" => pc \notin {"connect", "clear"}
    /\ link = "up" /\ (net # <<>> \/ block # <<>>) =>
          Newest \in {Line(player), Rest, RestEmpty}
    /\ link = "up" /\ net = <<>> /\ block = <<>> /\ ~missed =>
          Stored(Line(player)) /\ last_recv # 0

\* A failed connection: its stamp is of no use to a view that reads before play_sts is cleared.
Failed ==
    /\ pc = "give" => last_recv # 0
    /\ pc = "clear" => link = "failed" /\ last_recv # 0
    /\ pc = "clear" /\ last_foo = last_recv => missed
    /\ pc = "connect" /\ link = "failed" => ~play_sts /\ last_recv # 0

\* What the view has read since it saw the last stamp is the status.
Viewed ==
    /\ viewPc \in {"artist", "title", "draw"} => play_sts
    /\ viewPc \in {"title", "draw"} => vArtist = artist
    /\ viewPc = "draw" => vTitle = title
    /\ viewPc = "hide" => ~play_sts
    /\ viewPc = "idle" /\ last_recv # 0 =>
          shown = IF play_sts THEN <<artist, title>> ELSE Dark

\* It is, unless foo_task is changing it, and then a stamp will follow.
Seen ==
    pc \in {"connect", "recv", "parse", "give"} /\ last_foo = last_recv /\ ~missed => Viewed

FooInv == InWork /\ UpToDate /\ Failed /\ Seen
-------------------------------------------------------------------------------
(***************************************************************************)
(* Lines, and sequences of them.                                           *)
(***************************************************************************)
LEMMA LineFacts ==
    /\ \A p \in Players : /\ Line(p) \in Lines /\ News(Line(p)) /\ Line(p).track = p.track
                          /\ p.track \in Tracks /\ p.on \in BOOLEAN
                          /\ (Line(p).type = "111") = p.on
    /\ Banner \in Lines /\ Rest \in Lines /\ RestEmpty \in Lines
    /\ ~News(Banner) /\ ~News(Rest) /\ ~News(RestEmpty) /\ RestEmpty.type = "" /\ Rest.type = "0"
    /\ \A l \in Lines : News(l) => l.track \in Tracks
<1>1. \A p \in Players : Line(p) \in Lines
  BY DEF Lines
<1>2. \A p \in Players : p.track \in Tracks /\ p.on \in BOOLEAN
  BY DEF Players
<1>3. \A p \in Players : /\ Line(p).track = p.track
                         /\ Line(p).type = IF p.on THEN "111" ELSE "112"
  BY DEF Line
<1>4. \A p \in Players : News(Line(p)) /\ (Line(p).type = "111") = p.on
  BY <1>2, <1>3 DEF News
<1>5. ~News(Banner) /\ ~News(Rest) /\ ~News(RestEmpty) /\ RestEmpty.type = "" /\ Rest.type = "0"
  BY DEF News, Banner, Rest, RestEmpty
<1> HIDE DEF Line, Banner, Rest, RestEmpty
<1>6. \A l \in Lines : News(l) => \E p \in Players : l = Line(p)
  BY <1>5 DEF Lines
<1> QED
  BY <1>1, <1>2, <1>3, <1>4, <1>5, <1>6 DEF Lines

\* A block without its first line.
LEMMA Handled ==
    ASSUME NEW s \in Seq(Lines), s # <<>>
    PROVE  /\ Head(s) \in Lines /\ Tail(s) \in Seq(Lines)
           /\ Tail(s) = <<>> => s[Len(s)] = Head(s)
           /\ Tail(s) # <<>> => Tail(s)[Len(Tail(s))] = s[Len(s)]
<1> DEFINE t == Tail(s)
<1>1. Len(s) \in Nat \ {0} /\ Head(s) = s[1]
  BY EmptySeq
<1>2. /\ Head(s) \in Lines /\ t \in Seq(Lines) /\ Len(t) = Len(s) - 1
      /\ \A i \in 1 .. Len(t) : t[i] = s[i + 1]
  BY HeadTailProperties
<1> HIDE DEF t
<1>3. t # <<>> => Len(t) \in Nat \ {0}
  BY <1>2, EmptySeq
<1>4. t = <<>> => Len(s) = 1
  BY <1>1, <1>2, EmptySeq
<1>5. t = <<>> => s[Len(s)] = Head(s)
  BY <1>1, <1>4
<1>6. t # <<>> => t[Len(t)] = s[Len(s)]
  BY <1>1, <1>2, <1>3
<1> QED
  BY <1>2, <1>5, <1>6 DEF t

\* The lines that are read, and those that are left.
LEMMA Read ==
    ASSUME NEW s \in Seq(Lines), NEW n \in 1 .. Len(s)
    PROVE  /\ SubSeq(s, 1, n) \in Seq(Lines) /\ SubSeq(s, 1, n - 1) \in Seq(Lines)
           /\ SubSeq(s, n + 1, Len(s)) \in Seq(Lines)
           /\ SubSeq(s, n + 1, Len(s)) = <<>> => /\ SubSeq(s, 1, n) # <<>>
                                                 /\ LET b == SubSeq(s, 1, n)
                                                    IN  b[Len(b)] = s[Len(s)]
           /\ LET r == SubSeq(s, n + 1, Len(s))
              IN  r # <<>> => r[Len(r)] = s[Len(s)]
<1> DEFINE a == SubSeq(s, 1, n)
           b == SubSeq(s, 1, n - 1)
           r == SubSeq(s, n + 1, Len(s))
<1>1. Len(s) \in Nat /\ n \in Nat \ {0} /\ n <= Len(s) /\ \A k \in 1 .. Len(s) : s[k] \in Lines
  BY LenProperties, ElementOfSeq
<1>2. a \in Seq(Lines) /\ Len(a) = n /\ \A k \in 1 .. n : a[k] = s[k]
  BY <1>1, SubSeqProperties
<1>3. b \in Seq(Lines)
  BY <1>1, SubSeqProperties
<1>4. /\ r \in Seq(Lines) /\ Len(r) = Len(s) - n
      /\ \A k \in 1 .. Len(s) - n : r[k] = s[n + k]
  <2>1. \A k \in n + 1 .. Len(s) : s[k] \in Lines
    BY <1>1
  <2>2. n + 1 \in Int /\ Len(s) \in Int
    BY <1>1
  <2>3. /\ r \in Seq(Lines) /\ Len(r) = IF n + 1 <= Len(s) THEN Len(s) - (n + 1) + 1 ELSE 0
        /\ \A k \in 1 .. Len(s) - (n + 1) + 1 : r[k] = s[n + 1 + k - 1]
    BY <2>1, <2>2, SubSeqProperties
  <2> HIDE DEF r
  <2>4. \A k \in 1 .. Len(s) - n : n + 1 + k - 1 = n + k /\ k \in 1 .. Len(s) - (n + 1) + 1
    BY <1>1
  <2> QED
    BY <1>1, <2>3, <2>4
<1> HIDE DEF a, b, r
<1>5. r = <<>> => n = Len(s)
  BY <1>1, <1>4, EmptySeq
<1>6. a # <<>>
  BY <1>1, <1>2, EmptySeq
<1>7. r # <<>> => Len(r) \in 1 .. Len(s) - n /\ n + Len(r) = Len(s)
  BY <1>1, <1>4, EmptySeq
<1>8. r # <<>> => r[Len(r)] = s[Len(s)]
  BY <1>4, <1>7
<1>9. r = <<>> => a[Len(a)] = s[Len(s)]
  BY <1>1, <1>2, <1>5
<1> QED
  BY <1>2, <1>3, <1>4, <1>6, <1>8, <1>9 DEF a, b, r

\* What is left of a line that is cut in two is read next.
LEMMA Remnant ==
    ASSUME NEW r \in Seq(Lines), NEW l \in Lines
    PROVE  LET s == <<l>> \o r
           IN  /\ s \in Seq(Lines) /\ s # <<>>
               /\ s[Len(s)] = IF r = <<>> THEN l ELSE r[Len(r)]
  OBVIOUS

\* A line that is sent.
LEMMA Sent ==
    ASSUME NEW s \in Seq(Lines), NEW l \in Lines
    PROVE  /\ Append(s, l) \in Seq(Lines) /\ Append(s, l) # <<>>
           /\ Append(s, l)[Len(Append(s, l))] = l
  OBVIOUS
-------------------------------------------------------------------------------
(***************************************************************************)
(* Type correctness.                                                       *)
(***************************************************************************)
\* Every step moves within the program, and within the bounds.
LEMMA NextPlaces == ASSUME TypeInv, [Next]_vars PROVE Places'
<1> USE FooAssumption DEF TypeInv, Places, external, status, view
<1>0. changes \in Nat /\ losses \in Nat
  OBVIOUS
<1>1. CASE Change
  <2>1. player' \in Players /\ changes' \in 0 .. Changes
    BY <1>0, <1>1 DEF Change
  <2> QED
    BY <1>1, <2>1 DEF Change
<1>2. CASE Lose \/ Tick
  BY <1>0, <1>2 DEF Lose, Tick
<1>10. CASE SocketFails \/ ParseEmpty
  <2>1. losses' \in 0 .. Losses
    BY <1>0, <1>10 DEF SocketFails, ParseEmpty
  <2>2. UNCHANGED <<player, changes>>
    BY <1>10 DEF SocketFails, ParseEmpty, Restart
  <2>3. Restart
    BY <1>10 DEF SocketFails, ParseEmpty
  <2> QED
    BY <2>1, <2>2, <2>3 DEF Restart
<1>3. CASE Recv
  <2>1. losses' \in 0 .. Losses
    BY <1>0, <1>3 DEF Recv
  <2> QED
    BY <1>3, <2>1 DEF Recv
<1>11. CASE Connect \/ StoreArtist \/ Take \/ Store
  BY <1>11 DEF Connect, StoreArtist, Take, Store
<1>12. CASE Stamp \/ Give
  BY <1>12 DEF Stamp, Give
<1>4. CASE ParseBlock \/ SocketFailure \/ ClearPlaying
  BY <1>4 DEF ParseBlock, Parsed, NextLine, SocketFailure, ClearPlaying
<1>5. CASE FooView \/ UNCHANGED vars
  BY <1>5 DEF FooView, Compare, See, IsPlaying, GetArtist, GetTitle, Draw, Hide, vars
<1> QED
  BY <1>1, <1>2, <1>3, <1>4, <1>5, <1>10, <1>11, <1>12 DEF Next, FooTask

\* Every step leaves lines on their way, and one that is news in work.
LEMMA NextSequenced == ASSUME TypeInv, [Next]_vars PROVE Sequenced'
<1>0. /\ net \in Seq(Lines) /\ block \in Seq(Lines) /\ <<>> \in Seq(Lines)
      /\ block # <<>> => Tail(block) \in Seq(Lines)
  BY Handled, EmptySeq DEF TypeInv, Sequenced
<1>1. CASE Change
  <2>1. PICK p \in Players : net' = IF link = "up" THEN Append(net, Line(p)) ELSE net
    BY <1>1 DEF Change
  <2>2. Append(net, Line(p)) \in Seq(Lines)
    BY <1>0, Sent, LineFacts
  <2>3. net' \in Seq(Lines)
    BY <1>0, <2>1, <2>2
  <2> QED
    BY <1>1, <2>3 DEF Change, TypeInv, Sequenced
<1>2. CASE Lose \/ Tick
  BY <1>0, <1>2 DEF Lose, Tick, external, TypeInv, Sequenced
<1>3. CASE SocketFails \/ ParseEmpty
  BY <1>0, <1>3 DEF SocketFails, ParseEmpty, Restart, Sequenced
<1>4. CASE Connect
  <2>1. <<Banner, Line(player)>> \in Seq(Lines)
    <3>1. Banner \in Lines /\ Line(player) \in Lines
      BY LineFacts DEF TypeInv, Places
    <3> QED
      BY <3>1
  <2> QED
    BY <1>0, <1>4, <2>1 DEF Connect, TypeInv, Sequenced
<1>5. CASE Recv
  <2>1. PICK n \in 1 .. Len(net) :
            \/ block' = SubSeq(net, 1, n) /\ net' = SubSeq(net, n + 1, Len(net))
            \/ /\ block' = SubSeq(net, 1, n - 1)
               /\ net' \in {<<Rest>> \o SubSeq(net, n + 1, Len(net)),
                            <<RestEmpty>> \o SubSeq(net, n + 1, Len(net))}
    BY <1>5 DEF Recv
  <2>2. /\ SubSeq(net, 1, n) \in Seq(Lines) /\ SubSeq(net, 1, n - 1) \in Seq(Lines)
        /\ SubSeq(net, n + 1, Len(net)) \in Seq(Lines)
    BY <1>0, Read
  <2>3. /\ <<Rest>> \o SubSeq(net, n + 1, Len(net)) \in Seq(Lines)
        /\ <<RestEmpty>> \o SubSeq(net, n + 1, Len(net)) \in Seq(Lines)
    BY <2>2, Remnant, LineFacts
  <2>4. net' \in Seq(Lines) /\ block' \in Seq(Lines)
    BY <2>1, <2>2, <2>3
  <2> QED
    BY <1>5, <2>4 DEF Recv, Sequenced
<1>6. CASE ParseBlock
  BY <1>0, <1>6 DEF ParseBlock, Parsed, NextLine, News, external, TypeInv, Sequenced
<1>7. CASE StoreArtist \/ Take \/ Store \/ Stamp
  BY <1>0, <1>7 DEF StoreArtist, Take, Store, Stamp, external, TypeInv, Sequenced
<1>8. CASE Give \/ SocketFailure \/ ClearPlaying
  BY <1>0, <1>8 DEF Give, SocketFailure, ClearPlaying, external, TypeInv, Sequenced
<1>9. CASE FooView \/ UNCHANGED vars
  BY <1>9 DEF FooView, Compare, See, IsPlaying, GetArtist, GetTitle, Draw, Hide, vars, external,
              TypeInv, Sequenced
<1> QED
  BY <1>1, <1>2, <1>3, <1>4, <1>5, <1>6, <1>7, <1>8, <1>9 DEF Next, FooTask

\* Every step leaves tracks in the buffers.
LEMMA NextBuffers == ASSUME TypeInv, [Next]_vars PROVE Buffers'
<1>1. CASE Change \/ Lose \/ Tick
  BY <1>1 DEF Change, Lose, Tick, status, view, TypeInv, Buffers
<1>2. CASE SocketFails \/ ParseEmpty
  BY <1>2 DEF SocketFails, ParseEmpty, Restart, TypeInv, Buffers
<1>3. CASE Connect \/ Recv \/ ParseBlock \/ Take
  BY <1>3 DEF Connect, Recv, ParseBlock, Parsed, NextLine, Take, status, view, TypeInv, Buffers
<1>4. CASE StoreArtist \/ Store
  <2>1. Head(block).track \in Tracks
    BY <1>4, Handled, LineFacts DEF StoreArtist, Store, TypeInv, Sequenced
  <2> QED
    BY <1>4, <2>1 DEF StoreArtist, Store, view, TypeInv, Buffers
<1>5. CASE Stamp \/ Give \/ SocketFailure \/ ClearPlaying
  BY <1>5 DEF Stamp, Give, SocketFailure, ClearPlaying, status, view, TypeInv, Buffers
<1>6. CASE FooView \/ UNCHANGED vars
  BY <1>6 DEF FooView, Compare, See, IsPlaying, GetArtist, GetTitle, Draw, Hide, vars, status,
              view, TypeInv, Buffers
<1> QED
  BY <1>1, <1>2, <1>3, <1>4, <1>5, <1>6 DEF Next, FooTask

\* No step stamps ahead of the clock, or sees what is not stamped.
LEMMA NextClocks == ASSUME TypeInv, [Next]_vars PROVE Clocks'
<1>1. CASE Change \/ Lose \/ Tick \/ SocketFails \/ ParseEmpty
  BY <1>1 DEF Change, Lose, Tick, SocketFails, ParseEmpty, Restart, status, view, TypeInv, Clocks
<1>2. CASE FooTask /\ ~ParseEmpty
  BY <1>2 DEF FooTask, Connect, Recv, ParseBlock, StoreArtist, Take, Store, Stamp, Give,
              SocketFailure, ClearPlaying, status, view, TypeInv, Clocks
<1>3. CASE FooView \/ UNCHANGED vars
  BY <1>3 DEF FooView, Compare, See, IsPlaying, GetArtist, GetTitle, Draw, Hide, vars, status,
              view, TypeInv, Clocks
<1> QED
  BY <1>1, <1>2, <1>3 DEF Next

\* Every step.
LEMMA NextType == ASSUME TypeInv, [Next]_vars PROVE TypeInv'
  BY NextPlaces, NextSequenced, NextBuffers, NextClocks DEF TypeInv

\* A new run.
LEMMA InitType == ASSUME Init PROVE TypeInv
<1>1. player \in Players /\ changes \in 0 .. Changes /\ losses \in 0 .. Losses
  BY FooAssumption DEF Init
<1>2. Sequenced
  BY EmptySeq DEF Init, Sequenced
<1>3. Buffers
  BY DEF Init, Buffers
<1>4. Clocks
  BY DEF Init, Clocks
<1>5. Places
  BY <1>1 DEF Init, Places
<1> QED
  BY <1>2, <1>3, <1>4, <1>5 DEF TypeInv

(***************************************************************************)
(* The client's variables stay in their types: lines are cut and put back, *)
(* never made up, and neither last_recv runs ahead of the clock nor        *)
(* last_foo of last_recv.                                                  *)
(***************************************************************************)
THEOREM TypeCorrect == FairSpec => []TypeOK
<1>1. TypeInv => TypeOK
  BY DEF TypeInv, Places, Sequenced, Buffers, Clocks, TypeOK
<1> QED
  BY <1>1, InitType, NextType, PTL DEF FairSpec
-------------------------------------------------------------------------------
(***************************************************************************)
(* What the view shows.                                                    *)
(***************************************************************************)
\* The steps of the view, of the server and of the clock leave foo_task alone.
LEMMA Others ==
    ASSUME Change \/ Lose \/ Tick \/ FooView
    PROVE  UNCHANGED <<pc, block, status>>
  BY DEF Change, Lose, Tick, FooView, Compare, See, IsPlaying, GetArtist, GetTitle, Draw, Hide,
         status, view

\* A line goes into the buffers as foo_task comes to it.
LEMMA NextInWork == ASSUME TypeInv, InWork, [Next]_vars PROVE InWork'
<1>1. CASE Change \/ Lose \/ Tick \/ FooView
  BY <1>1, Others DEF InWork, Stored, status
<1>2. CASE SocketFails \/ ParseEmpty
  BY <1>2 DEF SocketFails, ParseEmpty, Restart, InWork
<1>3. CASE Connect \/ Recv \/ ParseBlock \/ Give \/ SocketFailure \/ ClearPlaying
  BY <1>3 DEF Connect, Recv, ParseBlock, Parsed, NextLine, Give, SocketFailure, ClearPlaying,
              InWork, TypeInv, Places
<1>4. CASE StoreArtist \/ Take \/ Store \/ Stamp
  BY <1>4 DEF StoreArtist, Take, Store, Stamp, InWork, Stored, status
<1>5. CASE UNCHANGED vars
  BY <1>5 DEF vars, status, InWork, Stored
<1> QED
  BY <1>1, <1>2, <1>3, <1>4, <1>5 DEF Next, FooTask

\* A step that handles no line keeps what is to be handled, and at most misses something.
LEMMA QuietUpToDate ==
    ASSUME UpToDate, UNCHANGED <<player, link, net, pc, block, status>>, missed => missed'
    PROVE  UpToDate'
  BY DEF UpToDate, Newest, Stored, status

\* The first line of the block is dropped when it is in the status, or is missed.
LEMMA DropUpToDate ==
    ASSUME TypeInv, UpToDate, UNCHANGED <<player, link, net, status>>, missed => missed',
           pc' = "parse", block # <<>>, block' = Tail(block),
           \/ missed'
           \/ News(Head(block)) /\ Stored(Head(block)) /\ last_recv # 0
    PROVE  UpToDate'
<1> SUFFICES ASSUME link = "up"
             PROVE  /\ net # <<>> \/ block' # <<>> =>
                          Newest' \in {Line(player), Rest, RestEmpty}
                    /\ net = <<>> /\ block' = <<>> /\ ~missed' =>
                          Stored(Line(player)) /\ last_recv # 0
  BY DEF UpToDate, Stored, status
<1>1. /\ block' = <<>> => block[Len(block)] = Head(block)
      /\ block' # <<>> => block'[Len(block')] = block[Len(block)]
  BY Handled DEF TypeInv, Sequenced
<1>2. Newest \in {Line(player), Rest, RestEmpty}
  BY DEF UpToDate
<1>3. net # <<>> \/ block' # <<>> => Newest' = Newest
  BY <1>1 DEF Newest
<1>4. net = <<>> /\ block' = <<>> => Head(block) \in {Line(player), Rest, RestEmpty}
  BY <1>1, <1>2 DEF Newest
<1> QED
  BY <1>2, <1>3, <1>4, LineFacts

\* Every step keeps it so.
LEMMA NextUpToDate == ASSUME TypeInv, InWork, UpToDate, Failed, [Next]_vars PROVE UpToDate'
<1>1. CASE Change
  <2>1. /\ player' \in Players /\ UNCHANGED <<link, pc, block, status, missed>>
        /\ net' = IF link = "up" THEN Append(net, Line(player')) ELSE net
    BY <1>1 DEF Change
  <2>2. /\ Append(net, Line(player')) # <<>>
        /\ LET s == Append(net, Line(player')) IN s[Len(s)] = Line(player')
    BY <2>1, Sent, LineFacts DEF TypeInv, Sequenced
  <2>3. link = "up" => net' # <<>> /\ Newest' = Line(player')
    BY <2>1, <2>2 DEF Newest
  <2> QED
    BY <2>1, <2>3 DEF UpToDate, Line
<1>2. CASE Lose
  BY <1>2 DEF Lose, UpToDate
<1>3. CASE Tick \/ FooView
  <2>1. missed => missed'
    BY <1>3 DEF Tick, FooView, Compare, See, IsPlaying, GetArtist, GetTitle, Draw, Hide
  <2>2. UNCHANGED external
    BY <1>3 DEF Tick, FooView, Compare, See, IsPlaying, GetArtist, GetTitle, Draw, Hide
  <2> QED
    BY <1>3, <2>1, <2>2, Others, QuietUpToDate DEF external
<1>4. CASE SocketFails \/ ParseEmpty
  BY <1>4 DEF SocketFails, ParseEmpty, Restart, UpToDate
<1>5. CASE Connect
  BY <1>5 DEF Connect, UpToDate, Newest, TypeInv, Sequenced
<1>6. CASE Recv
  <2>1. PICK n \in 1 .. Len(net) :
            \/ block' = SubSeq(net, 1, n) /\ net' = SubSeq(net, n + 1, Len(net))
            \/ net' \in {<<Rest>> \o SubSeq(net, n + 1, Len(net)),
                         <<RestEmpty>> \o SubSeq(net, n + 1, Len(net))}
    BY <1>6 DEF Recv
  <2> DEFINE r == SubSeq(net, n + 1, Len(net))
             b == SubSeq(net, 1, n)
  <2>2. /\ r \in Seq(Lines)
        /\ r = <<>> => b # <<>> /\ b[Len(b)] = net[Len(net)]
        /\ r # <<>> => r[Len(r)] = net[Len(net)]
    BY Read DEF TypeInv, Sequenced
  <2> DEFINE s1 == <<Rest>> \o r
             s2 == <<RestEmpty>> \o r
  <2>3. s1 # <<>> /\ s1[Len(s1)] = IF r = <<>> THEN Rest ELSE r[Len(r)]
    BY <2>2, Remnant, LineFacts
  <2>4. s2 # <<>> /\ s2[Len(s2)] = IF r = <<>> THEN RestEmpty ELSE r[Len(r)]
    BY <2>2, Remnant, LineFacts
  <2>5. (block' = b /\ net' = r) \/ net' = s1 \/ net' = s2
    BY <2>1
  <2>6. /\ net # <<>> /\ Newest = net[Len(net)] /\ pc' = "parse"
        /\ UNCHANGED <<player, link, status, missed>>
    BY <1>6 DEF Recv, Newest
  <2> HIDE DEF r, b, s1, s2
  <2>7. net' # <<>> \/ block' # <<>>
    BY <2>2, <2>3, <2>4, <2>5
  <2>8. Newest' \in {Newest, Rest, RestEmpty}
    BY <2>2, <2>3, <2>4, <2>5, <2>6 DEF Newest
  <2> QED
    BY <2>6, <2>7, <2>8 DEF UpToDate
<1>7. CASE ParseBlock
  <2>1. CASE Parsed
    BY <1>7, <2>1 DEF ParseBlock, Parsed, UpToDate, Newest, Stored, external
  <2>2. CASE NextLine /\ News(Head(block))
    BY <1>7, <2>2 DEF ParseBlock, NextLine, News, UpToDate, Newest, external
  <2>3. CASE NextLine /\ ~News(Head(block))
    <3>1. /\ block # <<>> /\ block' = Tail(block) /\ missed' = (missed \/ Head(block) = Rest)
          /\ UNCHANGED <<player, link, net, status, pc>> /\ pc = "parse" /\ Head(block).type # ""
      BY <1>7, <2>3 DEF ParseBlock, NextLine, News, external, status
    <3>2. /\ block' = <<>> => block[Len(block)] = Head(block)
          /\ block' # <<>> => block'[Len(block')] = block[Len(block)]
      BY <3>1, Handled DEF TypeInv, Sequenced
    <3> SUFFICES ASSUME link = "up"
                 PROVE  /\ net # <<>> \/ block' # <<>> =>
                              Newest' \in {Line(player), Rest, RestEmpty}
                        /\ ~(net = <<>> /\ block' = <<>> /\ ~missed')
      BY <3>1 DEF UpToDate, Stored, status
    <3>3. Newest \in {Line(player), Rest, RestEmpty}
      BY <3>1 DEF UpToDate
    <3>4. net # <<>> \/ block' # <<>> => Newest' = Newest
      BY <3>1, <3>2 DEF Newest
    <3>5. net = <<>> /\ block' = <<>> => Head(block) = Newest
      BY <3>1, <3>2 DEF Newest
    <3> QED
      BY <2>3, <3>1, <3>3, <3>4, <3>5, LineFacts DEF TypeInv, Places
  <2> QED
    BY <1>7, <2>1, <2>2, <2>3 DEF ParseBlock
<1>8. CASE StoreArtist \/ Store \/ Stamp
  BY <1>8 DEF StoreArtist, Store, Stamp, UpToDate, Newest, external, TypeInv, Sequenced
<1>9. CASE Take
  <2>1. CASE UNCHANGED <<block, missed>>
    BY <1>9, <2>1 DEF Take, UpToDate, Newest, Stored, external, status
  <2>2. CASE pc' = "parse" /\ block' = Tail(block) /\ missed' = TRUE
    BY <1>9, <2>2, DropUpToDate DEF Take, external, TypeInv, Sequenced
  <2> QED
    BY <1>9, <2>1, <2>2 DEF Take
<1>10. CASE Give
  BY <1>10, DropUpToDate DEF Give, external, TypeInv, Sequenced, InWork, Failed
<1>11. CASE SocketFailure \/ ClearPlaying
  BY <1>11 DEF SocketFailure, ClearPlaying, UpToDate, Failed, external
<1>12. CASE UNCHANGED vars
  BY <1>12, QuietUpToDate DEF vars, external
<1> QED
  BY <1>1, <1>2, <1>3, <1>4, <1>5, <1>6, <1>7, <1>8, <1>9, <1>10, <1>11, <1>12
     DEF Next, FooTask

\* The status of a failed connection is cleared before foo_task connects again.
LEMMA NextFailed == ASSUME TypeInv, UpToDate, Failed, [Next]_vars PROVE Failed'
<1>1. CASE Change \/ Lose \/ Tick
  BY <1>1 DEF Change, Lose, Tick, external, status, view, Failed, UpToDate
<1>2. CASE SocketFails \/ ParseEmpty
  BY <1>2 DEF SocketFails, ParseEmpty, Restart, Failed
<1>3. CASE Connect \/ Recv \/ ParseBlock \/ StoreArtist \/ Take \/ Store \/ Give
  BY <1>3 DEF Connect, Recv, ParseBlock, Parsed, NextLine, StoreArtist, Take, Store, Give,
              Failed, TypeInv, Places
<1>4. CASE Stamp \/ SocketFailure \/ ClearPlaying
  BY <1>4 DEF Stamp, SocketFailure, ClearPlaying, external, status, view, Failed, TypeInv, Clocks
<1>5. CASE FooView
  <2>1. UNCHANGED <<external, pc, status>>
    BY <1>5, Others DEF FooView, Compare, See, IsPlaying, GetArtist, GetTitle, Draw, Hide
  <2>2. missed => missed'
    BY <1>5 DEF FooView, Compare, See, IsPlaying, GetArtist, GetTitle, Draw, Hide
  <2>3. last_foo' # last_foo /\ pc = "clear" => missed'
    BY <1>5 DEF FooView, Compare, See, IsPlaying, GetArtist, GetTitle, Draw, Hide
  <2> QED
    BY <2>1, <2>2, <2>3 DEF Failed, external, status
<1>6. CASE UNCHANGED vars
  BY <1>6 DEF vars, external, status, view, Failed
<1> QED
  BY <1>1, <1>2, <1>3, <1>4, <1>5, <1>6 DEF Next, FooTask

\* Every step of either task keeps what the view has read since the last stamp.
LEMMA NextSeen == ASSUME TypeInv, Failed, Seen, [Next]_vars PROVE Seen'
<1>1. CASE Change \/ Lose \/ Tick
  BY <1>1 DEF Change, Lose, Tick, status, view, Seen, Viewed
<1>2. CASE SocketFails \/ ParseEmpty
  BY <1>2 DEF SocketFails, ParseEmpty, Restart, Seen, Viewed
<1>3. CASE Connect \/ Recv \/ Give
  BY <1>3 DEF Connect, Recv, Give, status, view, Seen, Viewed
<1>4. CASE ParseBlock
  <2>1. CASE pc' = "artist"
    BY <2>1 DEF Seen
  <2>2. CASE pc' # "artist"
    BY <1>4, <2>2 DEF ParseBlock, Parsed, NextLine, view, Seen, Viewed
  <2> QED
    BY <2>1, <2>2
<1>5. CASE StoreArtist \/ Take \/ Store
  BY <1>5 DEF StoreArtist, Take, Store, Seen
<1>6. CASE Stamp \/ SocketFailure
  BY <1>6 DEF Stamp, SocketFailure, view, Seen
<1>7. CASE ClearPlaying
  BY <1>7 DEF ClearPlaying, view, Seen, Failed
<1>8. CASE FooView
  <2>1. CASE Compare
    BY <2>1 DEF Compare, status, Seen
  <2>2. CASE See
    BY <2>2 DEF See, Seen, Viewed
  <2>3. CASE IsPlaying
    BY <2>3 DEF IsPlaying, status, Seen, Viewed, TypeInv, Buffers
  <2>4. CASE GetArtist
    BY <2>4 DEF GetArtist, status, Seen, Viewed
  <2>5. CASE GetTitle
    BY <2>5 DEF GetTitle, status, Seen, Viewed
  <2>6. CASE Draw
    BY <2>6 DEF Draw, status, Seen, Viewed
  <2>7. CASE Hide
    BY <2>7 DEF Hide, status, Seen, Viewed
  <2> QED
    BY <1>8, <2>1, <2>2, <2>3, <2>4, <2>5, <2>6, <2>7 DEF FooView
<1>9. CASE UNCHANGED vars
  BY <1>9 DEF vars, status, view, Seen, Viewed
<1> QED
  BY <1>1, <1>2, <1>3, <1>4, <1>5, <1>6, <1>7, <1>8, <1>9 DEF Next, FooTask

\* A new run has shown nothing.
LEMMA InitFoo == ASSUME Init PROVE FooInv
  BY DEF Init, FooInv, InWork, UpToDate, Failed, Seen, Viewed

(***************************************************************************)
(* When all that was sent has been handled and the view has looked, the    *)
(* board shows what is played, artist and title of one track; nothing when *)
(* nothing is, or when the connection has failed.  Left out are the four   *)
(* ways in which the code misses a change.                                 *)
(***************************************************************************)
THEOREM ShowsPlayedAlways == FairSpec => []ShowsPlayed
<1>1. TypeInv /\ FooInv /\ [Next]_vars => FooInv'
  BY NextInWork, NextUpToDate, NextFailed, NextSeen DEF FooInv
<1>2. TypeInv /\ FooInv => ShowsPlayed
  <2> SUFFICES ASSUME TypeInv, FooInv, viewPc = "idle", last_foo = last_recv, ~missed
               PROVE  /\ link = "up" /\ pc = "recv" /\ net = <<>> => shown = Display(player)
                      /\ link = "failed" /\ pc = "connect" => shown = Dark
    BY DEF ShowsPlayed
  <2>1. CASE link = "up" /\ pc = "recv" /\ net = <<>>
    <3>1. Stored(Line(player)) /\ last_recv # 0
      BY <2>1 DEF FooInv, UpToDate, TypeInv, Sequenced
    <3>2. shown = IF play_sts THEN <<artist, title>> ELSE Dark
      BY <2>1, <3>1 DEF FooInv, Seen, Viewed
    <3>3. artist = player.track /\ title = player.track /\ play_sts = player.on
      BY <3>1, LineFacts DEF Stored, TypeInv, Places
    <3> QED
      BY <2>1, <3>2, <3>3 DEF Display
  <2>2. CASE link = "failed" /\ pc = "connect"
    BY <2>2 DEF FooInv, Failed, Seen, Viewed
  <2> QED
    BY <2>1, <2>2
<1> QED
  BY <1>1, <1>2, InitType, InitFoo, NextType, PTL DEF FairSpec
===============================================================================
