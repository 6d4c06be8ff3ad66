------------------------------- MODULE FooClient -------------------------------
(***************************************************************************)
(* The foobar2000 client (src/service/foo_client.cpp) and its view         *)
(* (include/views/view_foo.h).  foo_task receives lines from a server and  *)
(* keeps the last one in static variables; the main task looks whether     *)
(* last_recv has changed, and reads them one by one.  artist_buf and       *)
(* last_recv, and on a failure play_sts, are written or read without the   *)
(* semaphore.                                                              *)
(*                                                                         *)
(* External: the player and its server, which sends a banner and the state *)
(* of the player on connection, then every change; the connection; and     *)
(* what the message manager makes of update and hide (Firmware), the       *)
(* application being IDLE.  An exception or the end of a task restarts the *)
(* ESP32; the board keeps what it shows.                                   *)
(***************************************************************************)
EXTENDS Naturals, Sequences

CONSTANTS Tracks,       \* artist and title of what is played
          Changes,      \* bound: changes of the player
          Losses,       \* bound: connections lost, lines cut in two,
                        \* and sockets that are not to be had
          Blank,        \* an empty buffer
          Torn,         \* a buffer read while it is written
          Dark          \* the view's message is not shown

ASSUME FooAssumption == Changes \in Nat /\ Losses \in Nat

VARIABLES
    player, changes,        \* what is played, and how often it changed
    link, losses, net,      \* the connection, and the lines on their way
    pc, block,              \* foo_task, and what it has yet to parse
    artist, title, play_sts, last_recv,
    now,                    \* xTaskGetTickCount
    viewPc, last_foo,       \* FooView::update
    vArtist, vTitle,        \* its local buffers
    shown,                  \* the view's message on the board
    missed                  \* auxiliary: the view has no reason to look again
                            \* at what changed, or a line was not understood

external == <<player, changes, link, losses, net>>
status == <<artist, title, play_sts, last_recv>>
view == <<viewPc, last_foo, vArtist, vTitle, shown>>
vars == <<external, pc, block, status, now, view, missed>>

Players == [on : BOOLEAN, track : Tracks]
Line(p) == [type |-> IF p.on THEN "111" ELSE "112", track |-> p.track]

\* Lines that are no news of the player: the server's banner, and what is left
\* of a line whose beginning was read before: with a separator in it, or none.
NoTrack == "none"
Banner == [type |-> "999", track |-> NoTrack]
Rest == [type |-> "0", track |-> NoTrack]
RestEmpty == [type |-> "", track |-> NoTrack]
Lines == {Line(p) : p \in Players} \cup {Banner, Rest, RestEmpty}

Display(p) == IF p.on THEN <<p.track, p.track>> ELSE Dark

\* foo_task has the semaphore.  The view takes it for single reads only.
Held == pc \in {"store", "stamp", "give"}

TypeOK ==
    /\ player \in Players /\ changes \in 0 .. Changes
    /\ link \in {"none", "up", "closed", "failed"} /\ losses \in 0 .. Losses
    /\ net \in Seq(Lines) /\ block \in Seq(Lines)
    /\ pc \in {"connect", "recv", "parse", "artist", "take", "store", "stamp", "give", "clear"}
    /\ artist \in Tracks \cup {Blank, Torn}
    /\ title \in Tracks \cup {Blank}
    /\ play_sts \in BOOLEAN
    /\ last_recv \in 0 .. now /\ last_foo \in 0 .. last_recv
    /\ viewPc \in {"idle", "see", "playing", "artist", "title", "draw", "hide"}
    /\ vArtist \in Tracks \cup {Blank, Torn} /\ vTitle \in Tracks \cup {Blank}
    /\ shown \in {Dark} \cup (Tracks \cup {Blank, Torn}) \X (Tracks \cup {Blank})
    /\ missed \in BOOLEAN

Init ==
    /\ player \in {p \in Players : ~p.on} /\ changes = 0   \* a bound
    /\ link = "none" /\ losses = 0 /\ net = <<>>
    /\ pc = "connect" /\ block = <<>>
    /\ artist = Blank /\ title = Blank /\ play_sts = FALSE /\ last_recv = 0
    /\ now = 1
    /\ viewPc = "idle" /\ last_foo = 0 /\ vArtist = Blank /\ vTitle = Blank
    /\ shown = Dark
    /\ missed = FALSE

Restart ==
    /\ link' = "none" /\ net' = <<>>
    /\ pc' = "connect" /\ block' = <<>>
    /\ artist' = Blank /\ title' = Blank /\ play_sts' = FALSE /\ last_recv' = 0
    /\ now' = 1
    /\ viewPc' = "idle" /\ last_foo' = 0 /\ vArtist' = Blank /\ vTitle' = Blank
    /\ missed' = FALSE
    /\ UNCHANGED <<player, changes, shown>>
-------------------------------------------------------------------------------
(***************************************************************************)
(* External.                                                               *)
(***************************************************************************)
Change ==
    /\ changes < Changes
    /\ changes' = changes + 1
    /\ \E p \in Players \ {player} :
          /\ player' = p
          /\ net' = IF link = "up" THEN Append(net, Line(p)) ELSE net
    /\ UNCHANGED <<link, losses, pc, block, status, now, view, missed>>

\* The server closes the connection, or it fails with all that is on its way.
Lose ==
    /\ link = "up" /\ losses < Losses
    /\ losses' = losses + 1
    /\ \/ link' = "closed" /\ UNCHANGED net
       \/ link' = "failed" /\ net' = <<>>
    /\ UNCHANGED <<player, changes, pc, block, status, now, view, missed>>

\* Ticks between which nothing is stamped are not told apart.
Tick ==
    /\ now = last_recv
    /\ now' = now + 1
    /\ UNCHANGED <<external, pc, block, status, view, missed>>
-------------------------------------------------------------------------------
(***************************************************************************)
(* foo_task.                                                               *)
(***************************************************************************)
\* connect succeeds.  One that fails is tried again after 5 s.
Connect ==
    /\ pc = "connect"
    /\ link' = "up" /\ net' = <<Banner, Line(player)>>
    /\ pc' = "recv"
    /\ UNCHANGED <<player, changes, losses, block, status, now, view, missed>>

\* No socket: the task's function returns, which FreeRTOS does not allow.
SocketFails ==
    /\ pc = "connect"
    /\ losses < Losses /\ losses' = losses + 1
    /\ Restart

\* A block ends with a line, or within one.  After the server has closed the
\* connection and all has been read, recv returns 0 for ever.
Recv ==
    /\ pc = "recv" /\ net # <<>>
    /\ \E n \in 1 .. Len(net) :
          LET rest == SubSeq(net, n + 1, Len(net))
          IN  \/ block' = SubSeq(net, 1, n) /\ net' = rest /\ UNCHANGED losses
              \/ /\ net[n].type \in {"111", "112"}
                 /\ block' = SubSeq(net, 1, n - 1)
                 /\ net' \in {<<Rest>> \o rest, <<RestEmpty>> \o rest}
                 /\ losses < Losses /\ losses' = losses + 1
    /\ pc' = "parse"
    /\ UNCHANGED <<player, changes, link, status, now, view, missed>>

Parsed == block = <<>> /\ pc' = "recv" /\ UNCHANGED <<block, artist, missed>>

\* Mutated forms: every line is news of the player; a line that is none ends
\* the block.
NextLineAny ==
    /\ block # <<>>
    /\ artist' = Torn /\ pc' = "artist"
    /\ UNCHANGED <<block, missed>>

NextLineStops ==
    /\ block # <<>>
    /\ IF Head(block).type \in {"111", "112"}
       THEN artist' = Torn /\ pc' = "artist" /\ UNCHANGED <<block, missed>>
       ELSE block' = <<>> /\ missed' = (missed \/ Head(block) = Rest) /\ UNCHANGED <<pc, artist>>

NextLine ==
    /\ block # <<>>
    /\ IF Head(block).type \in {"111", "112"}
       THEN artist' = Torn /\ pc' = "artist" /\ UNCHANGED <<block, missed>>
       ELSE /\ Head(block).type # ""
            /\ block' = Tail(block)
            /\ missed' = (missed \/ Head(block) = Rest)
            /\ UNCHANGED <<pc, artist>>

ParseBlock ==
    /\ pc = "parse"
    /\ Parsed \/ NextLine
    /\ UNCHANGED <<external, title, play_sts, last_recv, now, view>>

\* atoi is given the null pointer that parse_field returns for a missing field.
ParseEmpty == pc = "parse" /\ block # <<>> /\ Head(block) = RestEmpty /\ Restart /\ UNCHANGED losses

StoreArtist ==
    /\ pc = "artist"
    /\ artist' = Head(block).track
    /\ pc' = "take"
    /\ UNCHANGED <<external, block, title, play_sts, last_recv, now, view, missed>>

Take ==
    /\ pc = "take"
    /\ \/ pc' = "store" /\ UNCHANGED <<block, missed>>
       \/ \* The view has had the semaphore for a second.
          /\ viewPc \in {"playing", "artist", "title"}
          /\ pc' = "parse" /\ block' = Tail(block) /\ missed' = TRUE
    /\ UNCHANGED <<external, status, now, view>>

Store ==
    /\ pc = "store"
    /\ play_sts' = (Head(block).type = "111")
    /\ title' = Head(block).track
    /\ pc' = "stamp"
    /\ UNCHANGED <<external, block, artist, last_recv, now, view, missed>>

Stamp ==
    /\ pc = "stamp"
    /\ last_recv' = now
    /\ missed' = (now = last_foo)
    /\ pc' = "give"
    /\ UNCHANGED <<external, block, artist, title, play_sts, now, view>>

Give ==
    /\ pc = "give"
    /\ block' = Tail(block) /\ pc' = "parse"
    /\ UNCHANGED <<external, status, now, view, missed>>

\* recv reports a failure: last_recv first, play_sts after it.
SocketFailure ==
    /\ pc = "recv" /\ link = "failed"
    /\ last_recv' = now
    /\ missed' = (now = last_foo)
    /\ pc' = "clear"
    /\ UNCHANGED <<external, block, artist, title, play_sts, now, view>>

ClearPlaying ==
    /\ pc = "clear"
    /\ play_sts' = FALSE
    /\ pc' = "connect"
    /\ UNCHANGED <<external, block, artist, title, last_recv, now, view, missed>>

FooTask ==
    \/ Connect \/ Recv \/ ParseBlock \/ ParseEmpty \/ StoreArtist \/ Take \/ Store
    \/ Stamp \/ Give \/ SocketFailure \/ ClearPlaying
-------------------------------------------------------------------------------
(***************************************************************************)
(* FooView::update, called by loop.                                        *)
(***************************************************************************)
Compare ==
    /\ viewPc = "idle" /\ last_foo # last_recv
    /\ viewPc' = "see"
    /\ UNCHANGED <<external, pc, block, status, now, last_foo, vArtist, vTitle, shown, missed>>

See ==
    /\ viewPc = "see"
    /\ last_foo' = last_recv
    /\ missed' = (missed \/ pc = "clear")
    /\ viewPc' = "playing"
    /\ UNCHANGED <<external, pc, block, status, now, vArtist, vTitle, shown>>

\* The three reads.  Where foo_task has the semaphore, one may also time out.
IsPlaying ==
    /\ viewPc = "playing"
    /\ \/ ~Held /\ viewPc' = (IF play_sts THEN "artist" ELSE "hide") /\ UNCHANGED missed
       \/ Held /\ viewPc' = "hide" /\ missed' = TRUE
    /\ UNCHANGED <<external, pc, block, status, now, last_foo, vArtist, vTitle, shown>>

GetArtist ==
    /\ viewPc = "artist"
    /\ \/ ~Held /\ vArtist' = artist /\ UNCHANGED missed
       \/ Held /\ missed' = TRUE /\ UNCHANGED vArtist
    /\ viewPc' = "title"
    /\ UNCHANGED <<external, pc, block, status, now, last_foo, vTitle, shown>>

GetTitle ==
    /\ viewPc = "title"
    /\ \/ ~Held /\ vTitle' = title /\ UNCHANGED missed
       \/ Held /\ missed' = TRUE /\ UNCHANGED vTitle
    /\ viewPc' = "draw"
    /\ UNCHANGED <<external, pc, block, status, now, last_foo, vArtist, shown>>

\* Mutated form: the view notes what it has drawn only now.
DrawThenSee ==
    /\ viewPc = "draw"
    /\ shown' = <<vArtist, vTitle>>
    /\ last_foo' = last_recv
    /\ viewPc' = "idle" /\ vArtist' = Blank /\ vTitle' = Blank
    /\ UNCHANGED <<external, pc, block, status, now, missed>>

Draw ==
    /\ viewPc = "draw"
    /\ shown' = <<vArtist, vTitle>>
    /\ viewPc' = "idle" /\ vArtist' = Blank /\ vTitle' = Blank
    /\ UNCHANGED <<external, pc, block, status, now, last_foo, missed>>

Hide ==
    /\ viewPc = "hide"
    /\ shown' = Dark
    /\ viewPc' = "idle"
    /\ UNCHANGED <<external, pc, block, status, now, last_foo, vArtist, vTitle, missed>>

FooView == Compare \/ See \/ IsPlaying \/ GetArtist \/ GetTitle \/ Draw \/ Hide

Next == Change \/ Lose \/ Tick \/ SocketFails \/ FooTask \/ FooView

\* Two tasks, neither of which waits for ever for the other; the server can be
\* reached in the end.
FairSpec == Init /\ [][Next]_vars /\ WF_vars(FooTask) /\ WF_vars(FooView)
-------------------------------------------------------------------------------
(***************************************************************************)
(* When all that was sent has been handled and the view has looked, the    *)
(* board shows what is played, artist and title of one track, or nothing   *)
(* where nothing is played or the connection has failed.  Left out is what *)
(* the code does miss: lines cut in two, a second change within the tick   *)
(* the view has just seen, play_sts cleared after the view has acted on    *)
(* the stamp, and waits for the semaphore that time out.                   *)
(***************************************************************************)
ShowsPlayed ==
    viewPc = "idle" /\ last_foo = last_recv /\ ~missed =>
        /\ link = "up" /\ pc = "recv" /\ net = <<>> => shown = Display(player)
        /\ link = "failed" /\ pc = "connect" => shown = Dark

(***************************************************************************)
(* While the connection lasts, what is played is shown in the end, or      *)
(* something else is played, with the same exceptions.                     *)
(***************************************************************************)
IsShown ==
    \A p \in Players :
        player = p /\ link = "up" ~>
            shown = Display(p) \/ player # p \/ link # "up" \/ missed
===============================================================================
