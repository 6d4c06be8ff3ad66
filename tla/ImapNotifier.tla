------------------------------ MODULE ImapNotifier ------------------------------
(***************************************************************************)
(* A mail notifier (src/service/imap/client.cpp) and the server it talks   *)
(* to.  The notifier logs in, selects the inbox, searches it for unread    *)
(* mail, fetches the headers one by one and then lets the server tell it   *)
(* of changes (IMAP's IDLE).  It tags every command A001 and tells the     *)
(* replies apart by the state it is in.                                    *)
(*                                                                         *)
(* The server is external.  It answers commands in order, and reports      *)
(* changes of the mailbox only while the notifier idles.  A mail has a     *)
(* number, its position in the session's view of the mailbox: new mail is  *)
(* appended by EXISTS, a deleted one leaves by EXPUNGE, which is followed  *)
(* by an EXISTS.  It offers IDLE in a CAPABILITY line when one logs in.    *)
(***************************************************************************)
EXTENDS Naturals, FiniteSets, SequencesExt

CONSTANTS
    MailCount,  \* mails that ever arrive; they are 1 .. MailCount
    LineIds,    \* numbers of a SEARCH line that fit into rxbuf
    World,      \* what may happen to the notifier, of the names below
    Drops       \* how often a connection may end (a bound)

Happenings == {"reset",     \* a connection fails: reads return an error
               "closed",    \* the server closes one: reads return 0
               "outage",    \* the network fails and comes back
               "refuse",    \* the server refuses a command
               "split",     \* a line arrives in two parts
               "delete"}    \* somebody deletes mail

ASSUME ImapAssumption ==
    /\ MailCount \in Nat \ {0} /\ LineIds \in Nat /\ Drops \in Nat
    /\ World \subseteq Happenings

Mails == 1 .. MailCount
Numbers == 1 .. MailCount
None == 0       \* no mail, no number: both count from 1

VARIABLES
    state,          \* imap_state_t
    task,           \* "none" before it is created, "running", "deleted"
    known,          \* known_ids
    queue,          \* download_queue
    fetching,       \* the number download_one waits for, or None
    expunged,       \* did_just_expunge
    idleSupported,  \* idle_supported
    rx,             \* rxbuf: "empty", "part" of the line to come, or what a
                    \* lost connection left: a part of a tagged line or another
    conn,           \* "none", "open", "reset", "closed"
    net,            \* whether the network works
    drops,          \* connections that have ended
    toServer,       \* commands under way
    toClient,       \* lines under way
    arrived,        \* mails that have arrived so far
    box,            \* mails in the mailbox
    unread,         \* those without the flag \Seen
    view,           \* the session's mailbox: mails by number
    told,           \* mails whose \Seen the session need not report
    idling,         \* the server has accepted IDLE
    shown,          \* what the callback was last told of each number (auxiliary)
    leftover        \* what outlived a connection: "queue", that is, numbers in
                    \* download_queue; "line", a joined line (auxiliary)

others == <<task, queue, fetching, idleSupported>>
progress == <<state, others>>
notes == <<known, shown, expunged, leftover>>
line == <<conn, net, drops>>
mailbox == <<arrived, box, unread>>
session == <<view, told, idling>>
vars == <<progress, notes, rx, line, toServer, toClient, mailbox, session>>

Command(c) == [c |-> c, n |-> None]
Fetch(n) == [c |-> "FETCH", n |-> n]
Commands == {Command(c) : c \in {"LOGIN", "SELECT", "SEARCH", "IDLE", "DONE"}}
                \cup {Fetch(n) : n \in Numbers}

\* m is the mail whose header came with the reply to FETCH.
Tagged(k, c, m) == [k |-> k, of |-> c, m |-> m]
Ok(c) == Tagged("ok", c, None)
IsTagged(l) == l.k \in {"ok", "no", "bad"}

States == {"DISCONNECT", "CONNECT", "AUTHING", "SELECTING", "CHECKING", "IDLE"}
Lines ==
    [k : {"ok", "no", "bad"}, of : {"LOGIN", "SELECT", "SEARCH", "FETCH", "IDLE"}, m : 0 .. MailCount]
        \cup [k : {"capability", "exists"}]
        \cup [k : {"seen", "expunge"}, n : Numbers]
        \cup [k : {"search"}, ids : SUBSET Numbers]

TypeOK ==
    /\ state \in States /\ task \in {"none", "running", "deleted"}
    /\ known \subseteq Numbers /\ queue \in Seq(Numbers)
    /\ fetching \in Numbers \cup {None}
    /\ expunged \in BOOLEAN /\ idleSupported \in BOOLEAN
    /\ leftover \subseteq {"queue", "line"}
    /\ rx \in {"empty", "part", "junk", "junk tag", "junk capability"}
    /\ conn \in {"none", "open", "reset", "closed"} /\ net \in BOOLEAN
    /\ drops \in 0 .. Drops
    /\ toServer \in Seq(Commands) /\ toClient \in Seq(Lines)
    /\ arrived \in 0 .. MailCount /\ box \subseteq 1 .. arrived /\ unread \subseteq box
    /\ view \in Seq(Mails) /\ told \subseteq Mails /\ idling \in BOOLEAN
    /\ shown \in [Numbers -> Mails \cup {None}]

Init ==
    /\ state = "DISCONNECT" /\ task = "none"
    /\ known = {} /\ queue = <<>> /\ fetching = None
    /\ expunged = FALSE /\ idleSupported = FALSE /\ rx = "empty"
    /\ conn = "none" /\ net = TRUE /\ drops = 0
    /\ toServer = <<>> /\ toClient = <<>>
    /\ arrived = 0 /\ box = {} /\ unread = {}
    /\ view = <<>> /\ told = {} /\ idling = FALSE
    /\ shown = [n \in Numbers |-> None] /\ leftover = {}

\* The numbers in S from the lowest to the highest: one sequence.
Ascending(S) ==
    {s \in [1 .. Cardinality(S) -> S] : \A i, j \in DOMAIN s : i < j => s[i] < s[j]}

(***************************************************************************)
(* The notifier's own helpers.                                             *)
(***************************************************************************)

\* What is written to a connection that has failed is lost.
Transmit(commands) ==
    toServer' = IF conn = "open" THEN toServer \o commands ELSE toServer

\* deinit, in the notifier's own task: vTaskDelete does not return.
Deinit ==
    /\ task' = "deleted"
    /\ conn' = "none" /\ toServer' = <<>>
    /\ UNCHANGED <<state, queue, fetching, idleSupported>>

Withdrawn(ids) == [n \in Numbers |-> IF n \in ids THEN None ELSE shown[n]]

\* Mutated forms of manual_check: what is known stays; IDLE is not ended.
ManualCheckKeeps(before) ==
    /\ UNCHANGED <<known, shown>>
    /\ Transmit(before \o <<Command("SEARCH")>>)
    /\ state' = "CHECKING"

ManualCheckWithoutDone(before) ==
    /\ shown' = Withdrawn(known)
    /\ known' = {}
    /\ Transmit(<<Command("SEARCH")>>)
    /\ state' = "CHECKING"

\* Everything is withdrawn and searched for again; before that, IDLE is ended.
ManualCheck(before) ==
    /\ shown' = Withdrawn(known)
    /\ known' = {}
    /\ Transmit(before \o <<Command("SEARCH")>>)
    /\ state' = "CHECKING"

\* Mutated form: one header is fetched, and the other numbers are forgotten.
DownloadLast ==
    IF queue # <<>>
    THEN /\ fetching' = Last(queue)
         /\ queue' = <<>>
         /\ Transmit(<<Fetch(Last(queue))>>)
         /\ UNCHANGED state
    ELSE /\ fetching' = None
         /\ UNCHANGED queue
         /\ Transmit(IF idleSupported THEN <<Command("IDLE")>> ELSE <<>>)
         /\ state' = "IDLE"

\* download_queued: the number that was found last is fetched first.
DownloadNext ==
    IF queue # <<>>
    THEN /\ fetching' = Last(queue)
         /\ queue' = Front(queue)
         /\ Transmit(<<Fetch(Last(queue))>>)
         /\ UNCHANGED state
    ELSE /\ fetching' = None
         /\ UNCHANGED queue
         /\ Transmit(IF idleSupported THEN <<Command("IDLE")>> ELSE <<>>)
         /\ state' = "IDLE"

-------------------------------------------------------------------------------
(***************************************************************************)
(* Connecting.  The constructor tries once before the task exists; what it *)
(* leaves undone the task tries once more.                                 *)
(***************************************************************************)

Connected ==
    /\ state' = "CONNECT"
    /\ conn' = "open" /\ toServer' = <<>> /\ toClient' = <<>>
    /\ view' = <<>> /\ told' = {} /\ idling' = FALSE

Construct ==
    /\ task = "none"
    /\ task' = "running"
    /\ \/ net /\ Connected
       \/ /\ ~net
          /\ UNCHANGED <<state, conn, toServer, toClient, session>>
    /\ UNCHANGED <<queue, fetching, idleSupported, notes, rx, net, drops, mailbox>>

Connect ==
    /\ task = "running" /\ state = "DISCONNECT"
    /\ \/ /\ net /\ Connected
          /\ UNCHANGED others
       \/ /\ ~net /\ Deinit
          /\ UNCHANGED <<toClient, session>>
    /\ UNCHANGED <<notes, rx, net, drops, mailbox>>

Login ==
    /\ task = "running" /\ state = "CONNECT"
    /\ state' = "AUTHING"
    /\ Transmit(<<Command("LOGIN")>>)
    /\ UNCHANGED <<others, notes, rx, line, toClient, mailbox, session>>

(***************************************************************************)
(* Reading lines.                                                          *)
(***************************************************************************)

Listening ==
    /\ task = "running" /\ fetching = None
    /\ state \in {"AUTHING", "SELECTING", "CHECKING", "IDLE"}

\* Only the first part of the line has come.
ReadPart ==
    /\ "split" \in World
    /\ Listening /\ toClient # <<>> /\ rx = "empty"
    /\ rx' = "part"
    /\ UNCHANGED <<progress, notes, line, toServer, toClient, mailbox, session>>

\* Mutated form: any OK is taken for that of SEARCH, that of IDLE, too.
AnyOk(l) == l.k = "ok"

OkSearch(l) == l.k = "ok" /\ l.of = "SEARCH"

\* process_line for a reply; what other states do with one is nothing.
Reply(l) ==
    \/ /\ state = "AUTHING" /\ l.k = "ok"
       /\ Transmit(<<Command("SELECT")>>)
       /\ state' = "SELECTING"
       /\ UNCHANGED <<others, notes, conn>>
    \/ /\ state = "SELECTING" /\ l.k = "ok"
       /\ ManualCheck(<<>>)
       /\ UNCHANGED <<others, expunged, leftover, conn>>
    \/ /\ state = "CHECKING" /\ OkSearch(l)
       /\ DownloadNext
       /\ UNCHANGED <<task, idleSupported, notes, conn>>
    \/ /\ state \in {"AUTHING", "SELECTING", "CHECKING"} /\ l.k = "no"
       /\ Deinit
       /\ UNCHANGED notes
    \/ /\ state = "IDLE" \/ (state = "CHECKING" /\ l.k = "ok" /\ ~OkSearch(l))
       /\ UNCHANGED <<progress, notes, conn, toServer>>

\* Mutated form: the empty result is parsed, too, and atoi of nothing is 0.
FoundOrZero(ids) == IF ids = {} THEN {<<0>>} ELSE Ascending(ids)

\* The numbers of a search result, in the order of the line.
Found(ids) == Ascending(ids)

\* Another line.  A search result that does not fit into rxbuf is discarded, and
\* its rest means nothing.
Untagged(l) ==
    \/ /\ l.k = "capability"
       /\ idleSupported' = TRUE
       /\ UNCHANGED <<state, task, queue, fetching, notes, toServer>>
    \/ /\ l.k = "search"
       /\ IF state = "CHECKING" /\ Cardinality(l.ids) <= LineIds
          THEN \E found \in Found(l.ids) : queue' = queue \o found
          ELSE UNCHANGED queue
       /\ UNCHANGED <<state, task, fetching, idleSupported, notes, toServer>>
    \/ /\ l.k \in {"exists", "seen", "expunge"} /\ state # "IDLE"
       /\ UNCHANGED <<progress, notes, toServer>>
    \/ /\ l.k = "exists" /\ state = "IDLE" /\ expunged
       /\ expunged' = FALSE
       /\ UNCHANGED <<progress, known, shown, leftover, toServer>>
    \/ /\ state = "IDLE"
       /\ (l.k = "exists" /\ ~expunged) \/ (l.k \in {"seen", "expunge"} /\ l.n \notin known)
       /\ ManualCheck(<<Command("DONE")>>)
       /\ UNCHANGED <<others, expunged, leftover>>
    \/ /\ l.k \in {"seen", "expunge"} /\ state = "IDLE" /\ l.n \in known
       /\ shown' = Withdrawn({l.n})
       /\ known' = known \ {l.n}
       /\ expunged' = (expunged \/ l.k = "expunge")
       /\ UNCHANGED <<progress, leftover, toServer>>

\* wait_lines and process_line.
ReadLine ==
    /\ Listening /\ toClient # <<>> /\ rx \in {"empty", "part"}
    /\ LET l == Head(toClient) IN
        \/ IsTagged(l) /\ Reply(l)
        \/ ~IsTagged(l) /\ Untagged(l) /\ UNCHANGED conn
    /\ rx' = "empty" /\ toClient' = Tail(toClient)
    /\ UNCHANGED <<net, drops, mailbox, session>>

\* The first line of a connection, behind what the last one left in rxbuf: it
\* starts like the old line and goes on like the new one.
ReadJoined ==
    /\ Listening /\ toClient # <<>> /\ rx \notin {"empty", "part"}
    /\ rx' = "empty" /\ toClient' = Tail(toClient)
    /\ leftover' = leftover \cup {"line"}
    /\ \/ UNCHANGED <<progress, conn, toServer>>
       \/ /\ rx = "junk capability" /\ Head(toClient).k = "capability"
          /\ idleSupported' = TRUE
          /\ UNCHANGED <<state, task, queue, fetching, conn, toServer>>
       \/ /\ rx = "junk tag"
          /\ \/ /\ Transmit(<<Command("SELECT")>>)
                /\ state' = "SELECTING"
                /\ UNCHANGED <<others, conn>>
             \/ Deinit
    /\ UNCHANGED <<known, shown, expunged, net, drops, mailbox, session>>

(***************************************************************************)
(* download_one, which reads until it sees an OK or a BAD, whatever comes  *)
(* before.  It does not know a NO for a reply and would read on for ever.  *)
(***************************************************************************)

EndsDownload(l) == l.k \in {"ok", "bad"}
FirstReply == SelectInSeq(toClient, EndsDownload)

DownloadReply ==
    /\ task = "running" /\ fetching # None /\ FirstReply # 0
    /\ LET l == toClient[FirstReply] IN
        IF l.k = "ok"
        THEN /\ known' = known \cup {fetching}
             /\ shown' = [shown EXCEPT ![fetching] = l.m]
        ELSE UNCHANGED <<known, shown>>
    /\ DownloadNext
    /\ toClient' = SubSeq(toClient, FirstReply + 1, Len(toClient))
    /\ UNCHANGED <<task, idleSupported, expunged, leftover, rx, line, mailbox, session>>

\* The firmware starts anew; mail and the network go on.
Restart ==
    /\ state' = "DISCONNECT" /\ task' = "none"
    /\ known' = {} /\ queue' = <<>> /\ fetching' = None
    /\ expunged' = FALSE /\ idleSupported' = FALSE /\ rx' = "empty"
    /\ conn' = "none" /\ toServer' = <<>> /\ toClient' = <<>>
    /\ view' = <<>> /\ told' = {} /\ idling' = FALSE
    /\ shown' = Withdrawn(Numbers) /\ leftover' = {}

\* The error of a read is taken for a length, which is undefined: the firmware
\* crashes and restarts, or each download left fails in turn.
DownloadBroken ==
    /\ task = "running" /\ fetching # None /\ conn = "reset"
    /\ \/ Restart
       \/ /\ fetching' = None /\ queue' = <<>> /\ state' = "IDLE"
          /\ UNCHANGED <<task, idleSupported, notes, rx, conn, toServer, toClient, session>>
    /\ UNCHANGED <<net, drops, mailbox>>

\* wait_lines, when the connection has failed.
LoseConnection ==
    /\ Listening /\ conn = "reset"
    /\ state' = "DISCONNECT" /\ conn' = "none"
    /\ leftover' = leftover \cup (IF queue # <<>> THEN {"queue"} ELSE {})
    /\ UNCHANGED <<others, known, shown, expunged, rx,
                   net, drops, toServer, toClient, mailbox, session>>

Notifier ==
    \/ Construct \/ Connect \/ Login
    \/ ReadPart \/ ReadLine \/ ReadJoined
    \/ DownloadReply \/ DownloadBroken \/ LoseConnection

-------------------------------------------------------------------------------
(***************************************************************************)
(* The server.                                                             *)
(***************************************************************************)

New == box \ Range(view)

Asked(c) ==
    /\ conn = "open" /\ toServer # <<>> /\ Head(toServer).c = c
    /\ idling = (c = "DONE")

Answer(lines) ==
    /\ toServer' = Tail(toServer)
    /\ toClient' = toClient \o lines
    /\ UNCHANGED <<progress, notes, rx, line, mailbox>>

AnswerLogin ==
    /\ Asked("LOGIN")
    /\ Answer(<<[k |-> "capability"], Ok("LOGIN")>>)
    /\ UNCHANGED session

AnswerSelect ==
    /\ Asked("SELECT")
    /\ view' \in Ascending(box) /\ told' = box \ unread
    /\ Answer(<<[k |-> "exists"], Ok("SELECT")>>)
    /\ UNCHANGED idling

AnswerSearch ==
    /\ Asked("SEARCH")
    /\ Answer(<<[k |-> "search", ids |-> {i \in DOMAIN view : view[i] \in unread}],
                Ok("SEARCH")>>)
    /\ UNCHANGED session

\* A number that the session does not have is BAD.
AnswerFetch ==
    /\ Asked("FETCH")
    /\ LET n == Head(toServer).n IN
        Answer(<<IF n \in DOMAIN view THEN Tagged("ok", "FETCH", view[n])
                                      ELSE Tagged("bad", "FETCH", None)>>)
    /\ UNCHANGED session

AnswerIdle ==
    /\ Asked("IDLE")
    /\ idling' = TRUE
    /\ Answer(<<>>)
    /\ UNCHANGED <<view, told>>

AnswerDone ==
    /\ Asked("DONE")
    /\ idling' = FALSE
    /\ Answer(<<Ok("IDLE")>>)
    /\ UNCHANGED <<view, told>>

Refuse ==
    /\ "refuse" \in World
    /\ \E c \in {"LOGIN", "SELECT", "SEARCH", "FETCH"} :
        Asked(c) /\ Answer(<<Tagged("no", c, None)>>)
    /\ UNCHANGED session

Report(lines) ==
    /\ conn = "open" /\ idling
    /\ toClient' = toClient \o lines
    /\ UNCHANGED <<progress, notes, rx, line, toServer, mailbox, idling>>

ReportExists ==
    /\ New # {}
    /\ \E new \in Ascending(New) : view' = view \o new
    /\ Report(<<[k |-> "exists"]>>)
    /\ UNCHANGED told

ReportSeen ==
    \E i \in DOMAIN view :
        /\ view[i] \in box \ (unread \cup told)
        /\ told' = told \cup {view[i]}
        /\ Report(<<[k |-> "seen", n |-> i]>>)
        /\ UNCHANGED view

ReportExpunge ==
    \E i \in DOMAIN view :
        /\ view[i] \notin box
        /\ \E new \in Ascending(New) : view' = RemoveAt(view, i) \o new
        /\ Report(<<[k |-> "expunge", n |-> i], [k |-> "exists"]>>)
        /\ UNCHANGED told

Answers ==
    AnswerLogin \/ AnswerSelect \/ AnswerSearch \/ AnswerFetch \/ AnswerIdle \/ AnswerDone
Reports == ReportExists \/ ReportSeen \/ ReportExpunge

-------------------------------------------------------------------------------
(***************************************************************************)
(* Mail and the network.                                                   *)
(***************************************************************************)

Arrive ==
    /\ arrived < MailCount
    /\ arrived' = arrived + 1
    /\ box' = box \cup {arrived'} /\ unread' = unread \cup {arrived'}
    /\ UNCHANGED <<progress, notes, rx, line, toServer, toClient, session>>

Read(m) ==
    /\ m \in unread
    /\ unread' = unread \ {m}
    /\ UNCHANGED <<progress, notes, rx, line, toServer, toClient, arrived, box, session>>

Delete(m) ==
    /\ "delete" \in World /\ m \in box
    /\ box' = box \ {m} /\ unread' = unread \ {m}
    /\ UNCHANGED <<progress, notes, rx, line, toServer, toClient, arrived, session>>

\* What has been read of a line stays in rxbuf.
Junk ==
    IF rx # "part" THEN rx
    ELSE CASE IsTagged(Head(toClient)) -> "junk tag"
           [] Head(toClient).k = "capability" -> "junk capability"
           [] OTHER -> "junk"

Drop(kind) ==
    /\ kind \in World /\ drops < Drops
    /\ drops' = drops + 1
    /\ toServer' = <<>> /\ toClient' = <<>> /\ rx' = Junk
    /\ UNCHANGED <<progress, notes, mailbox, session>>

EndConnection ==
    /\ conn = "open"
    /\ \E kind \in {"reset", "closed"} : Drop(kind) /\ conn' = kind
    /\ UNCHANGED net

Outage ==
    /\ net /\ net' = FALSE
    /\ Drop("outage")
    /\ conn' = IF conn = "open" THEN "reset" ELSE conn

NetworkBack ==
    /\ ~net /\ net' = TRUE
    /\ UNCHANGED <<progress, notes, rx, conn, drops, toServer, toClient, mailbox, session>>

Next ==
    \/ Notifier \/ Answers \/ Refuse \/ Reports
    \/ Arrive \/ (\E m \in Mails : Read(m) \/ Delete(m))
    \/ EndConnection \/ Outage \/ NetworkBack

Spec == Init /\ [][Next]_vars

\* Tasks run, the server answers and reports in time, and outages end.
Fairness ==
    WF_vars(Notifier) /\ WF_vars(Answers) /\ WF_vars(Reports) /\ WF_vars(NetworkBack)

FairSpec == Spec /\ Fairness
-------------------------------------------------------------------------------
(***************************************************************************)
(* All replies carry the same tag, yet each one is taken for the command   *)
(* it answers: when the notifier waits for a reply in some state, that is  *)
(* the only one to come, but for that to an IDLE it has ended.  (Until the *)
(* first line of a connection is joined to what the last one left: a part  *)
(* of a reply may pass for the next reply.)                                *)
(***************************************************************************)
Replies == {i \in DOMAIN toClient : IsTagged(toClient[i]) /\ toClient[i].of # "IDLE"}
Asking == {i \in DOMAIN toServer : toServer[i].c \notin {"IDLE", "DONE"}}

Awaited ==
    CASE fetching # None -> "FETCH"
      [] fetching = None /\ state = "AUTHING" -> "LOGIN"
      [] fetching = None /\ state = "SELECTING" -> "SELECT"
      [] fetching = None /\ state = "CHECKING" -> "SEARCH"
      [] OTHER -> "nothing"

OwnReply ==
    task = "running" /\ conn = "open" /\ "line" \notin leftover =>
        \/ Awaited = "nothing" /\ Replies = {} /\ Asking = {}
        \/ Asking = {} /\ \E i \in Replies : Replies = {i} /\ toClient[i].of = Awaited
        \/ Replies = {} /\ \E i \in Asking : Asking = {i} /\ toServer[i].c = Awaited

(***************************************************************************)
(* A command is never sent while the server idles, where it would count as *)
(* a broken end of IDLE: DONE precedes it.                                 *)
(***************************************************************************)
IdleIsEnded == idling /\ conn = "open" /\ toServer # <<>> => Head(toServer).c = "DONE"

(***************************************************************************)
(* When nothing is under way, exactly the unread mails are announced, each *)
(* under its own number, however mail came and was read meanwhile, and     *)
(* whatever connections were lost before.  Except when mail has been       *)
(* deleted, when a list of the unread does not fit into rxbuf, and when    *)
(* numbers found before a loss were still to be fetched.                   *)
(***************************************************************************)
Quiet ==
    /\ task = "running" /\ state = "IDLE" /\ fetching = None
    /\ conn = "open" /\ idling /\ toServer = <<>> /\ toClient = <<>>
    /\ New = {} /\ \A i \in DOMAIN view : view[i] \in unread \cup told

Accurate ==
    Quiet /\ box = 1 .. arrived /\ "queue" \notin leftover /\ Cardinality(unread) <= LineIds =>
        known = {i \in DOMAIN view : view[i] \in unread} /\ \A n \in known : shown[n] = view[n]

\* Mail that stays unread is announced in the end.
MailAnnounced ==
    \A m \in Mails : m \in unread ~> (m \in Range(shown) \/ m \notin unread)

\* Whoever reads a mail on another device sees its notification go; not always
\* when a search was under way as a connection was lost.
ReadIsWithdrawn ==
    \A m \in Mails :
        m \in Range(shown) /\ m \notin unread ~> m \notin Range(shown) \/ "queue" \in leftover

(***************************************************************************)
(* When a read of an open connection fails, the log says: will reconnect.  *)
(***************************************************************************)
WillReconnect == Listening /\ conn = "reset" ~> conn = "open"

(***************************************************************************)
(* The callback's comment says that it is called without a header when the *)
(* message has disappeared.  (manual_check apart, which withdraws all that *)
(* is known and announces it again.)                                       *)
(***************************************************************************)
GoneIsGone ==
    [][state' = state => \A n \in known \ known' : shown[n] \notin unread]_vars
===============================================================================
