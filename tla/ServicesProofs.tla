----------------------------- MODULE ServicesProofs -----------------------------
(***************************************************************************)
(* Safety of the services for every number of changes, answers, restarts   *)
(* and queued events: what the board shows of a feed is whole and, when    *)
(* the view sees no reason to draw, current; and a station that was once   *)
(* connected is never left without somebody who will join again.           *)
(***************************************************************************)
EXTENDS Services, TLAPS

(***************************************************************************)
(* The feed.  The parts of the cache differ only between the two stores,   *)
(* under the semaphore (Parts); a store that the view has not drawn has    *)
(* made the stamps differ, or the word's view, which has compared them     *)
(* already, is still to copy (Stamped); so the copy made under a free      *)
(* semaphore is whole, and what was drawn before is current (Current).     *)
(***************************************************************************)
Places ==
    /\ feed \in {"weather", "wotd"}
    /\ task \in {"none", "get", "take", "first", "second", "last", "give", "sleep"}
    /\ sem \in {"none", "free", "taken"}
    /\ view \in {"none", "look", "get"}
    /\ fresh \in BOOLEAN
    /\ feed = "weather" => view # "get"
    /\ task = "none" => sem = "none" /\ view = "none"
    /\ sem = "none" => task = "none"
    /\ sem = "taken" <=> task \in {"first", "second", "last", "give"}

Parts ==
    /\ task \in {"second", "last"} => first = answer
    /\ task = "last" /\ feed = "wotd" => second = answer
    /\ task # "second" /\ (task # "last" \/ feed = "wotd") => first = second

Stamped ==
    /\ task \in {"last", "give"} /\ feed = "weather" => fresh
    /\ task = "give" => fresh \/ view = "get"

Current == ~fresh /\ view # "get" /\ sem # "taken" => shown = <<first, second>>

FeedInv == Places /\ Parts /\ Stamped /\ Current /\ ShownWhole

\* Nothing has been stored and drawn yet.
LEMMA FeedInit == Init => FeedInv
  <1> SUFFICES ASSUME Feed!Init PROVE FeedInv
    BY DEF Init
  <1>1. ShownWhole
    BY DEF Feed!Init, ShownWhole, Feed!ShownWhole
  <1>2. Places /\ Parts /\ Stamped
    BY DEF Feed!Init, Places, Parts, Stamped
  <1>3. Current
    BY DEF Feed!Init, Current
  <1> QED
    BY <1>1, <1>2, <1>3 DEF FeedInv

\* A step that leaves the feed alone.
LEMMA FeedStutters == FeedInv /\ UNCHANGED feedVars => FeedInv'
  BY DEF FeedInv, Places, Parts, Stamped, Current, ShownWhole, Feed!ShownWhole, feedVars

\* The feed is started.
LEMMA StartKeeps == FeedInv /\ Feed!start => FeedInv'
  BY DEF FeedInv, Places, Parts, Stamped, Current, ShownWhole, Feed!ShownWhole, Feed!start

\* Its view is constructed.
LEMMA ConstructKeeps == FeedInv /\ Feed!Construct => FeedInv'
  BY DEF FeedInv, Places, Parts, Stamped, Current, ShownWhole, Feed!ShownWhole, Feed!Construct

\* The firmware restarts.
LEMMA ResetKeeps == FeedInv /\ Feed!Reset => FeedInv'
  <1> SUFFICES ASSUME Places, Feed!Reset PROVE FeedInv'
    BY DEF FeedInv
  <1>1. ShownWhole'
    BY DEF Feed!Reset, ShownWhole, Feed!ShownWhole
  <1>2. (Places /\ Parts /\ Stamped)'
    BY DEF Feed!Reset, Places, Parts, Stamped
  <1>3. Current'
    BY DEF Feed!Reset, Current
  <1> QED
    BY <1>1, <1>2, <1>3 DEF FeedInv

\* A step of the feed's task.
LEMMA TaskKeeps == FeedInv /\ Feed!TaskNext => FeedInv'
  <1> SUFFICES ASSUME FeedInv, Feed!TaskNext PROVE FeedInv'
    OBVIOUS
  <1> USE DEF FeedInv, Places, Parts, Stamped, Current, ShownWhole, Feed!ShownWhole, Feed!TaskAt
  <1>1. ASSUME NEW ok \in BOOLEAN, Feed!Fetch(ok) PROVE FeedInv'
    BY <1>1 DEF Feed!Fetch
  <1>2. CASE Feed!Take
    BY <1>2 DEF Feed!Take
  <1>3. CASE Feed!StoreFirst
    BY <1>3 DEF Feed!StoreFirst
  <1>4. CASE Feed!StoreSecond
    BY <1>4 DEF Feed!StoreSecond
  <1>5. CASE Feed!StoreLast
    BY <1>5 DEF Feed!StoreLast
  <1>6. CASE Feed!Give
    BY <1>6 DEF Feed!Give
  <1>7. CASE Feed!Wake
    BY <1>7 DEF Feed!Wake
  <1> QED
    BY <1>1, <1>2, <1>3, <1>4, <1>5, <1>6, <1>7 DEF Feed!TaskNext

\* A step of the view, or of the server.
LEMMA ViewKeeps == FeedInv /\ (Feed!ViewNext \/ Feed!NewVersion) => FeedInv'
  <1> SUFFICES ASSUME FeedInv, Feed!ViewNext \/ Feed!NewVersion PROVE FeedInv'
    OBVIOUS
  <1> USE DEF FeedInv, Places, Parts, Stamped, Current, ShownWhole, Feed!ShownWhole
  <1>1. CASE Feed!LookWeather
    BY <1>1 DEF Feed!LookWeather
  <1>2. CASE Feed!LookWotd
    BY <1>2 DEF Feed!LookWotd
  <1>3. CASE Feed!GetWotd
    BY <1>3 DEF Feed!GetWotd
  <1>4. CASE Feed!NewVersion
    BY <1>4 DEF Feed!NewVersion
  <1> QED
    BY <1>1, <1>2, <1>3, <1>4 DEF Feed!ViewNext

\* Every step of the firmware keeps it.
LEMMA FeedNext == FeedInv /\ [Next]_vars => FeedInv'
  <1> SUFFICES ASSUME FeedInv, [Next]_vars PROVE FeedInv'
    OBVIOUS
  <1>1. CASE Startup \/ Proceed \/ SaveName \/ SavePassword \/ Radio \/ UNCHANGED vars
    BY <1>1, FeedStutters DEF Startup, Proceed, SaveName, SavePassword, Radio, vars, feedVars
  <1>2. CASE StartFeeds
    BY <1>2, StartKeeps DEF StartFeeds
  <1>3. CASE ConstructViews
    BY <1>3, ConstructKeeps DEF ConstructViews
  <1>4. CASE OpenPage \/ Reboot
    BY <1>4, ResetKeeps DEF OpenPage, Reboot, Restart
  <1>5. CASE FeedStep
    BY <1>5, TaskKeeps, ViewKeeps DEF FeedStep, FeedTask
  <1> QED
    BY <1>1, <1>2, <1>3, <1>4, <1>5 DEF Next, Setup

\* The inductive invariant of the feed.
THEOREM FeedCorrect == Spec => []FeedInv
  BY FeedInit, FeedNext, PTL DEF Spec

(***************************************************************************)
(* The board never shows the first part of one answer and the second of    *)
(* another.                                                                *)
(***************************************************************************)
THEOREM ShownWholeAlways == Spec => []ShownWhole
  <1>1. FeedInv => ShownWhole
    BY DEF FeedInv
  <1> QED
    BY <1>1, FeedCorrect, PTL

(***************************************************************************)
(* A view that sees no reason to draw has drawn what is in the cache.      *)
(***************************************************************************)
THEOREM ShownCurrentAlways == Spec => []ShownCurrent
  <1>1. FeedInv => ShownCurrent
    BY DEF FeedInv, Current, ShownCurrent, Feed!ShownCurrent
  <1> QED
    BY <1>1, FeedCorrect, PTL
-------------------------------------------------------------------------------
(***************************************************************************)
(* The network manager.  SomeoneRetries depends on what is known before    *)
(* the first address is dealt with (Attempt): while the station joins no   *)
(* loss is queued, an address that is queued belongs to the station mode   *)
(* and precedes every loss, and if the network has gone again meanwhile    *)
(* that loss is still to be handled.                                       *)
(***************************************************************************)
Event == {"lost", "left", "got_ip", "ap_start"}

\* A loss is queued; an address is queued.
IsLoss(e) == e \in {"lost", "left"}
Gone(s) == \E i \in DOMAIN s : IsLoss(s[i])
Got(s) == \E i \in DOMAIN s : s[i] = "got_ip"
InOrder(s) == \A i, j \in DOMAIN s : IsLoss(s[i]) /\ s[j] = "got_ip" => j < i

Station ==
    /\ link \in {"idle", "joining", "joined", "addressed"}
    /\ events \in Seq(Event)
    /\ initial_connection_succeeded \in BOOLEAN
    /\ link # "idle" => mode = "sta"
    /\ setup = "network" => events = <<>> /\ link = "idle" /\ handler = "idle"
                            /\ ~initial_connection_succeeded

Attempt ==
    ~initial_connection_succeeded =>
        /\ handler = "idle"
        /\ link # "idle" => ~Gone(events)
        /\ Got(events) => mode = "sta"
        /\ Got(events) /\ link = "idle" => Gone(events)
        /\ InOrder(events)

Retries ==
    initial_connection_succeeded =>
        mode = "sta" /\ (link = "idle" => handler = "delay" \/ Gone(events))

NetInv == Station /\ Attempt /\ Retries

\* Taking an event from the queue.
LEMMA TailFacts ==
    ASSUME NEW s \in Seq(Event), s # <<>>
    PROVE  /\ Tail(s) \in Seq(Event) /\ Head(s) \in Event
           /\ Gone(Tail(s)) => Gone(s)
           /\ Got(Tail(s)) => Got(s)
           /\ InOrder(s) => InOrder(Tail(s))
           /\ Gone(s) /\ ~IsLoss(Head(s)) => Gone(Tail(s))
           /\ Head(s) = "got_ip" => Got(s)
           /\ IsLoss(Head(s)) => Gone(s)
           /\ InOrder(s) /\ IsLoss(Head(s)) => ~Got(s)
  <1>1. /\ Len(s) \in Nat \ {0} /\ DOMAIN s = 1 .. Len(s)
        /\ Tail(s) \in Seq(Event) /\ DOMAIN Tail(s) = 1 .. Len(s) - 1
        /\ \A i \in DOMAIN Tail(s) : Tail(s)[i] = s[i + 1]
        /\ Head(s) = s[1] /\ 1 \in DOMAIN s
    OBVIOUS
  <1>2. Gone(Tail(s)) => Gone(s)
    BY <1>1 DEF Gone
  <1>3. Got(Tail(s)) => Got(s)
    BY <1>1 DEF Got
  <1>4. InOrder(s) => InOrder(Tail(s))
    BY <1>1 DEF InOrder
  <1>5. ASSUME NEW i \in DOMAIN s, i # 1 PROVE i - 1 \in DOMAIN Tail(s) /\ Tail(s)[i - 1] = s[i]
    BY <1>1, <1>5
  <1>6. Gone(s) /\ ~IsLoss(Head(s)) => Gone(Tail(s))
    <2> SUFFICES ASSUME NEW i \in DOMAIN s, IsLoss(s[i]), ~IsLoss(Head(s)) PROVE Gone(Tail(s))
      BY DEF Gone
    <2>1. i # 1
      BY <1>1
    <2> QED
      BY <1>5, <2>1 DEF Gone
  <1>7. /\ Head(s) = "got_ip" => Got(s)
        /\ IsLoss(Head(s)) => Gone(s)
    BY <1>1 DEF Got, Gone
  <1>8. InOrder(s) /\ IsLoss(Head(s)) => ~Got(s)
    <2> SUFFICES ASSUME InOrder(s), IsLoss(s[1]), NEW j \in DOMAIN s, s[j] = "got_ip" PROVE FALSE
      BY <1>1 DEF Got
    <2>1. j < 1
      BY <1>1 DEF InOrder
    <2> QED
      BY <1>1, <2>1
  <1>9. Head(s) \in Event
    BY <1>1
  <1> QED
    BY <1>1, <1>2, <1>3, <1>4, <1>6, <1>7, <1>8, <1>9

\* Queueing an event.
LEMMA AppendFacts ==
    ASSUME NEW s \in Seq(Event), NEW e \in Event
    PROVE  /\ s \o <<e>> \in Seq(Event)
           /\ Gone(s \o <<e>>) <=> Gone(s) \/ IsLoss(e)
           /\ Got(s \o <<e>>) <=> Got(s) \/ e = "got_ip"
           /\ InOrder(s) /\ (e = "got_ip" => ~Gone(s)) => InOrder(s \o <<e>>)
  <1> DEFINE t == s \o <<e>>
  <1>1. /\ Len(s) \in Nat /\ DOMAIN s = 1 .. Len(s)
        /\ t \in Seq(Event) /\ DOMAIN t = 1 .. Len(s) + 1
        /\ \A i \in DOMAIN s : i \in DOMAIN t /\ t[i] = s[i]
        /\ t[Len(s) + 1] = e /\ Len(s) + 1 \in DOMAIN t
        /\ \A i \in DOMAIN t : i \in DOMAIN s \/ i = Len(s) + 1
    OBVIOUS
  <1> HIDE DEF t
  <1>2. Gone(t) <=> Gone(s) \/ IsLoss(e)
    BY <1>1 DEF Gone
  <1>3. Got(t) <=> Got(s) \/ e = "got_ip"
    BY <1>1 DEF Got
  <1>4. ASSUME InOrder(s), e = "got_ip" => ~Gone(s) PROVE InOrder(t)
    <2> SUFFICES ASSUME NEW i \in DOMAIN t, NEW j \in DOMAIN t, IsLoss(t[i]), t[j] = "got_ip"
                 PROVE  j < i
      BY DEF InOrder
    <2>1. CASE i \in DOMAIN s /\ j \in DOMAIN s
      BY <1>1, <1>4, <2>1 DEF InOrder
    <2>2. CASE i = Len(s) + 1 /\ j \in DOMAIN s
      BY <1>1, <2>2
    <2>3. CASE j = Len(s) + 1
      <3>1. e = "got_ip"
        BY <1>1, <2>3
      <3>2. i \in DOMAIN s
        BY <1>1, <3>1 DEF IsLoss
      <3> QED
        BY <1>1, <1>4, <3>1, <3>2 DEF Gone
    <2> QED
      BY <1>1, <2>1, <2>2, <2>3
  <1> QED
    BY <1>1, <1>2, <1>3, <1>4 DEF t

\* An empty queue.
LEMMA EmptyFacts == ~Gone(<<>>) /\ ~Got(<<>>) /\ InOrder(<<>>) /\ <<>> \in Seq(Event)
  BY DEF Gone, Got, InOrder

\* ap_fallback ends the attempt, where no address is queued.
LEMMA FallbackKeeps ==
    ASSUME NEW q \in Seq(Event), NEW l, ~Got(q), InOrder(q), Net!ap_fallback(q, l)
    PROVE  events' \in Seq(Event) /\ link' = "idle" /\ ~Got(events') /\ InOrder(events')
  <1> DEFINE a == q \o (IF l # "idle" THEN <<"left">> ELSE <<>>)
  <1>1. a \in Seq(Event) /\ ~Got(a) /\ InOrder(a)
    <2>1. CASE l # "idle"
      BY <2>1, AppendFacts DEF Event
    <2>2. CASE l = "idle"
      <3>1. a = q
        BY <2>2
      <3> QED
        BY <3>1
    <2> QED
      BY <2>1, <2>2
  <1>2. events' = a \o (IF mode # "ap" THEN <<"ap_start">> ELSE <<>>) /\ link' = "idle"
    BY DEF Net!ap_fallback
  <1> HIDE DEF a
  <1>3. CASE mode # "ap"
    <2>1. events' = a \o <<"ap_start">>
      BY <1>2, <1>3
    <2>2. "ap_start" \in Event /\ "ap_start" # "got_ip"
      BY DEF Event
    <2>3. events' \in Seq(Event) /\ ~Got(events') /\ InOrder(events')
      BY <1>1, <2>1, <2>2, AppendFacts
    <2> QED
      BY <1>2, <2>3
  <1>4. CASE mode = "ap"
    <2>1. events' = a
      BY <1>1, <1>2, <1>4
    <2> QED
      BY <1>1, <1>2, <2>1
  <1> QED
    BY <1>3, <1>4

\* Power on.
LEMMA NetInit == Init => NetInv
  <1> SUFFICES ASSUME Init PROVE NetInv
    OBVIOUS
  <1>1. /\ events = <<>> /\ link = "idle" /\ handler = "idle"
        /\ initial_connection_succeeded = FALSE
    BY DEF Init, Net!Init, Net!PowerOn
  <1> QED
    BY <1>1, EmptyFacts DEF NetInv, Station, Attempt, Retries

\* What the invariant depends on.
NetPart == <<mode, link, events, handler, initial_connection_succeeded>>

\* A step that leaves these alone.
LEMMA NetStutters ==
    NetInv /\ UNCHANGED NetPart /\ (setup' = "network" => setup = "network") => NetInv'
  BY DEF NetInv, Station, Attempt, Retries, NetPart

\* A restart: the radio is off.
LEMMA RestartKeeps == Restart => NetInv'
  <1> SUFFICES ASSUME Restart PROVE NetInv'
    OBVIOUS
  <1>1. /\ events' = <<>> /\ link' = "idle" /\ handler' = "idle"
        /\ initial_connection_succeeded' = FALSE
    BY DEF Restart
  <1> QED
    BY <1>1, EmptyFacts DEF NetInv, Station, Attempt, Retries

\* The attempt at boot, or the access point at once.
LEMMA StartupKeeps == NetInv /\ Startup => NetInv'
  <1> SUFFICES ASSUME NetInv, Startup PROVE NetInv'
    OBVIOUS
  <1>1. /\ events = <<>> /\ link = "idle" /\ handler' = "idle" /\ setup' = "wait"
        /\ initial_connection_succeeded' = FALSE
    BY DEF NetInv, Station, Startup, SetupAt, Net!startup
  <1>2. CASE credentials # "none"
    <2>1. mode' = "sta" /\ link' = "joining" /\ events' = <<>>
      BY <1>1, <1>2 DEF Startup, Net!startup
    <2> QED
      BY <1>1, <2>1, EmptyFacts DEF NetInv, Station, Attempt, Retries
  <1>3. CASE credentials = "none"
    <2>1. Net!ap_fallback(<<>>, "idle")
      BY <1>1, <1>3 DEF Startup, Net!startup
    <2>2. events' \in Seq(Event) /\ link' = "idle" /\ ~Got(events') /\ InOrder(events')
      BY <2>1, FallbackKeeps, EmptyFacts
    <2> QED
      BY <1>1, <2>2 DEF NetInv, Station, Attempt, Retries
  <1> QED
    BY <1>2, <1>3

\* The station moves.
LEMMA MoveKeeps == NetInv /\ (Net!Join \/ Net!JoinFails \/ Net!GetAddress \/ Net!Lose)
                       /\ setup' = setup => NetInv'
  <1> SUFFICES ASSUME NetInv, Net!Join \/ Net!JoinFails \/ Net!GetAddress \/ Net!Lose, setup' = setup
               PROVE  NetInv'
    OBVIOUS
  <1> USE DEF NetInv, Station, Attempt, Retries
  <1>1. /\ link # "idle" /\ setup # "network" /\ mode' = mode /\ handler' = handler
        /\ initial_connection_succeeded' = initial_connection_succeeded
    BY DEF Net!Join, Net!JoinFails, Net!GetAddress, Net!Lose, Net!Move, Net!flags
  <1>2. CASE Net!Join
    <2>1. link' = "joined" /\ events' = events
      BY <1>2 DEF Net!Join, Net!Move
    <2> QED
      BY <1>1, <2>1
  <1>3. CASE Net!JoinFails \/ Net!Lose
    <2>1. link' = "idle" /\ events' = events \o <<"lost">>
      BY <1>3 DEF Net!JoinFails, Net!Lose, Net!Move
    <2>2. "lost" \in Event /\ "lost" # "got_ip" /\ IsLoss("lost")
      BY DEF Event, IsLoss
    <2>3. /\ events' \in Seq(Event) /\ Gone(events') /\ (Got(events') <=> Got(events))
          /\ InOrder(events) => InOrder(events')
      BY <2>1, <2>2, AppendFacts
    <2> QED
      BY <1>1, <2>1, <2>3
  <1>4. CASE Net!GetAddress
    <2>1. link' = "addressed" /\ events' = events \o <<"got_ip">>
      BY <1>4 DEF Net!GetAddress, Net!Move
    <2>2. "got_ip" \in Event /\ ~IsLoss("got_ip")
      BY DEF Event, IsLoss
    <2>3. /\ events' \in Seq(Event) /\ (Gone(events') <=> Gone(events))
          /\ InOrder(events) /\ ~Gone(events) => InOrder(events')
      BY <2>1, <2>2, AppendFacts
    <2> QED
      BY <1>1, <2>1, <2>3
  <1> QED
    BY <1>2, <1>3, <1>4

\* An address is dealt with.
LEMMA GotIpKeeps == NetInv /\ Net!GotIp /\ setup' = setup => NetInv'
  <1> SUFFICES ASSUME NetInv, Net!GotIp, setup' = setup PROVE NetInv'
    OBVIOUS
  <1>1. /\ events \in Seq(Event) /\ events # <<>> /\ Head(events) = "got_ip" /\ events' = Tail(events)
        /\ mode' = mode /\ link' = link /\ handler' = handler
        /\ \/ initial_connection_succeeded' = TRUE
           \/ initial_connection_succeeded' = initial_connection_succeeded
    BY DEF NetInv, Station, Net!GotIp
  <1>2. Got(events) /\ (Gone(events') <=> Gone(events)) /\ (Got(events') => Got(events))
        /\ (InOrder(events) => InOrder(events')) /\ events' \in Seq(Event)
    <2>1. ~IsLoss("got_ip")
      BY DEF IsLoss
    <2> QED
      BY <1>1, <2>1, TailFacts
  <1>3. mode = "sta" /\ (link = "idle" => handler = "delay" \/ Gone(events))
    BY <1>2 DEF NetInv, Station, Attempt, Retries
  <1>4. CASE initial_connection_succeeded' = TRUE
    BY <1>1, <1>2, <1>3, <1>4 DEF NetInv, Station, Attempt, Retries
  <1>5. CASE initial_connection_succeeded' = initial_connection_succeeded
    BY <1>1, <1>2, <1>3, <1>5 DEF NetInv, Station, Attempt, Retries
  <1> QED
    BY <1>1, <1>4, <1>5

\* A loss is dealt with: another attempt later, or the access point.
LEMMA DisconnectedKeeps == NetInv /\ Net!Disconnected /\ setup' = setup => NetInv'
  <1> SUFFICES ASSUME NetInv, Net!Disconnected, setup' = setup PROVE NetInv'
    OBVIOUS
  <1>1. PICK retry \in {FALSE, Head(events) = "lost" /\ mode = "sta"} :
           LET l == IF retry THEN "joining" ELSE link
               queue == Tail(events) \o (IF retry /\ link # "idle" THEN <<"left">> ELSE <<>>)
           IN  IF initial_connection_succeeded
               THEN /\ handler' = "delay"
                    /\ link' = l /\ events' = queue
                    /\ UNCHANGED mode
               ELSE /\ Net!ap_fallback(queue, l)
                    /\ UNCHANGED handler
    BY DEF Net!Disconnected
  <1> DEFINE l == IF retry THEN "joining" ELSE link
             q == Tail(events) \o (IF retry /\ link # "idle" THEN <<"left">> ELSE <<>>)
  <1>2. /\ events \in Seq(Event) /\ events # <<>> /\ IsLoss(Head(events))
        /\ initial_connection_succeeded' = initial_connection_succeeded
        /\ initial_connection_succeeded \in BOOLEAN
        /\ setup # "network"
    BY DEF NetInv, Station, Net!Disconnected, Net!flags, IsLoss
  <1>3. q \in Seq(Event) /\ (Got(q) => Got(events)) /\ (InOrder(events) => InOrder(q))
    <2>1. /\ Tail(events) \in Seq(Event) /\ (Got(Tail(events)) => Got(events))
          /\ (InOrder(events) => InOrder(Tail(events)))
      BY <1>2, TailFacts
    <2>2. CASE retry /\ link # "idle"
      <3>1. q = Tail(events) \o <<"left">>
        BY <2>2
      <3>2. "left" \in Event /\ "left" # "got_ip"
        BY DEF Event
      <3> HIDE DEF q
      <3> QED
        BY <2>1, <3>1, <3>2, AppendFacts
    <2>3. CASE ~(retry /\ link # "idle")
      <3>1. q = Tail(events)
        BY <2>1, <2>3
      <3> QED
        BY <2>1, <3>1
    <2> QED
      BY <2>2, <2>3
  <1>4. CASE initial_connection_succeeded
    <2>1. handler' = "delay" /\ link' = l /\ events' = q /\ mode' = mode
      BY <1>1, <1>4
    <2>2. mode = "sta" /\ l \in {"idle", "joining", "joined", "addressed"}
      BY <1>4 DEF NetInv, Station, Retries
    <2> HIDE DEF l, q
    <2> QED
      BY <1>2, <1>3, <1>4, <2>1, <2>2 DEF NetInv, Station, Attempt, Retries
  <1>5. CASE ~initial_connection_succeeded
    <2>1. Net!ap_fallback(q, l) /\ handler' = handler
      BY <1>1, <1>5
    <2>2. ~Got(q) /\ InOrder(q) /\ handler = "idle"
      BY <1>2, <1>3, <1>5, TailFacts DEF NetInv, Attempt
    <2> HIDE DEF l, q
    <2>3. events' \in Seq(Event) /\ link' = "idle" /\ ~Got(events') /\ InOrder(events')
      BY <1>3, <2>1, <2>2, FallbackKeeps
    <2> QED
      BY <1>2, <1>5, <2>1, <2>2, <2>3 DEF NetInv, Station, Attempt, Retries
  <1> QED
    BY <1>4, <1>5

\* The five seconds are over.
LEMMA AfterDelayKeeps == NetInv /\ Net!AfterDelay /\ setup' = setup => NetInv'
  BY DEF NetInv, Station, Attempt, Retries, Net!AfterDelay, Net!flags

\* Any other event.
LEMMA UnhandledKeeps == NetInv /\ Net!Unhandled /\ setup' = setup => NetInv'
  <1> SUFFICES ASSUME NetInv, Net!Unhandled, setup' = setup PROVE NetInv'
    OBVIOUS
  <1>1. /\ events \in Seq(Event) /\ events # <<>> /\ Head(events) = "ap_start" /\ events' = Tail(events)
        /\ mode' = mode /\ link' = link /\ handler' = handler
        /\ initial_connection_succeeded' = initial_connection_succeeded
    BY DEF NetInv, Station, Net!Unhandled, Net!flags
  <1>2. (Gone(events') <=> Gone(events)) /\ (Got(events') => Got(events))
        /\ (InOrder(events) => InOrder(events')) /\ events' \in Seq(Event)
    <2>1. ~IsLoss("ap_start")
      BY DEF IsLoss
    <2> QED
      BY <1>1, <2>1, TailFacts
  <1> QED
    BY <1>1, <1>2 DEF NetInv, Station, Attempt, Retries

\* Every step of the firmware keeps it.
LEMMA NetStep == NetInv /\ [Next]_vars => NetInv'
  <1> SUFFICES ASSUME NetInv, [Next]_vars PROVE NetInv'
    OBVIOUS
  <1>1. CASE Startup
    BY <1>1, StartupKeeps
  <1>2. CASE Proceed \/ StartFeeds \/ ConstructViews \/ SaveName \/ SavePassword \/ FeedStep
             \/ UNCHANGED vars
    BY <1>2, NetStutters
       DEF Proceed, StartFeeds, ConstructViews, SetupAt, SaveName, SavePassword, FeedStep,
           vars, netVars, radio, flags, NetPart
  <1>3. CASE OpenPage \/ Reboot
    BY <1>3, RestartKeeps DEF OpenPage, Reboot
  <1>4. CASE Radio
    <2>1. setup' = setup /\ Net!NetNext
      BY <1>4 DEF Radio
    <2>2. CASE Net!RangeChanges
      BY <2>1, <2>2, NetStutters DEF Net!RangeChanges, Net!radio, Net!flags, NetPart
    <2> QED
      BY <2>1, <2>2, MoveKeeps, GotIpKeeps, DisconnectedKeeps, AfterDelayKeeps, UnhandledKeeps
         DEF Net!NetNext, Net!wifi_event
  <1> QED
    BY <1>1, <1>2, <1>3, <1>4 DEF Next, Setup

(***************************************************************************)
(* Once an initial connection has succeeded, no order of events leaves the *)
(* station without somebody who will join again, for queues of any length. *)
(***************************************************************************)
THEOREM SomeoneRetriesAlways == Spec => []SomeoneRetries
  <1>1. NetInv => SomeoneRetries
    BY DEF NetInv, Retries, SomeoneRetries, Net!SomeoneRetries, Gone, IsLoss
  <1> QED
    BY <1>1, NetInit, NetStep, PTL DEF Spec
-------------------------------------------------------------------------------
(***************************************************************************)
(* Types.  The queue stays short: events are added one by one only while   *)
(* there is room, except by ap_fallback, which adds at most three to what  *)
(* it leaves, and only once: afterwards the station is off (Short).        *)
(***************************************************************************)
Short == Len(events) <= Room + 2 /\ (mode # "ap" => Len(events) <= Room)

Settings ==
    /\ credentials \in {"none", "ssid", "both"}
    /\ inRange \in BOOLEAN /\ changes \in 0 .. Changes

Bits ==
    /\ mode \in {"off", "sta", "ap"} /\ handler \in {"idle", "delay"}
    /\ status \in BOOLEAN /\ ap_started \in BOOLEAN /\ has_ip \in BOOLEAN
    /\ initial_connection_ongoing \in BOOLEAN

Cached ==
    /\ latest \in Feed!Version \ {0} /\ answer \in Feed!Version
    /\ first \in Feed!Version /\ second \in Feed!Version
    /\ shown \in Feed!Version \X Feed!Version

Phases ==
    /\ setup \in {"network", "wait", "panel", "views", "loop"}
    /\ restarts \in 0 .. Restarts
    /\ setup \in {"network", "wait"} => task = "none"

TypeInv == NetInv /\ FeedInv /\ Short /\ Settings /\ Bits /\ Cached /\ Phases

\* The length of a queue that an event is taken from or added to.
LEMMA QueueLengths ==
    /\ <<>> \in Seq(Event) /\ Len(<<>>) = 0
    /\ \A s \in Seq(Event) :
        /\ Len(s) \in Nat /\ s \o <<>> = s
        /\ s # <<>> => Tail(s) \in Seq(Event) /\ Len(Tail(s)) = Len(s) - 1
        /\ \A e \in Event : s \o <<e>> \in Seq(Event) /\ Len(s \o <<e>>) = Len(s) + 1
  OBVIOUS

\* What ap_fallback adds to the queue.
LEMMA FallbackLengths ==
    ASSUME NEW q \in Seq(Event), NEW l, Net!ap_fallback(q, l)
    PROVE  /\ Len(events') \in Nat /\ Len(events') <= Len(q) + 2
           /\ l = "idle" /\ mode = "ap" => Len(events') = Len(q)
  <1> DEFINE a == q \o (IF l # "idle" THEN <<"left">> ELSE <<>>)
  <1>1. "left" \in Event /\ "ap_start" \in Event
    BY DEF Event
  <1>2. a \in Seq(Event) /\ Len(a) <= Len(q) + 1 /\ (l = "idle" => a = q) /\ Len(q) \in Nat
    <2>1. CASE l # "idle"
      <3>1. a = q \o <<"left">>
        BY <2>1
      <3> HIDE DEF a
      <3> QED
        BY <1>1, <2>1, <3>1, QueueLengths
    <2>2. CASE l = "idle"
      <3>1. a = q
        BY <2>2
      <3> HIDE DEF a
      <3> QED
        BY <3>1, QueueLengths
    <2> QED
      BY <2>1, <2>2
  <1>3. events' = a \o (IF mode # "ap" THEN <<"ap_start">> ELSE <<>>)
    BY DEF Net!ap_fallback
  <1>4. CASE mode # "ap"
    <2>1. events' = a \o <<"ap_start">>
      BY <1>3, <1>4
    <2> HIDE DEF a
    <2>2. Len(a) \in Nat /\ Len(events') = Len(a) + 1
      BY <1>1, <1>2, <2>1, QueueLengths
    <2> QED
      BY <1>2, <1>4, <2>2
  <1>5. CASE mode = "ap"
    <2>1. events' = a
      BY <1>2, <1>3, <1>5
    <2> HIDE DEF a
    <2>2. Len(a) \in Nat
      BY <1>2, QueueLengths
    <2> QED
      BY <1>2, <1>5, <2>1, <2>2
  <1> QED
    BY <1>4, <1>5

\* The queue stays short.
LEMMA ShortKeeps ==
    ASSUME NetInv, Short, [Next]_vars
    PROVE  Short'
  <1>0. events \in Seq(Event) /\ Len(events) \in Nat /\ Room \in Nat \ {0}
    BY QueueLengths, ServicesAssumption DEF NetInv, Station
  <1>1. ASSUME UNCHANGED <<events, mode>> PROVE Short'
    BY <1>1 DEF Short
  <1>2. ASSUME events' = <<>> PROVE Short'
    <2>1. Len(events') = 0
      BY <1>2, QueueLengths
    <2> QED
      BY <1>0, <2>1 DEF Short
  <1>3. CASE Startup
    <2>1. events = <<>> /\ link = "idle" /\ Net!startup
      BY <1>3 DEF Startup, SetupAt, NetInv, Station
    <2>2. CASE credentials # "none"
      BY <1>2, <2>1, <2>2 DEF Net!startup
    <2>3. CASE credentials = "none"
      <3>1. Net!ap_fallback(<<>>, "idle") /\ mode' = "ap"
        BY <2>1, <2>3 DEF Net!startup, Net!ap_fallback
      <3>2. Len(events') \in Nat /\ Len(events') <= 0 + 2
        BY <3>1, QueueLengths, FallbackLengths
      <3> QED
        BY <1>0, <3>1, <3>2 DEF Short
    <2> QED
      BY <2>2, <2>3
  <1>4. CASE OpenPage \/ Reboot
    BY <1>2, <1>4 DEF OpenPage, Reboot, Restart
  <1>5. CASE Proceed \/ StartFeeds \/ ConstructViews \/ SaveName \/ SavePassword \/ FeedStep
             \/ UNCHANGED vars
    BY <1>1, <1>5
       DEF Proceed, StartFeeds, ConstructViews, SetupAt, SaveName, SavePassword, FeedStep,
           vars, netVars, radio
  <1>6. CASE Radio
    <2>0. ASSUME NEW l, NEW e \in Event, Net!Move(l, <<e>>), mode = "sta" PROVE Short'
      <3>1. Len(events) + 1 <= Room /\ events' = events \o <<e>> /\ mode' = mode
        <4>1. Len(<<e>>) = 1
          OBVIOUS
        <4> QED
          BY <2>0, <4>1 DEF Net!Move
      <3>2. Len(events') = Len(events) + 1
        BY <1>0, <3>1, QueueLengths
      <3> QED
        BY <1>0, <3>1, <3>2 DEF Short
    <2>1. CASE Net!Join
      <3>1. mode' = mode /\ events' = events \o <<>>
        BY <2>1 DEF Net!Join, Net!Move
      <3> QED
        BY <1>0, <1>1, <3>1
    <2>2. CASE Net!JoinFails \/ Net!Lose \/ Net!GetAddress
      BY <2>0, <2>2 DEF Net!JoinFails, Net!Lose, Net!GetAddress, NetInv, Station, Event
    <2>3. CASE Net!RangeChanges
      BY <1>1, <2>3 DEF Net!RangeChanges, Net!radio
    <2>4. CASE Net!GotIp \/ Net!Unhandled
      <3>1. events # <<>> /\ events' = Tail(events) /\ mode' = mode
        BY <2>4 DEF Net!GotIp, Net!Unhandled
      <3>2. Len(events') = Len(events) - 1
        BY <1>0, <3>1, QueueLengths
      <3> QED
        BY <1>0, <3>1, <3>2 DEF Short
    <2>5. CASE Net!AfterDelay
      <3>1. mode' = "sta" /\ events' = events /\ mode = "sta"
        BY <2>5 DEF Net!AfterDelay, NetInv, Station, Attempt, Retries
      <3> QED
        BY <1>1, <3>1
    <2>6. CASE Net!Disconnected
      <3>1. PICK retry \in {FALSE, Head(events) = "lost" /\ mode = "sta"} :
               LET l == IF retry THEN "joining" ELSE link
                   queue == Tail(events) \o (IF retry /\ link # "idle" THEN <<"left">> ELSE <<>>)
               IN  IF initial_connection_succeeded
                   THEN /\ handler' = "delay"
                        /\ link' = l /\ events' = queue
                        /\ UNCHANGED mode
                   ELSE /\ Net!ap_fallback(queue, l)
                        /\ UNCHANGED handler
        BY <2>6 DEF Net!Disconnected
      <3> DEFINE l == IF retry THEN "joining" ELSE link
                 q == Tail(events) \o (IF retry /\ link # "idle" THEN <<"left">> ELSE <<>>)
      <3>2. events # <<>>
        BY <2>6 DEF Net!Disconnected
      <3>3. /\ q \in Seq(Event) /\ Len(q) \in Nat /\ Len(q) <= Len(events)
            /\ ~retry => Len(q) <= Len(events) - 1
        <4>1. Tail(events) \in Seq(Event) /\ Len(Tail(events)) = Len(events) - 1 /\ "left" \in Event
          BY <1>0, <3>2, QueueLengths DEF Event
        <4>2. CASE retry /\ link # "idle"
          <5>1. q = Tail(events) \o <<"left">>
            BY <4>2
          <5> HIDE DEF q
          <5>2. q \in Seq(Event) /\ Len(q) = Len(events) - 1 + 1
            BY <4>1, <5>1, QueueLengths
          <5> QED
            BY <1>0, <4>2, <5>2
        <4>3. CASE ~(retry /\ link # "idle")
          <5>1. q = Tail(events)
            <6>1. q = Tail(events) \o <<>>
              BY <4>3
            <6> QED
              BY ONLY <4>1, <6>1, QueueLengths
          <5> HIDE DEF q
          <5>2. Len(q) \in Nat
            BY <4>1, <5>1, QueueLengths
          <5> QED
            BY <1>0, <4>1, <5>1, <5>2
        <4> QED
          BY <4>2, <4>3
      <3>4. CASE initial_connection_succeeded
        <4>1. events' = q /\ mode' = mode
          BY <3>1, <3>4
        <4> HIDE DEF q
        <4> QED
          BY <1>0, <3>3, <4>1 DEF Short
      <3>5. CASE ~initial_connection_succeeded
        <4>1. Net!ap_fallback(q, l) /\ mode' = "ap"
          BY <3>1, <3>5 DEF Net!ap_fallback
        <4>2. mode = "ap" => l = "idle" /\ ~retry
          BY DEF NetInv, Station
        <4> HIDE DEF q, l
        <4>3. /\ Len(events') \in Nat /\ Len(events') <= Len(q) + 2
              /\ mode = "ap" => Len(events') = Len(q)
          BY <3>3, <4>1, <4>2, FallbackLengths
        <4> QED
          BY <1>0, <3>3, <4>1, <4>2, <4>3 DEF Short
      <3> QED
        BY <3>4, <3>5
    <2> QED
      BY <1>6, <2>1, <2>2, <2>3, <2>4, <2>5, <2>6 DEF Radio, Net!NetNext, Net!wifi_event
  <1> QED
    BY <1>3, <1>4, <1>5, <1>6 DEF Next, Setup

\* The settings, the counts and the bits of the library.
LEMMA SettingsKeep ==
    ASSUME Settings, [Next]_vars
    PROVE  Settings'
  <1>1. CASE Setup \/ OpenPage \/ Reboot \/ FeedStep \/ UNCHANGED vars
    BY <1>1 DEF Settings, Setup, Startup, Proceed, StartFeeds, ConstructViews, Net!startup, Net!world,
                OpenPage, Reboot, Restart, FeedStep, vars, netVars
  <1>2. CASE SaveName \/ SavePassword
    BY <1>2 DEF Settings, SaveName, SavePassword
  <1>3. CASE Radio
    <2>1. CASE Net!RangeChanges
      <3>1. changes \in 0 .. Changes /\ Changes \in Nat /\ changes < Changes /\ changes' = changes + 1
        BY <2>1, ServicesAssumption DEF Settings, Net!RangeChanges
      <3>2. changes' \in 0 .. Changes
        BY ONLY <3>1
      <3> QED
        BY <2>1, <3>2 DEF Settings, Net!RangeChanges
    <2>2. CASE ~Net!RangeChanges
      BY <1>3, <2>2 DEF Settings, Radio, Net!NetNext, Net!wifi_event, Net!Join, Net!JoinFails,
                        Net!GetAddress, Net!Lose, Net!Move, Net!GotIp, Net!Disconnected,
                        Net!AfterDelay, Net!Unhandled, Net!world
    <2> QED
      BY <2>1, <2>2
  <1> QED
    BY <1>1, <1>2, <1>3 DEF Next

LEMMA BitsKeep ==
    ASSUME Bits, [Next]_vars
    PROVE  Bits'
  <1>1. CASE Proceed \/ StartFeeds \/ ConstructViews \/ SaveName \/ SavePassword \/ FeedStep
             \/ UNCHANGED vars
    BY <1>1 DEF Bits, Proceed, StartFeeds, ConstructViews, SaveName, SavePassword, FeedStep, vars,
                netVars, radio, flags
  <1>2. CASE Startup \/ OpenPage \/ Reboot
    BY <1>2 DEF Bits, Startup, Net!startup, Net!ap_fallback, OpenPage, Reboot, Restart
  <1>3. CASE Radio
    <2>1. CASE Net!Join \/ Net!JoinFails \/ Net!GetAddress \/ Net!Lose \/ Net!RangeChanges
      BY <2>1 DEF Bits, Net!Join, Net!JoinFails, Net!GetAddress, Net!Lose, Net!Move, Net!RangeChanges,
                  Net!radio, Net!flags
    <2>2. CASE Net!GotIp \/ Net!AfterDelay \/ Net!Unhandled
      BY <2>2 DEF Bits, Net!GotIp, Net!AfterDelay, Net!Unhandled, Net!flags
    <2>3. CASE Net!Disconnected
      BY <2>3 DEF Bits, Net!Disconnected, Net!ap_fallback, Net!flags
    <2> QED
      BY <1>3, <2>1, <2>2, <2>3 DEF Radio, Net!NetNext, Net!wifi_event
  <1> QED
    BY <1>1, <1>2, <1>3 DEF Next, Setup

\* The versions.
LEMMA CachedKeeps ==
    ASSUME Cached, [Next]_vars
    PROVE  Cached'
  <1>0. 0 \in Feed!Version
    BY ServicesAssumption DEF Feed!Version
  <1>1. CASE Startup \/ Proceed \/ SaveName \/ SavePassword \/ Radio \/ UNCHANGED vars
    BY <1>1 DEF Cached, Startup, Proceed, SaveName, SavePassword, Radio, vars, feedVars
  <1>2. CASE StartFeeds \/ ConstructViews
    BY <1>2 DEF Cached, StartFeeds, ConstructViews, Feed!start, Feed!Construct
  <1>3. CASE OpenPage \/ Reboot
    BY <1>0, <1>3 DEF Cached, OpenPage, Reboot, Restart, Feed!Reset
  <1>4. CASE FeedStep
    <2>1. CASE Feed!NewVersion
      <3>1. latest \in 0 .. Versions /\ latest # 0 /\ Versions \in Nat
        BY ServicesAssumption DEF Cached, Feed!Version
      <3>2. latest < Versions /\ latest' = latest + 1
        BY <2>1 DEF Feed!NewVersion
      <3>3. latest' \in 0 .. Versions /\ latest' # 0
        BY ONLY <3>1, <3>2
      <3> QED
        BY <2>1, <3>3 DEF Cached, Feed!NewVersion, Feed!Version
    <2>2. CASE Feed!ViewNext
      BY <2>2 DEF Cached, Feed!ViewNext, Feed!LookWeather, Feed!LookWotd, Feed!GetWotd
    <2>3. CASE FeedTask
      BY <2>3 DEF Cached, FeedTask, Feed!TaskNext, Feed!Fetch, Feed!Take, Feed!StoreFirst,
                  Feed!StoreSecond, Feed!StoreLast, Feed!Give, Feed!Wake
    <2> QED
      BY <1>4, <2>1, <2>2, <2>3 DEF FeedStep
  <1> QED
    BY <1>1, <1>2, <1>3, <1>4 DEF Next, Setup

\* Where setup is.
LEMMA PhasesKeep ==
    ASSUME Phases, [Next]_vars
    PROVE  Phases'
  <1>1. CASE Setup
    BY <1>1 DEF Phases, Setup, Startup, Proceed, StartFeeds, ConstructViews, SetupAt, feedVars
  <1>2. CASE OpenPage \/ Reboot
    <2>1. restarts \in 0 .. Restarts /\ Restarts \in Nat /\ restarts < Restarts /\ restarts' = restarts + 1
      BY <1>2, ServicesAssumption DEF Phases, OpenPage, Reboot, Restart
    <2>2. restarts' \in 0 .. Restarts
      BY ONLY <2>1
    <2> QED
      BY <1>2, <2>2 DEF Phases, OpenPage, Reboot, Restart, Feed!Reset
  <1>3. CASE SaveName \/ SavePassword \/ Radio \/ UNCHANGED vars
    BY <1>3 DEF Phases, SaveName, SavePassword, Radio, vars, feedVars
  <1>4. CASE FeedStep
    <2>1. setup' = setup /\ restarts' = restarts
      BY <1>4 DEF FeedStep
    <2>2. task = "none" => task' = "none"
      BY <1>4 DEF FeedStep, FeedTask, Feed!TaskNext, Feed!Fetch, Feed!Take, Feed!StoreFirst,
                  Feed!StoreSecond, Feed!StoreLast, Feed!Give, Feed!Wake, Feed!TaskAt,
                  Feed!ViewNext, Feed!LookWeather, Feed!LookWotd, Feed!GetWotd, Feed!NewVersion
    <2> QED
      BY <2>1, <2>2 DEF Phases
  <1> QED
    BY <1>1, <1>2, <1>3, <1>4 DEF Next

\* Power on.
LEMMA TypeInit == Init => TypeInv
  <1> SUFFICES ASSUME Init PROVE TypeInv
    OBVIOUS
  <1> USE ServicesAssumption
  <1>1. NetInv /\ FeedInv
    BY NetInit, FeedInit
  <1>2. Short
    BY QueueLengths DEF Init, Net!Init, Net!PowerOn, Short
  <1>3. Settings
    BY DEF Init, Net!Init, Settings
  <1>4. Bits
    BY DEF Init, Net!Init, Net!PowerOn, Bits
  <1>5. Cached
    BY DEF Init, Feed!Init, Cached, Feed!Version
  <1>6. Phases
    BY DEF Init, Feed!Init, Phases
  <1> QED
    BY <1>1, <1>2, <1>3, <1>4, <1>5, <1>6 DEF TypeInv

(***************************************************************************)
(* Every variable keeps its type; in particular the queue of events never  *)
(* outgrows the library's by more than what one call of ap_fallback adds,  *)
(* and no task of a feed runs before the network is up.                    *)
(***************************************************************************)
THEOREM TypeCorrect == Spec => []TypeOK
  <1>1. TypeInv /\ [Next]_vars => TypeInv'
    BY NetStep, FeedNext, ShortKeeps, SettingsKeep, BitsKeep, CachedKeeps, PhasesKeep DEF TypeInv
  <1>2. ASSUME TypeInv PROVE TypeOK
    <2>1. Net!TypeOK
      BY <1>2 DEF TypeInv, NetInv, Station, Short, Settings, Bits, Event, Net!TypeOK
    <2>2. Feed!TypeOK
      BY <1>2 DEF TypeInv, FeedInv, Places, Cached, Feed!TypeOK
    <2> QED
      BY <1>2, <2>1, <2>2 DEF TypeInv, Phases, TypeOK
  <1> QED
    BY <1>1, <1>2, TypeInit, PTL DEF Spec
-------------------------------------------------------------------------------
(***************************************************************************)
(* The interval, for every number that can be stored.                      *)
(***************************************************************************)
LEMMA EveryIntervalKept ==
    ASSUME NEW m \in Nat
    PROVE  Feed!Kept(m)
  <1> DEFINE x == m * 234375
             y == x % 16777216
  <1>1. x \in Nat /\ y \in Nat /\ y <= x /\ (x < 16777216 => y = x)
    OBVIOUS
  <1>2. 32 * x = 125 * (60000 * m)
    OBVIOUS
  <1>3. Feed!TicksOf(m) = (32 * y) \div 125
    BY DEF Feed!TicksOf
  <1>4. m <= 71 => x < 16777216
    OBVIOUS
  <1> HIDE DEF x, y
  <1>5. (32 * y) \div 125 <= 60000 * m
    BY <1>1, <1>2
  <1>6. y = x => (32 * y) \div 125 = 60000 * m
    BY <1>1, <1>2
  <1> QED
    BY <1>1, <1>3, <1>4, <1>5, <1>6 DEF Feed!Kept

(***************************************************************************)
(* No interval that the panel stores, or that is the default, is slept     *)
(* longer than entered, and up to 71 minutes each is slept as it stands.   *)
(***************************************************************************)
THEOREM IntervalsKeptAlways == Spec => []IntervalsKept
  <1>1. ASSUME FeedInv PROVE IntervalsKept
    <2>1. feed \in {"weather", "wotd"}
      BY <1>1 DEF FeedInv, Places
    <2>2. ASSUME NEW s \in Feed!Stored(feed) PROVE Feed!Minutes(feed, s) \in Nat
      <3>1. Feed!LeastMinutes[feed] \in Nat /\ Feed!DefaultMinutes[feed] \in Nat
        <4>1. CASE feed = "weather"
          BY <4>1 DEF Feed!LeastMinutes, Feed!DefaultMinutes
        <4>2. CASE feed = "wotd"
          BY <4>2 DEF Feed!LeastMinutes, Feed!DefaultMinutes
        <4> QED
          BY <2>1, <4>1, <4>2
      <3>2. Feed!MostMinutes \in Nat
        BY DEF Feed!MostMinutes
      <3>3. \A n \in 0 .. Feed!MostMinutes + 1 : Feed!save_int(feed, n) \in Nat
        BY <3>1, <3>2 DEF Feed!save_int
      <3>4. s \in Nat
        BY <2>2, <3>3 DEF Feed!Stored
      <3> QED
        BY <3>1, <3>4 DEF Feed!Minutes
    <2> QED
      BY <2>2, EveryIntervalKept DEF IntervalsKept, Feed!IntervalsKept
  <1> QED
    BY <1>1, FeedCorrect, PTL
===============================================================================
