--------------------------------- MODULE Feeds ---------------------------------
(***************************************************************************)
(* The weather (src/service/weather.cpp) and the word of the day           *)
(* (src/service/wordnik.cpp), each with its view: a task asks a server at  *)
(* an interval and stores the answer in a cache behind a semaphore, part   *)
(* by part; the view compares the time of the last store with the one it   *)
(* has drawn.  The two feeds share nothing, so a behaviour follows one of  *)
(* them, feed.                                                             *)
(*                                                                         *)
(* An answer is a version, which stands for what the server has to say at  *)
(* a time; a cached value is the version of each of its two parts: the     *)
(* numbers and the description, or the word and its definition.  Of the    *)
(* times only whether they differ is kept (fresh): no two stores are made  *)
(* in one tick.                                                            *)
(***************************************************************************)
EXTENDS Naturals

CONSTANT Versions       \* bound: versions 1 .. Versions

VARIABLES
    feed,           \* "weather" or "wotd"
    latest,         \* what the server answers now (external)
    task,           \* where the feed's task is
    answer,         \* what it is about to store
    sem,            \* cacheSemaphore: "none" (not created), "free" or "taken"
    first, second,  \* the parts of the cache
    fresh,          \* cache.last_updated is not last_weather.last_updated,
                    \* lastUpdate is not last_update
    view,           \* where the view is
    shown           \* the parts the view has drawn

feedVars == <<feed, latest, task, answer, sem, first, second, fresh, view, shown>>

Version == 0 .. Versions

TypeOK ==
    /\ feed \in {"weather", "wotd"}
    /\ latest \in Version \ {0} /\ answer \in Version
    /\ task \in {"none", "get", "take", "first", "second", "last", "give", "sleep"}
    /\ sem \in {"none", "free", "taken"}
    /\ first \in Version /\ second \in Version
    /\ fresh \in BOOLEAN
    /\ view \in {"none", "look", "get"}
    /\ shown \in Version \X Version
    \* Only the task keeps the semaphore over a step.
    /\ sem = "taken" <=> task \in {"first", "second", "last", "give"}

Init ==
    /\ feed \in {"weather", "wotd"}
    /\ latest = 1
    /\ task = "none" /\ answer = 0 /\ sem = "none"
    /\ first = 0 /\ second = 0 /\ fresh = FALSE
    /\ view = "none" /\ shown = <<0, 0>>

\* weather_start or wotd_start: the semaphore is given before the task runs.
start ==
    /\ task = "none"
    /\ sem' = "free" /\ task' = "get"
    /\ UNCHANGED <<feed, latest, answer, first, second, fresh, view, shown>>

\* The constructor of the view.
Construct ==
    /\ task # "none" /\ view = "none"
    /\ view' = "look"
    /\ UNCHANGED <<feed, latest, task, answer, sem, first, second, fresh, shown>>

\* A restart; what the board shows is drawn anew by the view only.
Reset ==
    /\ task' = "none" /\ answer' = 0 /\ sem' = "none"
    /\ first' = 0 /\ second' = 0 /\ fresh' = FALSE
    /\ view' = "none" /\ shown' = <<0, 0>>
    /\ UNCHANGED <<feed, latest>>

\* The server has something new (external).
NewVersion ==
    /\ latest < Versions
    /\ latest' = latest + 1
    /\ UNCHANGED <<feed, task, answer, sem, first, second, fresh, view, shown>>
-------------------------------------------------------------------------------
(* The interval. *)

DefaultMinutes == [weather |-> 60, wotd |-> 120]
LeastMinutes == [weather |-> 10, wotd |-> 60]
MostMinutes == 3600

\* save_int: what the panel stores when n is entered.
save_int(f, n) ==
    LET most == IF n < MostMinutes THEN n ELSE MostMinutes
    IN  IF most > LeastMinutes[f] THEN most ELSE LeastMinutes[f]

\* What a feed reads: 0 is no preference.
Minutes(f, stored) == IF stored = 0 THEN DefaultMinutes[f] ELSE stored

\* Mutated form: the product is signed.
TicksOfShort(m) == (32 * ((m * 234375) % 8388608)) \div 125

\* pdMS_TO_TICKS(m * 60 * 1000) at 1000 ticks a second: the milliseconds times
\* 1000, in 32 bits, divided by 1000.  60,000,000 m is 2^8 * 234375 m, and 2^32
\* is 2^8 * 16777216.
TicksOf(m) == (32 * ((m * 234375) % 16777216)) \div 125

-------------------------------------------------------------------------------
(* The task. *)

TaskAt(from, to) == task = from /\ task' = to

\* Mutated form: the task ends when a request fails.
FetchOnce(ok) ==
    /\ TaskAt("get", IF ok THEN "take" ELSE "none")
    /\ answer' = IF ok THEN latest ELSE answer
    /\ UNCHANGED <<feed, latest, sem, first, second, fresh, view, shown>>

\* http.GET and the parsing of what it returns; ok is the outcome of both.
Fetch(ok) ==
    /\ TaskAt("get", IF ok THEN "take" ELSE "sleep")
    /\ answer' = IF ok THEN latest ELSE answer
    /\ UNCHANGED <<feed, latest, sem, first, second, fresh, view, shown>>

Take ==
    /\ sem = "free"
    /\ TaskAt("take", "first")
    /\ sem' = "taken"
    /\ UNCHANGED <<feed, latest, answer, first, second, fresh, view, shown>>

StoreFirst ==
    /\ TaskAt("first", "second")
    /\ first' = answer
    /\ UNCHANGED <<feed, latest, answer, sem, second, fresh, view, shown>>

\* The weather is stamped before its description is stored, the word afterwards.
StoreSecond ==
    /\ TaskAt("second", "last")
    /\ IF feed = "weather"
       THEN fresh' = TRUE /\ UNCHANGED second
       ELSE second' = answer /\ UNCHANGED fresh
    /\ UNCHANGED <<feed, latest, answer, sem, first, view, shown>>

StoreLast ==
    /\ TaskAt("last", "give")
    /\ IF feed = "weather"
       THEN second' = answer /\ UNCHANGED fresh
       ELSE fresh' = TRUE /\ UNCHANGED second
    /\ UNCHANGED <<feed, latest, answer, sem, first, view, shown>>

Give ==
    /\ TaskAt("give", "sleep")
    /\ sem' = "free"
    /\ UNCHANGED <<feed, latest, answer, first, second, fresh, view, shown>>

\* The interval is over.
Wake ==
    /\ TaskAt("sleep", "get")
    /\ UNCHANGED <<feed, latest, answer, sem, first, second, fresh, view, shown>>
-------------------------------------------------------------------------------
(* The views.  A copy made under the semaphore is one step. *)

\* Mutated form: the copy is made without the semaphore.
LookWeatherUnguarded ==
    /\ feed = "weather" /\ view = "look"
    /\ fresh
    /\ fresh' = FALSE /\ shown' = <<first, second>>
    /\ UNCHANGED <<feed, latest, task, answer, sem, first, second, view>>

\* WeatherView: the time comes with the copy.
LookWeather ==
    /\ feed = "weather" /\ view = "look" /\ sem = "free"
    /\ fresh
    /\ fresh' = FALSE /\ shown' = <<first, second>>
    /\ UNCHANGED <<feed, latest, task, answer, sem, first, second, view>>

\* WotdView: the time is read first, and without the semaphore.
LookWotd ==
    /\ feed = "wotd" /\ view = "look"
    /\ fresh
    /\ fresh' = FALSE /\ view' = "get"
    /\ UNCHANGED <<feed, latest, task, answer, sem, first, second, shown>>

\* Mutated form: what is there is taken when the semaphore is not to be had.
GetWotdUnguarded ==
    /\ view = "get"
    /\ view' = "look" /\ shown' = <<first, second>>
    /\ UNCHANGED <<feed, latest, task, answer, sem, first, second, fresh>>

GetWotd ==
    /\ view = "get" /\ sem = "free"
    /\ view' = "look" /\ shown' = <<first, second>>
    /\ UNCHANGED <<feed, latest, task, answer, sem, first, second, fresh>>

TaskNext == (\E ok \in BOOLEAN : Fetch(ok)) \/ Take \/ StoreFirst \/ StoreSecond
                \/ StoreLast \/ Give \/ Wake
ViewNext == LookWeather \/ LookWotd \/ GetWotd
-------------------------------------------------------------------------------
(***************************************************************************)
(* What the board shows is one answer of the server, never the first part  *)
(* of one with the second of another: the parts are stored one by one, and *)
(* the word's view reads the time of the store unguarded.                  *)
(***************************************************************************)
ShownWhole == shown[1] = shown[2]

(***************************************************************************)
(* A view that sees no reason to draw has drawn what is in the cache: no   *)
(* store is between the time it compares and the text it copies, though    *)
(* the weather is stamped before its last part is stored and the word's    *)
(* time is read before its text.                                           *)
(***************************************************************************)
ShownCurrent == view = "look" /\ ~fresh /\ sem = "free" => shown = <<first, second>>

(***************************************************************************)
(* An interval of at most 71 minutes, however it was entered, is slept as  *)
(* it stands, and no interval is longer than entered.  From 72 minutes on  *)
(* the product wraps: the default of the word of the day, 120, becomes 48. *)
(***************************************************************************)
Stored(f) == {0} \cup {save_int(f, n) : n \in 0 .. MostMinutes + 1}
Kept(m) == TicksOf(m) <= 60000 * m /\ (m <= 71 => TicksOf(m) = 60000 * m)

\* (weather_start and wotd_start compute it, before the first request.)
IntervalsKept ==
    task = "get" /\ view = "none" =>
        \A m \in {Minutes(feed, s) : s \in Stored(feed)} : Kept(m)
===============================================================================
