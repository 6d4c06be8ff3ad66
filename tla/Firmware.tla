------------------------------- MODULE Firmware -------------------------------
(***************************************************************************)
(* The application (src/main.cpp, include/views, src/network/otafvu.cpp):  *)
(* the tasks that share current_state, the message manager and the map of  *)
(* mail notifications.                                                     *)
(*                                                                         *)
(*   "main"     setup(), then loop(): the four views                       *)
(*   "console"  lines typed on the USB serial port                         *)
(*   "ota"      firmware updates over the air                              *)
(*   Accounts   one IMAP notifier each, which calls mail_cb                *)
(*                                                                         *)
(* Nothing is locked: between two steps of a task any other may run.  A    *)
(* step is a read of current_state, an assignment to it, or one access to  *)
(* the manager's list: a call of the manager loads a word of the list in   *)
(* one step and stores it back in a later one.                             *)
(*                                                                         *)
(* An uncaught exception (a message number of -1 reaching bitset::test)    *)
(* aborts, which restarts the ESP32.  The board keeps what it shows.       *)
(***************************************************************************)
EXTENDS MessageNumbers, BitWords, Sequences, FiniteSets

CONSTANTS Accounts,     \* mail accounts configured in the admin panel
          MailIds,      \* message sequence numbers of the mailboxes
          IdsOf,        \* the ones each account's mailbox uses: from 1 in each,
                        \* so one number may be a mail of several accounts
          RawLines,     \* lines the operator sends to the board: <<kind, number>>
                        \* sets a message, <<"NJER">> erases all
          Order,        \* the views setup constructs, in its order:
                        \* <<"foo", "weather", "wotd", "time">>, or fewer
          Dates,        \* TRUE: a January 1st, FALSE: another day
          Blank, Foreign

Views == {"foo", "weather", "wotd", "time"}
Tasks == {"main", "console", "ota"} \cup Accounts

\* What this run of the firmware draws.
Contents == Views \cup {"newyear", "ota"} \cup MailIds

ASSUME FirmwareAssumption ==
    /\ Kinds = {"NORMAL", "EMERGENCY", "COMMERCIAL"}
    /\ IdsOf \in [Accounts -> SUBSET MailIds]
    /\ RawLines \subseteq (Kinds \X HwNums) \cup {<<"NJER">>}
    /\ Order \in Seq(Views) /\ Order # <<>> /\ Order[Len(Order)] = "time"
    /\ \A i, j \in DOMAIN Order : Order[i] = Order[j] => i = j
    /\ Dates \subseteq BOOLEAN /\ Dates # {}
    /\ Accounts \cap {"main", "console", "ota"} = {}
    /\ MailIds \cap (Views \cup {"newyear", "ota"}) = {}
    /\ Contents \cap {Blank, Foreign} = {}

VARIABLES
    state,      \* current_state
    reserved,   \* the manager's lists
    board,      \* the board
    num,        \* mid.number of each view, sub_mid, sys_msg
    mailMap,    \* mail_map
    known,      \* known_ids of each notifier: what it has announced
    pc,         \* where each task is; "off" before it is created
    local,      \* the locals of mail_cb, by account
    call,       \* the manager's call each task is in, with its local variables
    sweep,      \* change_state's position in its remove_all calls, by task
    built,      \* how many views setup has constructed
    timeDue,    \* the minute or the date differ from the ones drawn last
    newYear,    \* the clock says January 1st
    wiped,      \* a sweep of the NORMAL messages has begun (auxiliary)
    raced,      \* two calls of the manager have been under way at once (auxiliary)
    collided    \* two accounts have dealt with mails of one number (auxiliary)

managerVars == <<reserved, board>>
timeVars == <<timeDue, newYear>>
ghosts == <<wiped, raced, collided>>
vars == <<state, reserved, board, num, mailMap, known, pc, local, call, sweep,
          built, timeDue, newYear, wiped, raced, collided>>

Mgr == INSTANCE MessageManager

Unset == -2         \* a message identifier before its view exists
Unmapped == -2      \* mail_map.count(id) = 0

\* The kinds change_state clears, in its order.
Swept(to) == IF to = "OTAFVU" THEN <<"NORMAL", "COMMERCIAL">>
                              ELSE <<"NORMAL", "COMMERCIAL", "EMERGENCY">>
NoSweep == <<1, 0>>

States == {"BOOT", "IDLE", "EXCLUSIVE", "OTAFVU"}
MaybeNum == Nums \cup {NoNum, Unset}
NoLocal == [id |-> Unset, appeared |-> FALSE, num |-> NoNum]

(***************************************************************************)
(* Where a task is inside the manager: reserve has found a number and is   *)
(* about to mark it, update has tested the bit and is about to draw, hide  *)
(* has erased the message and is about to reset its bit, and remove, back  *)
(* from hide, is about to reset it again.                                  *)
(***************************************************************************)
Accesses == {"out", "mark", "draw", "reset", "again"}
NoCall == [at |-> "out", kind |-> "NORMAL", num |-> NoNum, word |-> {}]

MainPc == {"sys", "wifi", "ota", "accounts", "build", "buildSet", "ready",
           "loop", "time", "timeDay", "timeYear", "yearFind", "yearSet", "yearDraw", "yearRemove",
           "foo", "weather", "wotd", "aborted"}
ConsolePc == {"off", "idle", "sweep", "set", "leave"}
OtaPc == {"off", "listen", "sweep", "notice", "set", "receiving"}
MailPc == {"off", "idle", "mailSet", "test", "draw", "testGone", "erase"}

TypeOK ==
    /\ state \in States
    /\ Mgr!TypeOK
    /\ num \in [Views \cup {"newyear", "ota"} -> MaybeNum]
    /\ mailMap \in [MailIds -> MaybeNum]
    /\ known \in [Accounts -> SUBSET MailIds]
    /\ pc \in [Tasks -> MainPc \cup ConsolePc \cup OtaPc \cup MailPc]
    /\ pc["main"] \in MainPc /\ pc["console"] \in ConsolePc /\ pc["ota"] \in OtaPc
    /\ \A a \in Accounts : pc[a] \in MailPc
    /\ local \in [Accounts -> [id : MailIds \cup {Unset}, appeared : BOOLEAN,
                               num : Nums \cup {NoNum}]]
    /\ call \in [Tasks -> [at : Accesses, kind : Kinds, num : Nums \cup {NoNum},
                           word : SUBSET Nums]]
    /\ sweep \in [{"console", "ota"} -> (1 .. 4) \X (0 .. MsgCount)]
    /\ built \in 0 .. Len(Order)
    /\ timeDue \in BOOLEAN /\ newYear \in Dates
    /\ wiped \in BOOLEAN /\ raced \in BOOLEAN /\ collided \in BOOLEAN

\* TimeView's sub_mid.number is 0 for "no message".
FreshNums == [o \in Views \cup {"newyear", "ota"} |-> IF o = "newyear" THEN 0 ELSE Unset]

\* What a new run of the firmware starts with.
Fresh ==
    /\ state' = "BOOT"
    /\ num' = FreshNums
    /\ mailMap' = [i \in MailIds |-> Unmapped]
    /\ known' = [a \in Accounts |-> {}]
    /\ pc' = [t \in Tasks |-> IF t = "main" THEN "sys" ELSE "off"]
    /\ local' = [a \in Accounts |-> NoLocal]
    /\ call' = [t \in Tasks |-> NoCall]
    /\ sweep' = [t \in {"console", "ota"} |-> NoSweep]
    /\ built' = 0
    /\ timeDue' = TRUE
    /\ wiped' = FALSE /\ raced' = FALSE /\ collided' = FALSE

Init ==
    /\ state = "BOOT"
    /\ reserved = [k \in Kinds |-> {}]
    /\ board = [k \in Kinds |-> [h \in HwNums |-> Blank]]
    /\ num = FreshNums
    /\ mailMap = [i \in MailIds |-> Unmapped]
    /\ known = [a \in Accounts |-> {}]
    /\ pc = [t \in Tasks |-> IF t = "main" THEN "sys" ELSE "off"]
    /\ local = [a \in Accounts |-> NoLocal]
    /\ call = [t \in Tasks |-> NoCall]
    /\ sweep = [t \in {"console", "ota"} |-> NoSweep]
    /\ built = 0
    /\ timeDue = TRUE /\ newYear \in Dates
    /\ wiped = FALSE /\ raced = FALSE /\ collided = FALSE

Restart == Fresh /\ Mgr!Restart /\ UNCHANGED newYear

-------------------------------------------------------------------------------
(***************************************************************************)
(* Steps shared by several tasks.                                          *)
(***************************************************************************)
Goto(t, s) == pc' = [pc EXCEPT ![t] = s]

\* An exception nobody catches: no task runs on.
Abort == pc' = [t \in Tasks |-> IF t = "main" THEN "aborted" ELSE "off"]

(***************************************************************************)
(* A call of the manager is two accesses to a list, and one more in remove *)
(* (message_mgr.cpp).  The first takes the word of its message as it will  *)
(* be stored; an empty word stands for nothing to store.  What a call does *)
(* to the board is in the step of the access next to it; ManagerCalls      *)
(* takes these apart, too, and has no application around it.               *)
(***************************************************************************)
InCall(t) == call[t].at # "out"

Overlaps(t) == raced' = (raced \/ \E u \in Tasks \ {t} : InCall(u))

Enter(t, at, k, n, word) ==
    /\ ~InCall(t)
    /\ call' = [call EXCEPT ![t] = [at |-> at, kind |-> k, num |-> n, word |-> word]]
    /\ Overlaps(t)

Leaves(t) == call' = [call EXCEPT ![t] = NoCall] /\ UNCHANGED raced

Store(t) ==
    reserved' = [reserved EXCEPT ![call[t].kind] = StoreWord(@, call[t].num, call[t].word)]

Free == FindNextFree(reserved["NORMAL"])

\* reserve(MSG_NORMAL): next = find_next_free(list); without one it returns at once.
Find(t) ==
    /\ IF Free < 0
       THEN ~InCall(t) /\ Overlaps(t) /\ UNCHANGED call
       ELSE Enter(t, "mark", "NORMAL", Free, WordOf(reserved["NORMAL"], Free) \cup {Free})
    /\ UNCHANGED managerVars

\* Mutated form: reserve marks the lowest number in use, not the one below it.
MarkLowest(t) ==
    /\ call[t].at = "mark"
    /\ reserved' = [reserved EXCEPT !["NORMAL"] = @ \cup {call[t].num + 1}]
    /\ Leaves(t)
    /\ UNCHANGED board

\* list->set(next)
MarkReserved(t) ==
    /\ call[t].at = "mark"
    /\ Store(t)
    /\ Leaves(t)
    /\ UNCHANGED board

\* bitset::test and reset throw on a number of -1.
Throws(n) == n \notin Nums /\ Abort /\ UNCHANGED <<managerVars, call, raced>>

(***************************************************************************)
(* Task t draws o as message n of kind k and goes on at s: the bit is      *)
(* tested, and set if it is not, and the message drawn.                    *)
(***************************************************************************)
TestBit(t, k, n) ==
    /\ n \in Nums
    /\ Enter(t, "draw", k, n,
             IF n \in reserved[k] THEN {} ELSE WordOf(reserved[k], n) \cup {n})
    /\ UNCHANGED <<managerVars, pc>>

\* Mutated form: a message is drawn without its bit being set.
ShowUnmarked(t, k, o, n, s) ==
    \/ TestBit(t, k, n)
    \/ /\ call[t].at = "draw"
       /\ board' = Mgr!SetMessage(board, call[t].kind, InternalIdToHwId(call[t].num), o)
       /\ Leaves(t) /\ Goto(t, s)
       /\ UNCHANGED reserved
    \/ Throws(n)

Show(t, k, o, n, s) ==
    \/ TestBit(t, k, n)
    \/ /\ call[t].at = "draw"
       /\ IF call[t].word = {} THEN UNCHANGED reserved ELSE Store(t)
       /\ board' = Mgr!SetMessage(board, call[t].kind, InternalIdToHwId(call[t].num), o)
       /\ Leaves(t) /\ Goto(t, s)
    \/ Throws(n)

(***************************************************************************)
(* Task t erases message n of the NORMAL kind, by hide or by remove, and   *)
(* goes on at s.                                                           *)
(***************************************************************************)
EraseSlot(t, k, n) ==
    /\ n \in Nums
    /\ Enter(t, "reset", k, n, WordOf(reserved[k], n) \ {n})
    /\ board' = Mgr!DeleteMessage(board, k, InternalIdToHwId(n))
    /\ UNCHANGED <<reserved, pc>>

\* hide resets the bit; remove loads the word hide has just stored once more ...
ResetOnce(t) ==
    /\ call[t].at = "reset"
    /\ Store(t)
    /\ call' = [call EXCEPT ![t].at = "again"]
    /\ UNCHANGED <<board, raced, pc>>

\* ... and stores it; or this is the only reset there is.
ResetLast(t, at) ==
    /\ call[t].at = at
    /\ Store(t)
    /\ Leaves(t)
    /\ UNCHANGED board

Hide(t, n, s) ==
    \/ EraseSlot(t, "NORMAL", n)
    \/ ResetLast(t, "reset") /\ Goto(t, s)
    \/ Throws(n)

Remove(t, n, s) ==
    \/ EraseSlot(t, "NORMAL", n)
    \/ ResetOnce(t)
    \/ ResetLast(t, "again") /\ Goto(t, s)
    \/ Throws(n)

(***************************************************************************)
(* setup()                                                                 *)
(***************************************************************************)
ReserveSys ==
    /\ pc["main"] = "sys"
    /\ Mgr!Reserve("EMERGENCY", FindNextFree(reserved["EMERGENCY"]))
    /\ num' = [num EXCEPT !["ota"] = FindNextFree(reserved["EMERGENCY"])]
    /\ Goto("main", "wifi")
    /\ UNCHANGED <<state, mailMap, known, local, call, sweep, built, timeVars, ghosts>>

\* while(!NetworkManager::is_up()) delay(1000)
WifiUp ==
    /\ pc["main"] = "wifi"
    /\ Goto("main", "ota")
    /\ UNCHANGED <<state, managerVars, num, mailMap, known, local, call, sweep, built,
                   timeVars, ghosts>>

StartOta ==
    /\ pc["main"] = "ota"
    /\ pc' = [pc EXCEPT !["main"] = "accounts", !["ota"] = "listen"]
    /\ UNCHANGED <<state, managerVars, num, mailMap, known, local, call, sweep, built,
                   timeVars, ghosts>>

\* One notifier and its task per account, before the views exist.
StartAccounts ==
    /\ pc["main"] = "accounts"
    /\ \/ \E a \in Accounts : pc[a] = "off" /\ Goto(a, "idle")
       \/ (\A a \in Accounts : pc[a] # "off") /\ Goto("main", "build")
    /\ UNCHANGED <<state, managerVars, num, mailMap, known, local, call, sweep, built,
                   timeVars, ghosts>>

\* The constructor of the next view: reserve ...
BuildFind ==
    /\ pc["main"] = "build"
    /\ built < Len(Order)
    /\ Find("main")
    /\ IF Free < 0
       THEN /\ num' = [num EXCEPT ![Order[built + 1]] = Free]
            /\ built' = built + 1
            /\ UNCHANGED pc
       ELSE Goto("main", "buildSet") /\ UNCHANGED <<num, built>>
    /\ UNCHANGED <<state, mailMap, known, local, sweep, timeVars, wiped, collided>>

\* ... which marks the number and returns it.
BuildSet ==
    /\ pc["main"] = "buildSet"
    /\ MarkReserved("main")
    /\ num' = [num EXCEPT ![Order[built + 1]] = call["main"].num]
    /\ built' = built + 1
    /\ Goto("main", "build")
    /\ UNCHANGED <<state, mailMap, known, local, sweep, timeVars, wiped, collided>>

StartConsole ==
    /\ pc["main"] = "build"
    /\ built = Len(Order)
    /\ pc' = [pc EXCEPT !["main"] = "ready", !["console"] = "idle"]
    /\ UNCHANGED <<state, managerVars, num, mailMap, known, local, call, sweep, built,
                   timeVars, ghosts>>

\* change_state(startup_state)
Ready ==
    /\ pc["main"] = "ready"
    /\ state' = "IDLE"
    /\ Goto("main", "loop")
    /\ UNCHANGED <<managerVars, num, mailMap, known, local, call, sweep, built, timeVars,
                   ghosts>>

\* Mutated form: loop() does not look at the state.
LoopAlways ==
    /\ pc["main"] = "loop"
    /\ Goto("main", "time")
    /\ UNCHANGED <<state, managerVars, num, mailMap, known, local, call, sweep, built,
                   timeVars, ghosts>>

(***************************************************************************)
(* loop(): the state is read once, and then all four views are updated.    *)
(***************************************************************************)
Loop ==
    /\ pc["main"] = "loop"
    /\ state = "IDLE"
    /\ Goto("main", "time")
    /\ UNCHANGED <<state, managerVars, num, mailMap, known, local, call, sweep, built,
                   timeVars, ghosts>>

(***************************************************************************)
(* TimeView::update: the clock is read, and in a minute not yet drawn the  *)
(* time is drawn and then the greeting, on the date that was read.         *)
(***************************************************************************)
UpdateTime ==
    /\ pc["main"] = "time"
    /\ timeDue' = FALSE
    /\ Goto("main", IF ~timeDue THEN "foo" ELSE IF newYear THEN "timeYear" ELSE "timeDay")
    /\ UNCHANGED <<state, managerVars, num, mailMap, known, local, call, sweep, built,
                   newYear, ghosts>>

Greeted == num["newyear"] # 0

\* Mutated form: the time is only drawn while its bit is set.
DrawTimeIfReserved ==
    /\ \/ /\ pc["main"] = "timeYear"
          /\ num["time"] \in reserved["NORMAL"]
          /\ Show("main", "NORMAL", "time", num["time"], IF Greeted THEN "foo" ELSE "yearFind")
       \/ /\ pc["main"] = "timeDay"
          /\ num["time"] \in reserved["NORMAL"]
          /\ Show("main", "NORMAL", "time", num["time"], IF Greeted THEN "yearRemove" ELSE "foo")
       \/ /\ pc["main"] \in {"timeYear", "timeDay"}
          /\ num["time"] \notin reserved["NORMAL"]
          /\ Goto("main", "foo")
          /\ UNCHANGED <<managerVars, call, raced>>
    /\ UNCHANGED <<state, num, mailMap, known, local, sweep, built, timeVars, wiped, collided>>

DrawTime ==
    /\ \/ /\ pc["main"] = "timeYear"
          /\ Show("main", "NORMAL", "time", num["time"], IF Greeted THEN "foo" ELSE "yearFind")
       \/ /\ pc["main"] = "timeDay"
          /\ Show("main", "NORMAL", "time", num["time"], IF Greeted THEN "yearRemove" ELSE "foo")
    /\ UNCHANGED <<state, num, mailMap, known, local, sweep, built, timeVars, wiped, collided>>

YearFind ==
    /\ pc["main"] = "yearFind"
    /\ Find("main")
    /\ IF Free < 0
       THEN num' = [num EXCEPT !["newyear"] = Free] /\ Goto("main", "yearDraw")
       ELSE UNCHANGED num /\ Goto("main", "yearSet")
    /\ UNCHANGED <<state, mailMap, known, local, sweep, built, timeVars, wiped, collided>>

YearSet ==
    /\ pc["main"] = "yearSet"
    /\ MarkReserved("main")
    /\ num' = [num EXCEPT !["newyear"] = call["main"].num]
    /\ Goto("main", "yearDraw")
    /\ UNCHANGED <<state, mailMap, known, local, sweep, built, timeVars, wiped, collided>>

YearDraw ==
    /\ pc["main"] = "yearDraw"
    /\ Show("main", "NORMAL", "newyear", num["newyear"], "foo")
    /\ UNCHANGED <<state, num, mailMap, known, local, sweep, built, timeVars, wiped, collided>>

\* Mutated form: the greeting is forgotten without being removed.
YearRemoveForgets ==
    /\ pc["main"] = "yearRemove"
    /\ Goto("main", "foo")
    /\ num' = [num EXCEPT !["newyear"] = 0]
    /\ UNCHANGED <<managerVars, state, mailMap, known, local, call, sweep, built, timeVars,
                   ghosts>>

YearRemove ==
    /\ pc["main"] = "yearRemove"
    /\ Remove("main", num["newyear"], "foo")
    /\ num' = IF pc'["main"] = "foo" THEN [num EXCEPT !["newyear"] = 0] ELSE num
    /\ UNCHANGED <<state, mailMap, known, local, sweep, built, timeVars, wiped, collided>>

(***************************************************************************)
(* FooView, WeatherView and WotdView: nothing new, something to show, or   *)
(* (not for the weather) nothing left to show.  hide gives the number back *)
(* to the manager, but the view keeps it.                                  *)
(***************************************************************************)
Hides == {"foo", "wotd"}
AfterView(v) == CASE v = "foo" -> "weather" [] v = "weather" -> "wotd" [] v = "wotd" -> "loop"

Constructed == {Order[i] : i \in DOMAIN Order}

UpdateView(v) ==
    /\ pc["main"] = v
    /\ \/ ~InCall("main") /\ Goto("main", AfterView(v)) /\ UNCHANGED <<managerVars, call, raced>>
       \/ v \in Constructed /\ Show("main", "NORMAL", v, num[v], AfterView(v))
       \/ v \in Constructed \cap Hides /\ Hide("main", num[v], AfterView(v))
    /\ UNCHANGED <<state, num, mailMap, known, local, sweep, built, timeVars, wiped, collided>>

\* The clock: another minute, and perhaps another day.
Tick ==
    /\ timeDue' = TRUE
    /\ newYear' \in Dates
    /\ UNCHANGED <<state, managerVars, num, mailMap, known, pc, local, call, sweep, built,
                   ghosts>>

\* Account b knows a mail number i, or is in mail_cb about it.
Has(b, i) == i \in known[b] \/ local[b].id = i

(***************************************************************************)
(* mail_cb, called by the notifier of account a: message i has appeared ...*)
(***************************************************************************)
Appear(a, i) ==
    LET enter(n) == local' = [local EXCEPT ![a] = [id |-> i, appeared |-> TRUE, num |-> n]] IN
    /\ pc[a] = "idle"
    /\ IF mailMap[i] # Unmapped
       THEN enter(mailMap[i]) /\ Goto(a, "test") /\ UNCHANGED <<managerVars, call, raced>>
       ELSE /\ Find(a)
            /\ IF Free < 0 THEN enter(Free) /\ Goto(a, "test")
                           ELSE enter(NoNum) /\ Goto(a, "mailSet")
    /\ collided' = (collided \/ \E b \in Accounts \ {a} : Has(b, i))
    /\ UNCHANGED <<state, num, mailMap, known, sweep, built, timeVars, wiped>>

MailSet(a) ==
    /\ pc[a] = "mailSet"
    /\ MarkReserved(a)
    /\ local' = [local EXCEPT ![a].num = call[a].num]
    /\ Goto(a, "test")
    /\ UNCHANGED <<state, num, mailMap, known, sweep, built, timeVars, wiped, collided>>

\* mail_map[id] = mid; then the notifier adds the message to known_ids.
Remember(a) ==
    /\ mailMap' = [mailMap EXCEPT ![local[a].id] = local[a].num]
    /\ known' = [known EXCEPT ![a] = @ \cup {local[a].id}]

Forget(a) ==
    /\ mailMap' = [mailMap EXCEPT ![local[a].id] = Unmapped]
    /\ known' = [known EXCEPT ![a] = @ \ {local[a].id}]

Return(a) == local' = [local EXCEPT ![a] = NoLocal]

\* Mutated form: mail is drawn in every state.
MailTestSkipped(a) ==
    /\ pc[a] = "test"
    /\ Goto(a, "draw")
    /\ UNCHANGED <<state, managerVars, num, mailMap, known, local, call, sweep, built,
                   timeVars, ghosts>>

\* if(current_state == STATE_IDLE)
MailTest(a) ==
    /\ pc[a] = "test"
    /\ IF state = "IDLE"
       THEN Goto(a, "draw") /\ UNCHANGED <<mailMap, known, local>>
       ELSE Goto(a, "idle") /\ Remember(a) /\ Return(a)
    /\ UNCHANGED <<state, managerVars, num, call, sweep, built, timeVars, ghosts>>

MailDraw(a) ==
    /\ pc[a] = "draw"
    /\ Show(a, "NORMAL", local[a].id, local[a].num, "idle")
    /\ IF pc'[a] = "idle"
       THEN Remember(a) /\ Return(a) ELSE UNCHANGED <<mailMap, known, local>>
    /\ UNCHANGED <<state, num, sweep, built, timeVars, wiped, collided>>

\* ... or it has disappeared; a number of 0 means "no message".
Disappear(a, i) ==
    /\ pc[a] = "idle"
    /\ i \in known[a]
    /\ IF mailMap[i] \in {Unmapped, 0}
       THEN /\ known' = [known EXCEPT ![a] = @ \ {i}]
            /\ UNCHANGED <<pc, local>>
       ELSE /\ local' = [local EXCEPT ![a] =
                           [id |-> i, appeared |-> FALSE, num |-> mailMap[i]]]
            /\ Goto(a, "testGone")
            /\ UNCHANGED known
    /\ UNCHANGED <<state, managerVars, num, mailMap, call, sweep, built, timeVars, ghosts>>

MailTestGone(a) ==
    /\ pc[a] = "testGone"
    /\ IF state = "IDLE"
       THEN Goto(a, "erase") /\ UNCHANGED <<mailMap, known, local>>
       ELSE Goto(a, "idle") /\ Forget(a) /\ Return(a)
    /\ UNCHANGED <<state, managerVars, num, call, sweep, built, timeVars, ghosts>>

MailErase(a) ==
    /\ pc[a] = "erase"
    /\ Remove(a, local[a].num, "idle")
    /\ IF pc'[a] = "idle"
       THEN Forget(a) /\ Return(a) ELSE UNCHANGED <<mailMap, known, local>>
    /\ UNCHANGED <<state, num, sweep, built, timeVars, wiped, collided>>

(***************************************************************************)
(* change_state, as "console" (to EXCLUSIVE) and "ota" (to OTAFVU) run it. *)
(***************************************************************************)
Target(t) == IF t = "ota" THEN "OTAFVU" ELSE "EXCLUSIVE"
AfterSweep(t) == IF t = "ota" THEN "notice" ELSE "set"

(***************************************************************************)
(* remove_all goes on to the next number whose bit is set and removes that *)
(* message, or goes on to the next kind.  (Rounds that find the bit of     *)
(* their number unset change nothing and are not steps of their own.)      *)
(***************************************************************************)
SweepStep(t) ==
    LET kinds == Swept(Target(t))
        k == kinds[sweep[t][1]]
        ahead == {n \in reserved[k] : n >= sweep[t][2]} IN
    /\ pc[t] = "sweep"
    /\ \/ /\ ~InCall(t) /\ sweep[t][1] > Len(kinds)
          /\ sweep' = [sweep EXCEPT ![t] = NoSweep]
          /\ Goto(t, AfterSweep(t))
          /\ UNCHANGED <<managerVars, call, raced>>
       \/ /\ ~InCall(t) /\ sweep[t][1] <= Len(kinds) /\ ahead = {}
          /\ sweep' = [sweep EXCEPT ![t] = <<@[1] + 1, 0>>]
          /\ UNCHANGED <<managerVars, call, raced, pc>>
       \/ /\ sweep[t][1] <= Len(kinds) /\ ahead # {}
          /\ EraseSlot(t, k, FindFirst(ahead))
          /\ UNCHANGED sweep
       \/ ResetOnce(t) /\ UNCHANGED sweep
       \/ /\ ResetLast(t, "again")
          /\ sweep' = [sweep EXCEPT ![t] = <<@[1], call[t].num + 1>>]
          /\ UNCHANGED pc
    /\ wiped' = TRUE
    /\ UNCHANGED <<state, num, mailMap, known, local, built, timeVars, collided>>

\* current_state = to
SetState(t) ==
    /\ t \in {"console", "ota"}
    /\ pc[t] = "set"
    /\ state' = Target(t)
    /\ Goto(t, IF t = "ota" THEN "receiving" ELSE "idle")
    /\ UNCHANGED <<managerVars, num, mailMap, known, local, call, sweep, built, timeVars,
                   ghosts>>

(***************************************************************************)
(* sercon_line_callback.                                                   *)
(***************************************************************************)
\* Mutated form: accepted in every state.
ExclusiveOnAlways ==
    /\ pc["console"] = "idle"
    /\ Goto("console", "sweep")
    /\ UNCHANGED <<state, managerVars, num, mailMap, known, local, call, sweep, built,
                   timeVars, ghosts>>

ExclusiveOn ==
    /\ pc["console"] = "idle"
    /\ state = "IDLE"
    /\ Goto("console", "sweep")
    /\ UNCHANGED <<state, managerVars, num, mailMap, known, local, call, sweep, built,
                   timeVars, ghosts>>

ExclusiveOff ==
    /\ pc["console"] = "idle"
    /\ state = "EXCLUSIVE"
    /\ Goto("console", "leave")
    /\ UNCHANGED <<state, managerVars, num, mailMap, known, local, call, sweep, built,
                   timeVars, ghosts>>

Leave ==
    /\ pc["console"] = "leave"
    /\ state' = "IDLE"
    /\ Goto("console", "idle")
    /\ UNCHANGED <<managerVars, num, mailMap, known, local, call, sweep, built, timeVars,
                   ghosts>>

ConsoleReboot ==
    /\ pc["console"] = "idle"
    /\ state # "OTAFVU"
    /\ Restart

\* What the board makes of a line.
AfterLine(line) ==
    IF line = <<"NJER">> THEN [k \in Kinds |-> [h \in HwNums |-> Blank]]
                         ELSE Mgr!SetMessage(board, line[1], line[2], Foreign)

\* Any other line goes to the board as it is.
ConsoleLine ==
    /\ pc["console"] = "idle"
    /\ \E line \in RawLines : board' = AfterLine(line)
    /\ UNCHANGED <<state, reserved, num, mailMap, known, pc, local, call, sweep, built,
                   timeVars, ghosts>>

\* The admin panel runs once the network is up: its reset and reboot buttons.
AdminRuns == pc["main"] \notin {"sys", "wifi", "ota", "aborted"}

AdminReset ==
    /\ AdminRuns
    /\ \E line \in RawLines \cap {<<"NJER">>} : board' = AfterLine(line)
    /\ UNCHANGED <<state, reserved, num, mailMap, known, pc, local, call, sweep, built,
                   timeVars, ghosts>>

AdminReboot == AdminRuns /\ Restart

(***************************************************************************)
(* OTAFVUManager.                                                          *)
(***************************************************************************)
OtaStart ==
    /\ pc["ota"] = "listen"
    /\ Goto("ota", IF num["ota"] # 0 THEN "sweep" ELSE "set")
    /\ UNCHANGED <<state, managerVars, num, mailMap, known, local, call, sweep, built,
                   timeVars, ghosts>>

OtaNotice ==
    /\ pc["ota"] = "notice"
    /\ Show("ota", "EMERGENCY", "ota", num["ota"], "set")
    /\ UNCHANGED <<state, num, mailMap, known, local, sweep, built, timeVars, wiped, collided>>

\* on_error only writes a log line; the updater listens again.
OtaError ==
    /\ pc["ota"] = "receiving"
    /\ Goto("ota", "listen")
    /\ UNCHANGED <<state, managerVars, num, mailMap, known, local, call, sweep, built,
                   timeVars, ghosts>>

OtaEnd == pc["ota"] = "receiving" /\ Restart

Panic == pc["main"] = "aborted" /\ Restart

-------------------------------------------------------------------------------
Setup == ReserveSys \/ StartOta \/ StartAccounts \/ BuildFind \/ BuildSet \/ StartConsole \/ Ready
Year == YearFind \/ YearSet \/ YearDraw \/ YearRemove
MainStep == Setup \/ Loop \/ UpdateTime \/ DrawTime \/ Year \/ \E v \in Views \ {"time"} : UpdateView(v)

MailStep(a) == MailSet(a) \/ MailTest(a) \/ MailDraw(a) \/ MailTestGone(a) \/ MailErase(a)

ConsoleStep == SweepStep("console") \/ SetState("console") \/ Leave
OtaStep == SweepStep("ota") \/ OtaNotice \/ SetState("ota")

\* What happens to the firmware rather than in it.
Environment ==
    \/ WifiUp \/ Tick
    \/ \E a \in Accounts : \/ \E i \in IdsOf[a] : Appear(a, i)
                           \/ \E i \in MailIds : Disappear(a, i)
    \/ ExclusiveOn \/ ExclusiveOff \/ ConsoleReboot \/ ConsoleLine
    \/ AdminReset \/ AdminReboot
    \/ OtaStart \/ OtaError \/ OtaEnd

Next ==
    \/ MainStep
    \/ \E a \in Accounts : MailStep(a)
    \/ ConsoleStep \/ OtaStep
    \/ Environment
    \/ Panic

Spec == Init /\ [][Next]_vars

\* Every task runs again and again, and the clock goes on.
FairSpec ==
    /\ Spec
    /\ WF_vars(MainStep) /\ WF_vars(WifiUp) /\ WF_vars(Tick)
    /\ WF_vars(ConsoleStep) /\ WF_vars(OtaStep)
    /\ \A a \in Accounts : WF_vars(MailStep(a))
-------------------------------------------------------------------------------
(***************************************************************************)
(* Who holds which message of the NORMAL kind: the views theirs, also      *)
(* while they are hidden, TimeView its second one unless it is 0, and a    *)
(* mail the one mail_map has or mail_cb is about to put there.             *)
(***************************************************************************)
Owners == Views \cup {"newyear"} \cup MailIds

InCallback(a, i) == pc[a] \in {"test", "draw"} /\ local[a].id = i

Holds(o) ==
    Nums \cap
    (IF o \in MailIds
     THEN {mailMap[o]} \cup {local[a].num : a \in {b \in Accounts : InCallback(b, o)}}
     ELSE IF o = "newyear" THEN {num[o]} \ {0} ELSE {num[o]})

\* The exceptions, by the hazard they are listed as.
Undisturbed ==
    /\ ~wiped       \* a sweep has not emptied the list that views hold numbers of
    /\ ~raced       \* no two calls of the manager have been under way at once
    /\ ~collided    \* no two mailboxes have used one number, under which mail_map
                    \* keeps one message only

(***************************************************************************)
(* No two owners hold the same message, so none overwrites or erases what  *)
(* another shows, although a hidden view's number counts as free: numbers  *)
(* are only handed out below the lowest one in use.                        *)
(***************************************************************************)
NoSharing ==
    Undisturbed => \A o, p \in Owners : o # p => Holds(o) \cap Holds(p) = {}

(***************************************************************************)
(* What this run has on the board will be taken down again: it stands      *)
(* where its owner looks for it to replace or remove it, and if it is a    *)
(* mail, there is a notifier that has it and will report it gone.  This is *)
(* not said of number 0: mail_cb and TimeView take 0 for "no message", so  *)
(* the mail or the greeting that was given the last number stays.          *)
(***************************************************************************)
SlotShowsOwner ==
    Undisturbed =>
        \A n \in Nums \ {0}, o \in Owners :
            board["NORMAL"][InternalIdToHwId(n)] = o
                => /\ n \in Holds(o)
                   /\ o \in MailIds => \E a \in Accounts : Has(a, o)

(***************************************************************************)
(* The lists as far as the calls under way have taken effect: hide takes   *)
(* effect when it erases, reserve and update when they store and draw.     *)
(***************************************************************************)
Settled ==
    [k \in Kinds |-> reserved[k] \ {call[t].num : t \in {u \in Tasks :
        call[u].at \in {"reset", "again"} /\ call[u].kind = k}}]

AtOnce == INSTANCE MessageManager WITH reserved <- Settled

(***************************************************************************)
(* Until two calls are under way at once, the application's calls, though  *)
(* each is several steps between which other tasks run, take effect in one *)
(* step each, and it uses the manager in no other way: it implements       *)
(* MessageManager.                                                         *)
(***************************************************************************)
UsesManager == [][raced' \/ UNCHANGED AtOnce!vars \/ AtOnce!Next]_vars

(***************************************************************************)
(* Until two calls are under way at once, what this run has on the board   *)
(* has its bit set, so the next sweep takes it down, in the middle of      *)
(* calls, too, and whatever has been swept or drawn before.  (Afterwards   *)
(* it need not: a word stored back late clears another message's bit.)     *)
(***************************************************************************)
SweepsFindAll == ~raced => AtOnce!ShownIsReserved

InLoop == pc["main"] \in {"loop", "time", "timeDay", "timeYear", "yearFind", "yearSet", "yearDraw", "yearRemove",
                          "foo", "weather", "wotd"}

(***************************************************************************)
(* Somebody is still inside a change of state that began before the update *)
(* did: setup, or a line of the console.                                   *)
(***************************************************************************)
Belated == pc["main"] = "ready" \/ pc["console"] \in {"set", "leave"}

(***************************************************************************)
(* A firmware update, once begun, is left by a restart, or by the last     *)
(* step of a change of state that was under way before it began, which     *)
(* gives the display back in the middle of the update.  No line of the     *)
(* console begins a change during the update, not even after an error of   *)
(* it or while it starts once more.                                        *)
(***************************************************************************)
UpdateStays ==
    [][state = "OTAFVU" =>
        /\ state' \in {"OTAFVU", "BOOT"} \/ Belated
        /\ pc["console"] = "idle" => pc'["console"] \in {"idle", "off"}]_vars

\* The display has been given up, and no change of state is under way.
GivenUp ==
    /\ state \in {"EXCLUSIVE", "OTAFVU"}
    /\ InLoop
    /\ pc["console"] = "idle"
    /\ pc["ota"] \in {"listen", "receiving"}

\* Whoever had already seen the state IDLE has finished, too.
Frozen ==
    /\ GivenUp
    /\ pc["main"] = "loop"
    /\ \A a \in Accounts : pc[a] \notin {"draw", "erase"}

(***************************************************************************)
(* Then the firmware draws nothing any more, whatever mail arrives, and as *)
(* long as nobody changes the state no task begins to draw.                *)
(***************************************************************************)
DisplayFrozen ==
    [][Frozen => /\ GivenUp' => Frozen'
                 /\ \A k \in Kinds, h \in HwNums :
                      board'[k][h] \in Contents => board'[k][h] = board[k][h]]_vars

\* Giving up the display takes hold: the stragglers finish, and nobody else starts.
Quiesces == <>[]GivenUp => <>[]Frozen

TimeIsShown == num["time"] \in Nums /\ board["NORMAL"][InternalIdToHwId(num["time"])] = "time"

\* In the state IDLE the time comes (back) to the display, also after exclusive mode.
TimeReturns ==
    state = "IDLE" ~> TimeIsShown \/ state # "IDLE" \/ pc["main"] = "aborted"
===============================================================================
