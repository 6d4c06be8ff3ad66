---------------------------- MODULE FirmwareProofs ----------------------------
(***************************************************************************)
(* Firmware for any numbers of messages, accounts, views and mails, and    *)
(* any width of a word.  Type correctness: the invariant, one lemma per    *)
(* action, and the theorem.  Then what needs little more than the types:   *)
(* the update's state and the frozen display.  The second part, Calls,     *)
(* shows that until two calls of the manager overlap the application is a  *)
(* behaviour of MessageManager, and with it that a sweep misses nothing.   *)
(* The third, Sharing, shows that no two owners hold the same message.     *)
(***************************************************************************)
EXTENDS Firmware, MessageNumbersProofs

(***************************************************************************)
(* TypeOK is not inductive by itself.  A call of the manager is about a    *)
(* number of the bitset, a view under construction is one of Order, and a  *)
(* notifier reports the messages of its own mailbox only.                  *)
(***************************************************************************)
CallsNumbered == \A t \in Tasks : InCall(t) => call[t].num \in Nums

TypeInv ==
    /\ TypeOK
    /\ pc["main"] = "buildSet" => built < Len(Order)
    /\ CallsNumbered
    /\ \A a \in Accounts : known[a] \subseteq IdsOf[a]
    /\ \A a \in Accounts : pc[a] \notin {"off", "idle"} => local[a].id \in IdsOf[a]

\* The manager's numbers are those of Firmware.
LEMMA SameNumbers ==
    /\ Mgr!Nums = Nums /\ Mgr!HwNums = HwNums /\ Mgr!NoNum = NoNum
    /\ \A n : Mgr!InternalIdToHwId(n) = InternalIdToHwId(n)
  BY DEF Mgr!Nums, Nums, Mgr!HwNums, HwNums, Mgr!NoNum, NoNum, Mgr!InternalIdToHwId,
         InternalIdToHwId, Mgr!NJE_MIN_MSG_NUM, Mgr!NJE_MAX_MSG_NUM, NJE_MIN_MSG_NUM,
         NJE_MAX_MSG_NUM

\* Message numbers and the two marks for none are integers.
LEMMA NumbersAreInts == /\ Nums \subseteq Int
                        /\ \A n \in Nums : n >= 0
                        /\ NoNum = -1 /\ Unset = -2 /\ Unmapped = -2
                        /\ 0 \in Nums
  BY MsgCountAssumption DEF Nums, NoNum, Unset, Unmapped

\* setup constructs at least one view.
LEMMA OrderFacts == /\ Len(Order) \in Nat \ {0}
                    /\ \A i \in 1 .. Len(Order) : Order[i] \in Views
  BY FirmwareAssumption

\* What find_next_free finds is a number of the list or -1.
LEMMA FreeType == TypeOK => Free \in Nums \cup {NoNum}
  BY FindNextFreeFacts, SameNumbers, FirmwareAssumption DEF TypeOK, Mgr!TypeOK, Free

\* All three kinds are in use.
LEMMA NormalIsKind == "NORMAL" \in Kinds /\ "EMERGENCY" \in Kinds /\ "COMMERCIAL" \in Kinds
  BY FirmwareAssumption

\* The types of the calls, and of the auxiliary variables.
CallType == [Tasks -> [at : Accesses, kind : Kinds, num : Nums \cup {NoNum},
                       word : SUBSET Nums]]

Ghosts == wiped \in BOOLEAN /\ raced \in BOOLEAN /\ collided \in BOOLEAN

\* The part of TypeInv about the manager.
ManagerOK == Mgr!TypeOK /\ call \in CallType /\ CallsNumbered /\ Ghosts

\* TypeInv contains it.
LEMMA TypeInvManager == TypeInv => ManagerOK
  BY DEF TypeInv, TypeOK, ManagerOK, CallType, Ghosts

\* The invariant holds when the firmware starts.
LEMMA InitType == Init => TypeInv
<1> SUFFICES ASSUME Init PROVE TypeInv
  OBVIOUS
<1>1. state \in States /\ Mgr!TypeOK
  BY FirmwareAssumption, SameNumbers DEF Init, Mgr!TypeOK, States
<1>2. /\ num \in [Views \cup {"newyear", "ota"} -> MaybeNum]
      /\ mailMap \in [MailIds -> MaybeNum]
  BY NumbersAreInts DEF Init, FreshNums, MaybeNum
<1>3. /\ known \in [Accounts -> SUBSET MailIds]
      /\ local \in [Accounts -> [id : MailIds \cup {Unset}, appeared : BOOLEAN,
                               num : Nums \cup {NoNum}]]
      /\ call \in CallType
  BY NormalIsKind DEF Init, NoLocal, NoCall, CallType, Accesses
<1>4. /\ pc \in [Tasks -> MainPc \cup ConsolePc \cup OtaPc \cup MailPc]
      /\ pc["main"] \in MainPc /\ pc["console"] \in ConsolePc /\ pc["ota"] \in OtaPc
      /\ \A a \in Accounts : pc[a] \in MailPc
  BY FirmwareAssumption DEF Init, Tasks, MainPc, ConsolePc, OtaPc, MailPc
<1>5. sweep \in [{"console", "ota"} -> (1 .. 4) \X (0 .. MsgCount)]
  BY MsgCountAssumption DEF Init, NoSweep
<1>6. built \in 0 .. Len(Order)
  BY OrderFacts DEF Init
<1>6a. timeDue \in BOOLEAN /\ newYear \in Dates /\ Ghosts
  BY DEF Init, Ghosts
<1>7. TypeOK
  BY <1>1, <1>2, <1>3, <1>4, <1>5, <1>6, <1>6a DEF TypeOK, CallType, Ghosts
<1>8. QED
  BY <1>7, FirmwareAssumption DEF Init, TypeInv, CallsNumbered, InCall, NoCall, Tasks

\* WifiUp keeps the invariant.
LEMMA WifiUpType == TypeInv /\ WifiUp => TypeInv'
  BY FirmwareAssumption
  DEF WifiUp, TypeInv, TypeOK, CallsNumbered, InCall, Goto, managerVars, timeVars, ghosts, Tasks,
      MainPc, ConsolePc, OtaPc, MailPc, Mgr!TypeOK

\* Ready keeps the invariant.
LEMMA ReadyType == TypeInv /\ Ready => TypeInv'
  BY FirmwareAssumption
  DEF Ready, TypeInv, TypeOK, CallsNumbered, InCall, Goto, managerVars, timeVars, ghosts, Tasks,
      MainPc, ConsolePc, OtaPc, MailPc, States, Mgr!TypeOK

\* Loop keeps the invariant.
LEMMA LoopType == TypeInv /\ Loop => TypeInv'
  BY FirmwareAssumption
  DEF Loop, TypeInv, TypeOK, CallsNumbered, InCall, Goto, managerVars, timeVars, ghosts, Tasks,
      MainPc, ConsolePc, OtaPc, MailPc, Mgr!TypeOK

\* Tick keeps the invariant.
LEMMA TickType == TypeInv /\ Tick => TypeInv'
  BY FirmwareAssumption
  DEF Tick, TypeInv, TypeOK, CallsNumbered, InCall, Goto, managerVars, timeVars, ghosts, Tasks,
      MainPc, ConsolePc, OtaPc, MailPc, Mgr!TypeOK

\* ExclusiveOn keeps the invariant.
LEMMA ExclusiveOnType == TypeInv /\ ExclusiveOn => TypeInv'
  BY FirmwareAssumption
  DEF ExclusiveOn, TypeInv, TypeOK, CallsNumbered, InCall, Goto, managerVars, timeVars, ghosts, Tasks,
      MainPc, ConsolePc, OtaPc, MailPc, Mgr!TypeOK

\* ExclusiveOff keeps the invariant.
LEMMA ExclusiveOffType == TypeInv /\ ExclusiveOff => TypeInv'
  BY FirmwareAssumption
  DEF ExclusiveOff, TypeInv, TypeOK, CallsNumbered, InCall, Goto, managerVars, timeVars, ghosts, Tasks,
      MainPc, ConsolePc, OtaPc, MailPc, Mgr!TypeOK

\* Leave keeps the invariant.
LEMMA LeaveType == TypeInv /\ Leave => TypeInv'
  BY FirmwareAssumption
  DEF Leave, TypeInv, TypeOK, CallsNumbered, InCall, Goto, managerVars, timeVars, ghosts, Tasks,
      MainPc, ConsolePc, OtaPc, MailPc, States, Mgr!TypeOK

\* OtaStart keeps the invariant.
LEMMA OtaStartType == TypeInv /\ OtaStart => TypeInv'
  BY FirmwareAssumption
  DEF OtaStart, TypeInv, TypeOK, CallsNumbered, InCall, Goto, managerVars, timeVars, ghosts, Tasks,
      MainPc, ConsolePc, OtaPc, MailPc, Mgr!TypeOK

\* OtaError keeps the invariant.
LEMMA OtaErrorType == TypeInv /\ OtaError => TypeInv'
  BY FirmwareAssumption
  DEF OtaError, TypeInv, TypeOK, CallsNumbered, InCall, Goto, managerVars, timeVars, ghosts, Tasks,
      MainPc, ConsolePc, OtaPc, MailPc, Mgr!TypeOK

\* Where each task may be.
PcOK ==
    /\ pc \in [Tasks -> MainPc \cup ConsolePc \cup OtaPc \cup MailPc]
    /\ pc["main"] \in MainPc /\ pc["console"] \in ConsolePc /\ pc["ota"] \in OtaPc
    /\ \A a \in Accounts : pc[a] \in MailPc

\* The three tasks that always exist.
Names == {"main", "console", "ota"}

\* They are tasks, and no account is one of them.
LEMMA NamesAreTasks == /\ Names \subseteq Tasks /\ Accounts \subseteq Tasks
                       /\ \A a \in Accounts : a \notin Names
  BY FirmwareAssumption DEF Names, Tasks

\* The invariant says where each task is.
LEMMA TypeInvPc == TypeInv => PcOK
  BY DEF TypeInv, TypeOK, PcOK

\* A task that goes on moves itself and no other.
LEMMA GotoPc ==
    ASSUME PcOK, NEW t \in Tasks, NEW s, Goto(t, s),
           t = "main" => s \in MainPc, t = "console" => s \in ConsolePc,
           t = "ota" => s \in OtaPc, t \in Accounts => s \in MailPc
    PROVE  PcOK' /\ pc'[t] = s /\ \A u \in Tasks \ {t} : pc'[u] = pc[u]
  BY NamesAreTasks DEF PcOK, Goto, Names, Tasks

\* StartOta keeps the invariant.
LEMMA StartOtaType == TypeInv /\ StartOta => TypeInv'
<1> SUFFICES ASSUME TypeInv, StartOta PROVE TypeInv'
  OBVIOUS
<1>1. /\ PcOK' /\ pc'["main"] = "accounts" /\ pc'["ota"] = "listen"
      /\ \A t \in Tasks \ {"main", "ota"} : pc'[t] = pc[t]
  BY NamesAreTasks DEF TypeInv, TypeOK, PcOK, StartOta, Names, MainPc, OtaPc
<1>2. TypeOK'
  BY <1>1 DEF StartOta, TypeInv, TypeOK, PcOK, Mgr!TypeOK, managerVars, timeVars, ghosts
<1> QED
  BY <1>1, <1>2, NamesAreTasks DEF StartOta, TypeInv, CallsNumbered, InCall, Names

\* StartConsole keeps the invariant.
LEMMA StartConsoleType == TypeInv /\ StartConsole => TypeInv'
<1> SUFFICES ASSUME TypeInv, StartConsole PROVE TypeInv'
  OBVIOUS
<1>1. /\ PcOK' /\ pc'["main"] = "ready" /\ pc'["console"] = "idle"
      /\ \A t \in Tasks \ {"main", "console"} : pc'[t] = pc[t]
  BY NamesAreTasks DEF TypeInv, TypeOK, PcOK, StartConsole, Names, MainPc, ConsolePc
<1>2. TypeOK'
  BY <1>1
     DEF StartConsole, TypeInv, TypeOK, PcOK, Mgr!TypeOK, managerVars, timeVars, ghosts
<1> QED
  BY <1>1, <1>2, NamesAreTasks DEF StartConsole, TypeInv, CallsNumbered, InCall

\* StartAccounts keeps the invariant.
LEMMA StartAccountsType == TypeInv /\ StartAccounts => TypeInv'
<1> SUFFICES ASSUME TypeInv, StartAccounts PROVE TypeInv'
  OBVIOUS
<1>1. ASSUME NEW a \in Accounts, Goto(a, "idle") PROVE TypeInv'
  <2>1. PcOK' /\ pc'[a] = "idle" /\ \A u \in Tasks \ {a} : pc'[u] = pc[u]
    BY <1>1, TypeInvPc, GotoPc, NamesAreTasks DEF Names, MailPc
  <2>2. TypeOK'
    BY <2>1
       DEF StartAccounts, TypeInv, TypeOK, PcOK, Mgr!TypeOK, managerVars, timeVars, ghosts
  <2> QED
    BY <2>1, <2>2, NamesAreTasks DEF StartAccounts, TypeInv, CallsNumbered, InCall, Names
<1>2. CASE Goto("main", "build")
  <2>1. PcOK' /\ pc'["main"] = "build" /\ \A u \in Tasks \ {"main"} : pc'[u] = pc[u]
    BY <1>2, TypeInvPc, GotoPc, NamesAreTasks DEF Names, MainPc
  <2>2. TypeOK'
    BY <2>1
       DEF StartAccounts, TypeInv, TypeOK, PcOK, Mgr!TypeOK, managerVars, timeVars, ghosts
  <2> QED
    BY <2>1, <2>2, NamesAreTasks DEF StartAccounts, TypeInv, CallsNumbered, InCall, Names
<1> QED
  BY <1>1, <1>2 DEF StartAccounts

\* The manager's operations keep its lists and the board well-formed.
LEMMA ManagerTypes ==
    ASSUME Mgr!TypeOK, NEW k \in Kinds, NEW n
    PROVE  /\ Mgr!Reserve(k, n) => Mgr!TypeOK'
           /\ Mgr!Restart => Mgr!TypeOK'
<1>1. ASSUME Mgr!Reserve(k, n) PROVE Mgr!TypeOK'
  <2>1. n = FindNextFree(reserved[k])
    BY <1>1 DEF Mgr!Reserve, Mgr!FindNextFree, Mgr!FindFirst, FindNextFree, FindFirst
  <2>2. n \in Nums \cup {NoNum}
    BY <2>1, FindNextFreeFacts, SameNumbers DEF Mgr!TypeOK
  <2> QED
    BY <1>1, <2>2, SameNumbers, NumbersAreInts DEF Mgr!Reserve, Mgr!TypeOK
<1>2. ASSUME Mgr!Restart PROVE Mgr!TypeOK'
  BY <1>2 DEF Mgr!Restart, Mgr!TypeOK
<1> QED
  BY <1>1, <1>2

\* A word is a set of bits.
LEMMA WordType ==
    ASSUME NEW bits \in SUBSET Nums, NEW n \in Nums
    PROVE  /\ WordOf(bits, n) \cup {n} \in SUBSET Nums
           /\ WordOf(bits, n) \ {n} \in SUBSET Nums
           /\ \A word \in SUBSET Nums : StoreWord(bits, n, word) \in SUBSET Nums
  BY DEF WordOf, StoreWord

\* A call that begins is well-formed.
LEMMA EnterType ==
    ASSUME ManagerOK, NEW t \in Tasks, NEW at \in Accesses, NEW k \in Kinds, NEW n \in Nums,
           NEW word \in SUBSET Nums, Enter(t, at, k, n, word)
    PROVE  call' \in CallType /\ CallsNumbered' /\ raced' \in BOOLEAN
<1>1. call' \in CallType
  BY DEF Enter, ManagerOK, CallType
<1>2. CallsNumbered'
  BY DEF Enter, ManagerOK, CallType, CallsNumbered, InCall
<1>3. raced' \in BOOLEAN
  BY DEF Enter, Overlaps, ManagerOK, Ghosts
<1> QED
  BY <1>1, <1>2, <1>3

\* Storing a word keeps the lists well-formed.
LEMMA StoreType ==
    ASSUME ManagerOK, NEW t \in Tasks, Store(t)
    PROVE  /\ reserved' \in [Kinds -> SUBSET Nums]
           /\ \A k \in Kinds : k # call[t].kind => reserved'[k] = reserved[k]
<1>1. /\ call[t].kind \in Kinds /\ call[t].word \in SUBSET Nums
      /\ reserved \in [Kinds -> SUBSET Nums]
  BY SameNumbers DEF ManagerOK, CallType, Mgr!TypeOK
<1>2. \A k \in Kinds : StoreWord(reserved[k], call[t].num, call[t].word) \in SUBSET Nums
  BY <1>1 DEF StoreWord, WordOf
<1> QED
  BY <1>1, <1>2 DEF Store

\* A task that leaves the manager is in no call.
LEMMA LeavesType ==
    ASSUME ManagerOK, NEW t \in Tasks, Leaves(t), UNCHANGED <<wiped, collided>>
    PROVE  /\ call' \in CallType /\ CallsNumbered' /\ Ghosts'
           /\ call'[t] = NoCall /\ \A u \in Tasks \ {t} : call'[u] = call[u]
<1>1. NoCall \in [at : Accesses, kind : Kinds, num : Nums \cup {NoNum}, word : SUBSET Nums]
  BY NormalIsKind DEF NoCall, Accesses
<1>2. /\ call' \in CallType /\ call'[t] = NoCall
      /\ \A u \in Tasks \ {t} : call'[u] = call[u]
  BY <1>1 DEF Leaves, ManagerOK, CallType
<1>3. CallsNumbered'
  BY <1>2 DEF ManagerOK, CallsNumbered, InCall, NoCall
<1> QED
  BY <1>2, <1>3 DEF Leaves, ManagerOK, Ghosts

\* An abort stops every task.
LEMMA AbortPc == Abort => /\ PcOK' /\ pc'["main"] = "aborted"
                          /\ \A u \in Tasks \ {"main"} : pc'[u] = "off"
  BY NamesAreTasks DEF Abort, PcOK, Names, MainPc, ConsolePc, OtaPc, MailPc

\* Finding a number keeps the manager well-formed.
LEMMA FindType ==
    ASSUME ManagerOK, TypeOK, NEW t \in Tasks, Find(t),
           UNCHANGED wiped, collided' \in BOOLEAN
    PROVE  ManagerOK'
<1>1. Free \in Nums \cup {NoNum} /\ reserved["NORMAL"] \in SUBSET Nums
  BY FreeType, NormalIsKind, SameNumbers DEF ManagerOK, Mgr!TypeOK
<1>2. Mgr!TypeOK'
  BY DEF Find, managerVars, ManagerOK, Mgr!TypeOK
<1>3. CASE Free < 0
  BY <1>2, <1>3 DEF Find, Overlaps, ManagerOK, CallsNumbered, InCall, Ghosts
<1>4. CASE ~(Free < 0)
  <2>1. Free \in Nums
    BY <1>1, <1>4, NumbersAreInts
  <2>2. WordOf(reserved["NORMAL"], Free) \cup {Free} \in SUBSET Nums
    BY <1>1, <2>1, WordType
  <2>3. Enter(t, "mark", "NORMAL", Free, WordOf(reserved["NORMAL"], Free) \cup {Free})
    BY <1>4 DEF Find
  <2> QED
    BY <1>2, <2>1, <2>2, <2>3, EnterType, NormalIsKind DEF ManagerOK, Ghosts, Accesses
<1> QED
  BY <1>3, <1>4

\* So does marking it.
LEMMA MarkType ==
    ASSUME ManagerOK, NEW t \in Tasks, MarkReserved(t), UNCHANGED <<wiped, collided>>
    PROVE  ManagerOK' /\ call[t].num \in Nums
<1>1. Mgr!TypeOK'
  BY StoreType, SameNumbers DEF MarkReserved, ManagerOK, Mgr!TypeOK
<1> QED
  BY <1>1, LeavesType DEF MarkReserved, ManagerOK, CallsNumbered, InCall

\* A number of -1 aborts and leaves the rest as it is.
LEMMA ThrowsType ==
    ASSUME ManagerOK, NEW n, Throws(n), UNCHANGED <<wiped, collided>>
    PROVE  ManagerOK'
  BY DEF Throws, managerVars, ManagerOK, Mgr!TypeOK, CallsNumbered, InCall, Ghosts

\* Slots are on the board.
LEMMA SlotType == \A n \in Nums : InternalIdToHwId(n) \in HwNums
  BY HwIdOfNum

\* Drawing keeps the manager well-formed.
LEMMA ShowType ==
    ASSUME ManagerOK, NEW t \in Tasks, NEW k \in Kinds, NEW o \in Contents, NEW n, NEW s,
           Show(t, k, o, n, s), UNCHANGED <<wiped, collided>>
    PROVE  ManagerOK' /\ (Goto(t, s) \/ Abort \/ UNCHANGED pc)
<1>1. CASE TestBit(t, k, n)
  <2>1. reserved[k] \in SUBSET Nums /\ n \in Nums
    BY <1>1, SameNumbers DEF ManagerOK, Mgr!TypeOK, TestBit
  <2>2. (IF n \in reserved[k] THEN {} ELSE WordOf(reserved[k], n) \cup {n}) \in SUBSET Nums
    BY <2>1, WordType
  <2> QED
    BY <1>1, <2>1, <2>2, EnterType
       DEF TestBit, managerVars, ManagerOK, Mgr!TypeOK, Ghosts, Accesses
<1>2. ASSUME call[t].at = "draw",
             UNCHANGED reserved \/ Store(t),
             board' = Mgr!SetMessage(board, call[t].kind, InternalIdToHwId(call[t].num), o),
             Leaves(t)
      PROVE  ManagerOK'
  <2>1. reserved' \in [Kinds -> SUBSET Nums]
    BY <1>2, StoreType, SameNumbers DEF ManagerOK, Mgr!TypeOK
  <2>2. board' \in [Kinds -> [HwNums -> Contents \cup {Blank, Foreign}]]
    BY <1>2, SameNumbers DEF ManagerOK, Mgr!TypeOK, Mgr!SetMessage
  <2> QED
    BY <1>2, <2>1, <2>2, LeavesType, SameNumbers DEF ManagerOK, Mgr!TypeOK
<1>3. CASE Throws(n)
  BY <1>3, ThrowsType DEF Throws
<1> QED
  BY <1>1, <1>2, <1>3 DEF Show, TestBit

\* Erasing begins a call, too.
LEMMA EraseType ==
    ASSUME ManagerOK, NEW t \in Tasks, NEW k \in Kinds, NEW n, EraseSlot(t, k, n),
           UNCHANGED <<wiped, collided>>
    PROVE  call' \in CallType /\ CallsNumbered' /\ Ghosts' /\ Mgr!TypeOK'
<1>1. reserved[k] \in SUBSET Nums /\ n \in Nums
  BY SameNumbers DEF ManagerOK, Mgr!TypeOK, EraseSlot
<1>2. WordOf(reserved[k], n) \ {n} \in SUBSET Nums
  BY <1>1, WordType
<1>3. Mgr!TypeOK'
  BY SameNumbers DEF EraseSlot, ManagerOK, Mgr!TypeOK, Mgr!DeleteMessage
<1> QED
  BY <1>1, <1>2, <1>3, EnterType DEF EraseSlot, Accesses, ManagerOK, Ghosts

\* Resetting the bit keeps the manager well-formed.
LEMMA ResetType ==
    ASSUME ManagerOK, NEW t \in Tasks, NEW at, ResetOnce(t) \/ ResetLast(t, at),
           UNCHANGED <<wiped, collided>>
    PROVE  ManagerOK'
<1>1. Mgr!TypeOK'
  BY StoreType, SameNumbers DEF ResetOnce, ResetLast, ManagerOK, Mgr!TypeOK
<1>2. CASE ResetOnce(t)
  <2>1. call' \in CallType
    BY <1>2 DEF ResetOnce, ManagerOK, CallType, Accesses
  <2>2. CallsNumbered'
    BY <1>2 DEF ResetOnce, ManagerOK, CallType, CallsNumbered, InCall
  <2> QED
    BY <1>1, <1>2, <2>1, <2>2 DEF ResetOnce, ManagerOK, Ghosts
<1>3. CASE ResetLast(t, at)
  BY <1>1, <1>3, LeavesType DEF ResetLast, ManagerOK
<1> QED
  BY <1>2, <1>3

\* So do hide and remove as a whole.
LEMMA RemoveType ==
    ASSUME ManagerOK, NEW t \in Tasks, NEW n, NEW s, Hide(t, n, s) \/ Remove(t, n, s),
           UNCHANGED <<wiped, collided>>
    PROVE  ManagerOK' /\ (Goto(t, s) \/ Abort \/ UNCHANGED pc)
<1>1. CASE EraseSlot(t, "NORMAL", n)
  BY <1>1, EraseType, NormalIsKind DEF EraseSlot, ManagerOK
<1>2. CASE ResetOnce(t)
  BY <1>2, ResetType DEF ResetOnce
<1>3. ASSUME NEW at, ResetLast(t, at) PROVE ManagerOK'
  BY <1>3, ResetType
<1>4. CASE Throws(n)
  BY <1>4, ThrowsType DEF Throws
<1> QED
  BY <1>1, <1>2, <1>3, <1>4 DEF Hide, Remove

\* The part of TypeInv about the mails of the accounts.
MailsOK ==
    /\ known \in [Accounts -> SUBSET MailIds]
    /\ local \in [Accounts -> [id : MailIds \cup {Unset}, appeared : BOOLEAN,
                               num : Nums \cup {NoNum}]]
    /\ \A a \in Accounts : known[a] \subseteq IdsOf[a]
    /\ \A a \in Accounts : pc[a] \notin {"off", "idle"} => local[a].id \in IdsOf[a]

\* The rest of it, and the whole.
DataOK ==
    /\ state \in States
    /\ num \in [Views \cup {"newyear", "ota"} -> MaybeNum]
    /\ mailMap \in [MailIds -> MaybeNum]
    /\ sweep \in [{"console", "ota"} -> (1 .. 4) \X (0 .. MsgCount)]
    /\ built \in 0 .. Len(Order)
    /\ timeDue \in BOOLEAN /\ newYear \in Dates

BuildOK == pc["main"] = "buildSet" => built < Len(Order)

\* The five parts are all of it.
LEMMA TypeParts == TypeInv <=> ManagerOK /\ PcOK /\ MailsOK /\ DataOK /\ BuildOK
  BY DEF TypeInv, TypeOK, ManagerOK, PcOK, MailsOK, DataOK, BuildOK, CallType, Ghosts

\* The messages of an account are messages.
LEMMA IdFacts == \A a \in Accounts : IdsOf[a] \subseteq MailIds
  BY FirmwareAssumption

\* A step of the main task that goes to s, stays or aborts.
LEMMA MainMoves ==
    ASSUME PcOK, NEW s \in MainPc, Goto("main", s) \/ Abort \/ UNCHANGED pc
    PROVE  /\ PcOK'
           /\ pc'["main"] \in {s, "aborted", pc["main"]}
           /\ \A u \in Tasks \ {"main"} : pc'[u] \in {pc[u], "off"}
<1>1. CASE Goto("main", s)
  BY <1>1, GotoPc, NamesAreTasks DEF Names
<1>2. CASE Abort
  BY <1>2, AbortPc
<1>3. CASE UNCHANGED pc
  BY <1>3 DEF PcOK
<1> QED
  BY <1>1, <1>2, <1>3

\* It keeps the invariant if it keeps the manager's part and that of its numbers.
LEMMA MainStepType ==
    ASSUME TypeInv, ManagerOK', NEW s \in MainPc, Goto("main", s) \/ Abort \/ UNCHANGED pc,
           s = "buildSet" \/ pc'["main"] = "buildSet" => built' < Len(Order),
           num' \in [Views \cup {"newyear", "ota"} -> MaybeNum],
           built' \in 0 .. Len(Order), timeDue' \in BOOLEAN,
           UNCHANGED <<state, mailMap, known, local, sweep, newYear>>
    PROVE  TypeInv'
<1>1. /\ PcOK'
      /\ \A u \in Tasks \ {"main"} : pc'[u] \in {pc[u], "off"}
  BY MainMoves, TypeParts
<1>2. DataOK'
  BY TypeParts DEF DataOK
<1>3. \A a \in Accounts : pc'[a] \notin {"off", "idle"} => local'[a].id \in IdsOf[a]
  BY <1>1, TypeParts, NamesAreTasks DEF MailsOK, Names
<1>4. MailsOK'
  BY <1>3, TypeParts DEF MailsOK
<1>5. BuildOK'
  BY DEF BuildOK
<1> QED
  BY <1>1, <1>2, <1>4, <1>5
     DEF TypeInv, TypeOK, ManagerOK, PcOK, MailsOK, DataOK, BuildOK, CallType, Ghosts

\* ReserveSys keeps the invariant.
LEMMA ReserveSysType == TypeInv /\ ReserveSys => TypeInv'
<1> SUFFICES ASSUME TypeInv, ReserveSys PROVE TypeInv'
  OBVIOUS
<1>1. ManagerOK'
  BY ManagerTypes, NormalIsKind, TypeParts
     DEF ReserveSys, ManagerOK, CallsNumbered, InCall, Ghosts, ghosts
<1>2. FindNextFree(reserved["EMERGENCY"]) \in Nums \cup {NoNum}
  BY FindNextFreeFacts, SameNumbers, NormalIsKind DEF TypeInv, TypeOK, Mgr!TypeOK
<1>3. num' \in [Views \cup {"newyear", "ota"} -> MaybeNum]
  BY <1>2 DEF ReserveSys, TypeInv, TypeOK, MaybeNum
<1>4. PcOK' /\ pc'["main"] = "wifi"
  BY TypeInvPc, GotoPc, NamesAreTasks DEF ReserveSys, Names, MainPc
<1>5. /\ Goto("main", "wifi") /\ "wifi" \in MainPc
      /\ UNCHANGED <<state, mailMap, known, local, sweep, newYear, timeDue, built>>
  BY DEF ReserveSys, MainPc, timeVars
<1> QED
  BY <1>1, <1>3, <1>4, <1>5, MainStepType, TypeParts DEF DataOK

\* BuildFind keeps the invariant.
LEMMA BuildFindType == TypeInv /\ BuildFind => TypeInv'
<1> SUFFICES ASSUME TypeInv, BuildFind PROVE TypeInv'
  OBVIOUS
<1>1. "main" \in Tasks /\ Free \in Nums \cup {NoNum} /\ TypeOK /\ ManagerOK
  BY FreeType, NamesAreTasks, TypeParts DEF Names, TypeInv
<1>2. ManagerOK'
  BY <1>1, FindType DEF BuildFind, ManagerOK, Ghosts
<1>3. num' \in [Views \cup {"newyear", "ota"} -> MaybeNum]
  BY <1>1 DEF BuildFind, TypeInv, TypeOK, MaybeNum
<1>4. /\ built < Len(Order) /\ built' \in {built, built + 1}
      /\ built' \in 0 .. Len(Order)
  BY OrderFacts DEF BuildFind, TypeInv, TypeOK
<1>5. /\ (Goto("main", "buildSet") /\ UNCHANGED built) \/ UNCHANGED pc
      /\ pc["main"] = "build" /\ "buildSet" \in MainPc
      /\ UNCHANGED <<state, mailMap, known, local, sweep, newYear, timeDue>>
  BY DEF BuildFind, MainPc, timeVars
<1>6. CASE UNCHANGED pc
  <2>1. Goto("main", "build") \/ Abort \/ UNCHANGED pc
    BY <1>6
  <2> QED
    BY <1>2, <1>3, <1>4, <1>5, <1>6, <2>1, MainStepType, TypeParts DEF DataOK, MainPc
<1>7. CASE Goto("main", "buildSet") /\ UNCHANGED built
  BY <1>2, <1>3, <1>4, <1>5, <1>7, MainStepType, TypeParts DEF DataOK
<1> QED
  BY <1>5, <1>6, <1>7

\* BuildSet keeps the invariant.
LEMMA BuildSetType == TypeInv /\ BuildSet => TypeInv'
<1> SUFFICES ASSUME TypeInv, BuildSet PROVE TypeInv'
  OBVIOUS
<1>1. "main" \in Tasks /\ ManagerOK
  BY NamesAreTasks, TypeParts DEF Names
<1>2. ManagerOK' /\ call["main"].num \in Nums
  BY <1>1, MarkType DEF BuildSet
<1>3. num' \in [Views \cup {"newyear", "ota"} -> MaybeNum]
  BY <1>2 DEF BuildSet, TypeInv, TypeOK, MaybeNum
<1>4. built' \in 0 .. Len(Order)
  BY OrderFacts DEF BuildSet, TypeInv, TypeOK
<1>5. PcOK' /\ pc'["main"] = "build"
  BY TypeInvPc, GotoPc, NamesAreTasks DEF BuildSet, Names, MainPc
<1>6. /\ Goto("main", "build") /\ "build" \in MainPc
      /\ UNCHANGED <<state, mailMap, known, local, sweep, newYear, timeDue>>
  BY DEF BuildSet, MainPc, timeVars
<1> QED
  BY <1>2, <1>3, <1>4, <1>5, <1>6, MainStepType, TypeParts DEF DataOK

\* A step of loop() that leaves the numbers as they are keeps the invariant.
LEMMA LoopStepType ==
    ASSUME TypeInv, ManagerOK', NEW s \in MainPc \ {"buildSet"}, pc["main"] # "buildSet",
           Goto("main", s) \/ Abort \/ UNCHANGED pc,
           num' \in [Views \cup {"newyear", "ota"} -> MaybeNum], timeDue' \in BOOLEAN,
           UNCHANGED <<state, mailMap, known, local, sweep, built, newYear>>
    PROVE  TypeInv'
<1>1. pc'["main"] # "buildSet"
  BY MainMoves, TypeParts
<1> QED
  BY <1>1, MainStepType, TypeParts DEF DataOK

\* UpdateTime keeps the invariant.
LEMMA UpdateTimeType == TypeInv /\ UpdateTime => TypeInv'
<1> SUFFICES ASSUME TypeInv, UpdateTime PROVE TypeInv'
  OBVIOUS
<1>1. ManagerOK'
  BY TypeParts
     DEF UpdateTime, managerVars, ghosts, ManagerOK, Mgr!TypeOK, CallsNumbered, InCall, Ghosts
<1>2. \E s \in {"foo", "timeYear", "timeDay"} : Goto("main", s)
  BY DEF UpdateTime
<1> QED
  BY <1>1, <1>2, LoopStepType, TypeParts DEF UpdateTime, MainPc, DataOK

\* DrawTime keeps the invariant.
LEMMA DrawTimeType == TypeInv /\ DrawTime => TypeInv'
<1> SUFFICES ASSUME TypeInv, DrawTime PROVE TypeInv'
  OBVIOUS
<1>1. PICK s \in {"foo", "yearFind", "yearRemove"} : Show("main", "NORMAL", "time", num["time"], s)
  BY DEF DrawTime
<1>2. ManagerOK' /\ (Goto("main", s) \/ Abort \/ UNCHANGED pc)
  BY <1>1, ShowType, NamesAreTasks, NormalIsKind, TypeParts
     DEF DrawTime, Names, Contents, Views
<1> QED
  BY <1>2, LoopStepType, TypeParts DEF DrawTime, timeVars, MainPc, DataOK

\* YearFind keeps the invariant.
LEMMA YearFindType == TypeInv /\ YearFind => TypeInv'
<1> SUFFICES ASSUME TypeInv, YearFind PROVE TypeInv'
  OBVIOUS
<1>1. "main" \in Tasks /\ Free \in Nums \cup {NoNum} /\ TypeOK /\ ManagerOK
  BY FreeType, NamesAreTasks, TypeParts DEF Names, TypeInv
<1>2. ManagerOK'
  BY <1>1, FindType DEF YearFind, ManagerOK, Ghosts
<1>3. num' \in [Views \cup {"newyear", "ota"} -> MaybeNum]
  BY <1>1 DEF YearFind, TypeInv, TypeOK, MaybeNum
<1>4. \E s \in {"yearDraw", "yearSet"} : Goto("main", s)
  BY DEF YearFind
<1> QED
  BY <1>2, <1>3, <1>4, LoopStepType, TypeParts DEF YearFind, timeVars, MainPc, DataOK

\* YearSet keeps the invariant.
LEMMA YearSetType == TypeInv /\ YearSet => TypeInv'
<1> SUFFICES ASSUME TypeInv, YearSet PROVE TypeInv'
  OBVIOUS
<1>1. ManagerOK' /\ call["main"].num \in Nums
  BY NamesAreTasks, MarkType, TypeParts DEF YearSet, Names
<1>2. num' \in [Views \cup {"newyear", "ota"} -> MaybeNum]
  BY <1>1 DEF YearSet, TypeInv, TypeOK, MaybeNum
<1> QED
  BY <1>1, <1>2, LoopStepType, TypeParts DEF YearSet, timeVars, MainPc, DataOK

\* YearDraw keeps the invariant.
LEMMA YearDrawType == TypeInv /\ YearDraw => TypeInv'
<1> SUFFICES ASSUME TypeInv, YearDraw PROVE TypeInv'
  OBVIOUS
<1>1. ManagerOK' /\ (Goto("main", "foo") \/ Abort \/ UNCHANGED pc)
  BY ShowType, NamesAreTasks, NormalIsKind, TypeParts DEF YearDraw, Names, Contents
<1> QED
  BY <1>1, LoopStepType, TypeParts DEF YearDraw, timeVars, MainPc, DataOK

\* YearRemove keeps the invariant.
LEMMA YearRemoveType == TypeInv /\ YearRemove => TypeInv'
<1> SUFFICES ASSUME TypeInv, YearRemove PROVE TypeInv'
  OBVIOUS
<1>1. ManagerOK' /\ (Goto("main", "foo") \/ Abort \/ UNCHANGED pc)
  BY RemoveType, NamesAreTasks, TypeParts DEF YearRemove, Names
<1>2. num' \in [Views \cup {"newyear", "ota"} -> MaybeNum]
  BY NumbersAreInts DEF YearRemove, TypeInv, TypeOK, MaybeNum
<1> QED
  BY <1>1, <1>2, LoopStepType, TypeParts DEF YearRemove, timeVars, MainPc, DataOK

\* UpdateView keeps the invariant.
LEMMA UpdateViewType ==
    ASSUME TypeInv, NEW v \in Views \ {"time"}, UpdateView(v)
    PROVE  TypeInv'
<1> DEFINE s == AfterView(v)
<1>1. "main" \in Tasks /\ v \in Contents /\ s \in {"weather", "wotd", "loop"} /\ ManagerOK
  BY NamesAreTasks, TypeParts DEF Names, Contents, Views, AfterView
<1>2. /\ \/ UNCHANGED <<managerVars, call, raced>> /\ Goto("main", s)
         \/ Show("main", "NORMAL", v, num[v], s)
         \/ Hide("main", num[v], s)
      /\ UNCHANGED <<wiped, collided>>
  BY DEF UpdateView
<1> HIDE DEF s
<1>3. ManagerOK' /\ (Goto("main", s) \/ Abort \/ UNCHANGED pc)
  <2>1. CASE UNCHANGED <<managerVars, call, raced>> /\ Goto("main", s)
    BY <1>1, <1>2, <2>1
       DEF managerVars, ManagerOK, Mgr!TypeOK, CallsNumbered, InCall, Ghosts
  <2>2. CASE Show("main", "NORMAL", v, num[v], s)
    BY <1>1, <1>2, <2>2, ShowType, NormalIsKind
  <2>3. CASE Hide("main", num[v], s)
    BY <1>1, <1>2, <2>3, RemoveType
  <2> QED
    BY <1>2, <2>1, <2>2, <2>3
<1>4. s \in MainPc \ {"buildSet"} /\ v # "buildSet"
  BY <1>1 DEF MainPc, Views
<1> QED
  BY <1>3, <1>4, LoopStepType, TypeParts DEF UpdateView, timeVars, DataOK

\* A step of an account's task that goes to s, stays or aborts.
LEMMA AccountMoves ==
    ASSUME PcOK, NEW a \in Accounts, NEW s \in MailPc, Goto(a, s) \/ Abort \/ UNCHANGED pc
    PROVE  /\ PcOK'
           /\ pc'[a] \in {s, "off", pc[a]}
           /\ \A u \in Tasks \ {a} : pc'[u] \in {pc[u], "off", "aborted"}
           /\ pc'["main"] \in {pc["main"], "aborted"}
           /\ \A b \in Accounts \ {a} : pc'[b] \in {pc[b], "off"}
           /\ \A u \in {"console", "ota"} : pc'[u] \in {pc[u], "off"}
           /\ a \in Tasks /\ a # "main"
<1>1. a \in Tasks /\ a \notin Names /\ "main" \in Tasks /\ \A b \in Accounts : b # "main"
  BY NamesAreTasks DEF Names
<1>2. CASE Goto(a, s)
  BY <1>1, <1>2, GotoPc, NamesAreTasks DEF Names
<1>3. CASE Abort
  BY <1>1, <1>3, AbortPc, NamesAreTasks DEF Names
<1>4. CASE UNCHANGED pc
  BY <1>1, <1>4 DEF PcOK
<1> QED
  BY <1>2, <1>3, <1>4

\* It keeps the invariant if it keeps the manager's part and that of its mails.
LEMMA AccountStepType ==
    ASSUME TypeInv, ManagerOK', NEW a \in Accounts, NEW s \in MailPc,
           Goto(a, s) \/ Abort \/ UNCHANGED pc,
           mailMap' \in [MailIds -> MaybeNum],
           known' \in [Accounts -> SUBSET MailIds],
           local' \in [Accounts -> [id : MailIds \cup {Unset}, appeared : BOOLEAN,
                                    num : Nums \cup {NoNum}]],
           \A b \in Accounts : known'[b] \subseteq IdsOf[b],
           \A b \in Accounts \ {a} : local'[b] = local[b],
           pc'[a] \notin {"off", "idle"} => local'[a].id \in IdsOf[a],
           UNCHANGED <<state, num, sweep, built, timeVars>>
    PROVE  TypeInv'
<1>1. /\ PcOK' /\ pc'["main"] \in {pc["main"], "aborted"}
      /\ \A b \in Accounts \ {a} : pc'[b] \in {pc[b], "off"}
  BY AccountMoves, TypeParts
<1>2. DataOK' /\ BuildOK'
  BY <1>1, TypeParts DEF DataOK, BuildOK, timeVars
<1>3. \A b \in Accounts : pc'[b] \notin {"off", "idle"} => local'[b].id \in IdsOf[b]
  BY <1>1, TypeParts DEF MailsOK
<1>4. MailsOK'
  BY <1>3 DEF MailsOK
<1> QED
  BY <1>1, <1>2, <1>4
     DEF TypeInv, TypeOK, ManagerOK, PcOK, MailsOK, DataOK, BuildOK, CallType, Ghosts

\* A step that leaves the manager alone keeps the manager's part.
LEMMA ManagerStays ==
    ASSUME ManagerOK, UNCHANGED managerVars, UNCHANGED call, UNCHANGED raced, UNCHANGED wiped,
           collided' \in BOOLEAN
    PROVE  ManagerOK'
  BY DEF managerVars, ManagerOK, Mgr!TypeOK, CallsNumbered, InCall, Ghosts

\* Appear keeps the invariant.
LEMMA AppearType ==
    ASSUME TypeInv, NEW a \in Accounts, NEW i \in IdsOf[a], Appear(a, i)
    PROVE  TypeInv'
<1>1. /\ Free \in Nums \cup {NoNum} /\ i \in MailIds /\ a \in Tasks
      /\ TypeOK /\ ManagerOK /\ UNCHANGED wiped
      /\ collided' \in BOOLEAN
  BY FreeType, IdFacts, NamesAreTasks, TypeParts DEF TypeInv, Appear, ManagerOK, Ghosts
<1>2. PICK n \in Nums \cup {NoNum}, s \in {"test", "mailSet"} :
        /\ local' = [local EXCEPT ![a] = [id |-> i, appeared |-> TRUE, num |-> n]]
        /\ Goto(a, s)
  <2>1. CASE mailMap[i] # Unmapped
    <3>1. mailMap[i] \in Nums \cup {NoNum}
      BY <1>1, <2>1 DEF TypeInv, TypeOK, MaybeNum, Unset, Unmapped
    <3> QED
      BY <2>1, <3>1 DEF Appear
  <2>2. CASE mailMap[i] = Unmapped /\ Free < 0
    BY <1>1, <2>2 DEF Appear
  <2>3. CASE mailMap[i] = Unmapped /\ ~(Free < 0)
    BY <1>1, <2>3 DEF Appear
  <2> QED
    BY <2>1, <2>2, <2>3
<1>3. ManagerOK'
  <2>1. CASE mailMap[i] # Unmapped
    BY <1>1, <2>1
       DEF Appear, managerVars, ManagerOK, Mgr!TypeOK, CallsNumbered, InCall, Ghosts
  <2>2. CASE mailMap[i] = Unmapped
    BY <1>1, <2>2, FindType DEF Appear
  <2> QED
    BY <2>1, <2>2
<1>4. /\ local' \in [Accounts -> [id : MailIds \cup {Unset}, appeared : BOOLEAN,
                                 num : Nums \cup {NoNum}]]
      /\ local'[a].id = i /\ \A b \in Accounts \ {a} : local'[b] = local[b]
  BY <1>1, <1>2 DEF TypeInv, TypeOK
<1>5. s \in MailPc
  BY DEF MailPc
<1>6. /\ UNCHANGED <<state, num, sweep, built, timeVars, mailMap, known>>
      /\ mailMap \in [MailIds -> MaybeNum] /\ known \in [Accounts -> SUBSET MailIds]
      /\ \A b \in Accounts : known[b] \subseteq IdsOf[b]
  BY DEF Appear, TypeInv, TypeOK
<1> QED
  BY <1>2, <1>3, <1>4, <1>5, <1>6, AccountStepType

\* MailSet keeps the invariant.
LEMMA MailSetType ==
    ASSUME TypeInv, NEW a \in Accounts, MailSet(a)
    PROVE  TypeInv'
<1>1. ManagerOK' /\ call[a].num \in Nums
  BY MarkType, NamesAreTasks, TypeParts DEF MailSet
<1>2. /\ local' \in [Accounts -> [id : MailIds \cup {Unset}, appeared : BOOLEAN,
                                 num : Nums \cup {NoNum}]]
      /\ \A b \in Accounts : local'[b].id = local[b].id
      /\ \A b \in Accounts \ {a} : local'[b] = local[b]
  BY <1>1 DEF MailSet, TypeInv, TypeOK
<1>3. local[a].id \in IdsOf[a]
  BY DEF MailSet, TypeInv
<1>4. /\ UNCHANGED <<state, num, sweep, built, timeVars, mailMap, known>>
      /\ mailMap \in [MailIds -> MaybeNum] /\ known \in [Accounts -> SUBSET MailIds]
      /\ \A b \in Accounts : known[b] \subseteq IdsOf[b]
      /\ Goto(a, "test") /\ "test" \in MailPc
  BY DEF MailSet, TypeInv, TypeOK, MailPc
<1> QED
  BY <1>1, <1>2, <1>3, <1>4, AccountStepType

\* What mail_cb leaves in mail_map, known_ids and its locals.
LEMMA RememberType ==
    ASSUME TypeInv, NEW a \in Accounts, pc[a] \in {"test", "draw", "testGone", "erase"},
           ((Remember(a) \/ Forget(a)) /\ Return(a)) \/ UNCHANGED <<mailMap, known, local>>
    PROVE  /\ mailMap' \in [MailIds -> MaybeNum]
           /\ known' \in [Accounts -> SUBSET MailIds]
           /\ local' \in [Accounts -> [id : MailIds \cup {Unset}, appeared : BOOLEAN,
                                      num : Nums \cup {NoNum}]]
           /\ \A b \in Accounts : known'[b] \subseteq IdsOf[b]
           /\ \A b \in Accounts \ {a} : local'[b] = local[b]
           /\ UNCHANGED <<mailMap, known, local>> => local'[a] = local[a]
<1>1. local[a].id \in IdsOf[a] /\ local[a].id \in MailIds
  BY IdFacts DEF TypeInv
<1>2. CASE UNCHANGED <<mailMap, known, local>>
  BY <1>2 DEF TypeInv, TypeOK
<1>3. CASE Remember(a) /\ Return(a)
  <2>1. mailMap' \in [MailIds -> MaybeNum]
    BY <1>1, <1>3 DEF Remember, TypeInv, TypeOK, MaybeNum
  <2>2. /\ known' \in [Accounts -> SUBSET MailIds]
        /\ \A b \in Accounts : known'[b] \subseteq IdsOf[b]
    BY <1>1, <1>3 DEF Remember, TypeInv, TypeOK
  <2>3. /\ local' \in [Accounts -> [id : MailIds \cup {Unset}, appeared : BOOLEAN,
                                   num : Nums \cup {NoNum}]]
        /\ \A b \in Accounts \ {a} : local'[b] = local[b]
    BY <1>3 DEF Return, NoLocal, TypeInv, TypeOK
  <2> QED
    BY <2>1, <2>2, <2>3
<1>4. CASE Forget(a) /\ Return(a)
  <2>1. mailMap' \in [MailIds -> MaybeNum]
    BY <1>4, NumbersAreInts DEF Forget, TypeInv, TypeOK, MaybeNum
  <2>2. /\ known' \in [Accounts -> SUBSET MailIds]
        /\ \A b \in Accounts : known'[b] \subseteq IdsOf[b]
    BY <1>4 DEF Forget, TypeInv, TypeOK
  <2>3. /\ local' \in [Accounts -> [id : MailIds \cup {Unset}, appeared : BOOLEAN,
                                   num : Nums \cup {NoNum}]]
        /\ \A b \in Accounts \ {a} : local'[b] = local[b]
    BY <1>4 DEF Return, NoLocal, TypeInv, TypeOK
  <2> QED
    BY <2>1, <2>2, <2>3
<1> QED
  BY <1>2, <1>3, <1>4

\* MailTest keeps the invariant.
LEMMA MailTestType ==
    ASSUME TypeInv, NEW a \in Accounts, MailTest(a)
    PROVE  TypeInv'
<1>1. PICK s \in {"draw", "idle"} :
        /\ Goto(a, s)
        /\ s = "draw" => UNCHANGED <<mailMap, known, local>>
        /\ ((Remember(a) \/ Forget(a)) /\ Return(a)) \/ UNCHANGED <<mailMap, known, local>>
  BY DEF MailTest
<1>2. PcOK' /\ pc'[a] = s
  BY <1>1, TypeInvPc, GotoPc, NamesAreTasks DEF Names, MailPc
<1>3. /\ mailMap' \in [MailIds -> MaybeNum]
      /\ known' \in [Accounts -> SUBSET MailIds]
      /\ local' \in [Accounts -> [id : MailIds \cup {Unset}, appeared : BOOLEAN,
                                 num : Nums \cup {NoNum}]]
      /\ \A b \in Accounts : known'[b] \subseteq IdsOf[b]
      /\ \A b \in Accounts \ {a} : local'[b] = local[b]
  BY <1>1, RememberType DEF MailTest
<1>4. pc'[a] \notin {"off", "idle"} => local'[a].id \in IdsOf[a]
  BY <1>1, <1>2 DEF MailTest, TypeInv
<1>5. s \in MailPc /\ UNCHANGED <<state, num, sweep, built, timeVars>>
  BY DEF MailTest, MailPc
<1>6. ManagerOK'
  BY ManagerStays, TypeParts DEF MailTest, ghosts, ManagerOK, Ghosts
<1> QED
  BY <1>1, <1>3, <1>4, <1>5, <1>6, AccountStepType

\* MailTestGone keeps the invariant.
LEMMA MailTestGoneType ==
    ASSUME TypeInv, NEW a \in Accounts, MailTestGone(a)
    PROVE  TypeInv'
<1>1. PICK s \in {"erase", "idle"} :
        /\ Goto(a, s)
        /\ s = "erase" => UNCHANGED <<mailMap, known, local>>
        /\ ((Remember(a) \/ Forget(a)) /\ Return(a)) \/ UNCHANGED <<mailMap, known, local>>
  BY DEF MailTestGone
<1>2. PcOK' /\ pc'[a] = s
  BY <1>1, TypeInvPc, GotoPc, NamesAreTasks DEF Names, MailPc
<1>3. /\ mailMap' \in [MailIds -> MaybeNum]
      /\ known' \in [Accounts -> SUBSET MailIds]
      /\ local' \in [Accounts -> [id : MailIds \cup {Unset}, appeared : BOOLEAN,
                                 num : Nums \cup {NoNum}]]
      /\ \A b \in Accounts : known'[b] \subseteq IdsOf[b]
      /\ \A b \in Accounts \ {a} : local'[b] = local[b]
  BY <1>1, RememberType DEF MailTestGone
<1>4. pc'[a] \notin {"off", "idle"} => local'[a].id \in IdsOf[a]
  BY <1>1, <1>2 DEF MailTestGone, TypeInv
<1>5. s \in MailPc /\ UNCHANGED <<state, num, sweep, built, timeVars>>
  BY DEF MailTestGone, MailPc
<1>6. ManagerOK'
  BY ManagerStays, TypeParts DEF MailTestGone, ghosts, ManagerOK, Ghosts
<1> QED
  BY <1>1, <1>3, <1>4, <1>5, <1>6, AccountStepType

\* MailDraw keeps the invariant.
LEMMA MailDrawType ==
    ASSUME TypeInv, NEW a \in Accounts, MailDraw(a)
    PROVE  TypeInv'
<1>1. a \in Tasks /\ local[a].id \in Contents /\ local[a].id \in IdsOf[a] /\ "idle" \in MailPc
  BY IdFacts, NamesAreTasks DEF MailDraw, TypeInv, Contents, MailPc
<1>2. ManagerOK' /\ (Goto(a, "idle") \/ Abort \/ UNCHANGED pc)
  BY <1>1, ShowType, NormalIsKind, TypeParts DEF MailDraw
<1>3. /\ mailMap' \in [MailIds -> MaybeNum]
      /\ known' \in [Accounts -> SUBSET MailIds]
      /\ local' \in [Accounts -> [id : MailIds \cup {Unset}, appeared : BOOLEAN,
                                 num : Nums \cup {NoNum}]]
      /\ \A b \in Accounts : known'[b] \subseteq IdsOf[b]
      /\ \A b \in Accounts \ {a} : local'[b] = local[b]
  BY RememberType DEF MailDraw
<1>4. pc'[a] \notin {"off", "idle"} => local'[a].id \in IdsOf[a]
  BY <1>1 DEF MailDraw
<1>5. UNCHANGED <<state, num, sweep, built, timeVars>>
  BY DEF MailDraw
<1> QED
  BY <1>1, <1>2, <1>3, <1>4, <1>5, AccountStepType

\* MailErase keeps the invariant.
LEMMA MailEraseType ==
    ASSUME TypeInv, NEW a \in Accounts, MailErase(a)
    PROVE  TypeInv'
<1>1. a \in Tasks /\ local[a].id \in Contents /\ local[a].id \in IdsOf[a] /\ "idle" \in MailPc
  BY IdFacts, NamesAreTasks DEF MailErase, TypeInv, Contents, MailPc
<1>2. ManagerOK' /\ (Goto(a, "idle") \/ Abort \/ UNCHANGED pc)
  BY <1>1, RemoveType, NormalIsKind, TypeParts DEF MailErase
<1>3. /\ mailMap' \in [MailIds -> MaybeNum]
      /\ known' \in [Accounts -> SUBSET MailIds]
      /\ local' \in [Accounts -> [id : MailIds \cup {Unset}, appeared : BOOLEAN,
                                 num : Nums \cup {NoNum}]]
      /\ \A b \in Accounts : known'[b] \subseteq IdsOf[b]
      /\ \A b \in Accounts \ {a} : local'[b] = local[b]
  BY RememberType DEF MailErase
<1>4. pc'[a] \notin {"off", "idle"} => local'[a].id \in IdsOf[a]
  BY <1>1 DEF MailErase
<1>5. UNCHANGED <<state, num, sweep, built, timeVars>>
  BY DEF MailErase
<1> QED
  BY <1>1, <1>2, <1>3, <1>4, <1>5, AccountStepType

\* Disappear keeps the invariant.
LEMMA DisappearType ==
    ASSUME TypeInv, NEW a \in Accounts, NEW i \in MailIds, Disappear(a, i)
    PROVE  TypeInv'
<1>1. i \in IdsOf[a] /\ ManagerOK'
  BY ManagerStays, TypeParts DEF Disappear, TypeInv, ghosts, ManagerOK, Ghosts
<1>2. /\ UNCHANGED <<state, num, sweep, built, timeVars, mailMap>>
      /\ mailMap \in [MailIds -> MaybeNum]
      /\ known' \in [Accounts -> SUBSET MailIds]
      /\ \A b \in Accounts : known'[b] \subseteq IdsOf[b]
  BY DEF Disappear, TypeInv, TypeOK
<1>3. CASE mailMap[i] \in {Unmapped, 0}
  <2>1. UNCHANGED <<pc, local>> /\ pc[a] = "idle" /\ "idle" \in MailPc
    BY <1>3 DEF Disappear, MailPc
  <2>2. local \in [Accounts -> [id : MailIds \cup {Unset}, appeared : BOOLEAN,
                                num : Nums \cup {NoNum}]]
    BY DEF TypeInv, TypeOK
  <2> QED
    BY <1>1, <1>2, <2>1, <2>2, AccountStepType
<1>4. CASE mailMap[i] \notin {Unmapped, 0}
  <2>1. mailMap[i] \in Nums \cup {NoNum}
    BY <1>4 DEF TypeInv, TypeOK, MaybeNum, Unset, Unmapped
  <2>2. /\ local' = [local EXCEPT ![a] = [id |-> i, appeared |-> FALSE, num |-> mailMap[i]]]
        /\ Goto(a, "testGone") /\ "testGone" \in MailPc
    BY <1>4 DEF Disappear, MailPc
  <2>3. /\ local' \in [Accounts -> [id : MailIds \cup {Unset}, appeared : BOOLEAN,
                                   num : Nums \cup {NoNum}]]
        /\ local'[a].id = i /\ \A b \in Accounts \ {a} : local'[b] = local[b]
    BY <2>1, <2>2 DEF TypeInv, TypeOK
  <2> QED
    BY <1>1, <1>2, <2>2, <2>3, AccountStepType
<1> QED
  BY <1>3, <1>4

\* change_state clears one to three kinds, and then goes on in its own task.
LEMMA SweepFacts ==
    ASSUME NEW t \in {"console", "ota"}
    PROVE  /\ Len(Swept(Target(t))) \in 1 .. 3
           /\ \A j \in 1 .. Len(Swept(Target(t))) : Swept(Target(t))[j] \in Kinds
           /\ AfterSweep(t) \in {"notice", "set"}
           /\ t = "console" => AfterSweep(t) = "set"
  BY NormalIsKind DEF Swept, Target, AfterSweep

\* A position of a sweep is a kind and a number.
LEMMA SweepPairs ==
    \A x \in 1 .. 4, y \in 0 .. MsgCount : <<x, y>> \in (1 .. 4) \X (0 .. MsgCount)
  OBVIOUS

\* After the last kind there is one more round, the one that ends the sweep.
LEMMA NextRound == \A x \in 1 .. 4, y \in 1 .. 3 : x <= y => x + 1 \in 1 .. 4
  OBVIOUS

\* A step of "console" or "ota" that goes to s, stays or aborts.
LEMMA UpdaterMoves ==
    ASSUME PcOK, NEW t \in {"console", "ota"}, NEW s \in ConsolePc \cup OtaPc,
           t = "console" => s \in ConsolePc, t = "ota" => s \in OtaPc,
           Goto(t, s) \/ Abort \/ UNCHANGED pc
    PROVE  /\ PcOK'
           /\ pc'[t] \in {s, "off", pc[t]}
           /\ \A a \in Accounts : pc'[a] \in {pc[a], "off"}
           /\ pc'["main"] \in {pc["main"], "aborted"}
           /\ t \in Tasks
<1>1. t \in Tasks /\ t \notin Accounts /\ t # "main" /\ "main" \in Tasks
  BY NamesAreTasks DEF Names
<1>2. CASE Goto(t, s)
  BY <1>1, <1>2, GotoPc, NamesAreTasks DEF Names
<1>3. CASE Abort
  BY <1>1, <1>3, AbortPc, NamesAreTasks DEF Names
<1>4. CASE UNCHANGED pc
  BY <1>1, <1>4 DEF PcOK
<1> QED
  BY <1>1, <1>2, <1>3, <1>4

\* It keeps the invariant if it keeps the manager's part and the sweep's position.
LEMMA UpdaterStepType ==
    ASSUME TypeInv, ManagerOK', NEW t \in {"console", "ota"}, NEW s \in ConsolePc \cup OtaPc,
           t = "console" => s \in ConsolePc, t = "ota" => s \in OtaPc,
           Goto(t, s) \/ Abort \/ UNCHANGED pc,
           sweep' \in [{"console", "ota"} -> (1 .. 4) \X (0 .. MsgCount)],
           UNCHANGED <<state, num, mailMap, known, local, built, timeVars>>
    PROVE  TypeInv'
<1>1. /\ PcOK' /\ pc'["main"] \in {pc["main"], "aborted"}
      /\ \A a \in Accounts : pc'[a] \in {pc[a], "off"}
  BY UpdaterMoves, TypeParts
<1>2. DataOK' /\ BuildOK'
  BY <1>1, TypeParts DEF DataOK, BuildOK, timeVars
<1>3. \A a \in Accounts : pc'[a] \notin {"off", "idle"} => local'[a].id \in IdsOf[a]
  BY <1>1, TypeParts DEF MailsOK
<1>4. MailsOK'
  BY <1>3, TypeParts DEF MailsOK
<1> QED
  BY <1>1, <1>2, <1>4
     DEF TypeInv, TypeOK, ManagerOK, PcOK, MailsOK, DataOK, BuildOK, CallType, Ghosts

\* What a step of a sweep does to the manager, where it goes on, and its position.
LEMMA SweepStepType ==
    ASSUME TypeInv, NEW t \in {"console", "ota"}, SweepStep(t)
    PROVE  TypeInv'
<1> DEFINE kinds == Swept(Target(t))
           j == sweep[t][1]
           k == kinds[j]
           ahead == {n \in reserved[k] : n >= sweep[t][2]}
           next == FindFirst(ahead)
<1>1. t \in Tasks /\ ManagerOK /\ AfterSweep(t) \in ConsolePc \cup OtaPc
      /\ (t = "console" => AfterSweep(t) \in ConsolePc)
      /\ (t = "ota" => AfterSweep(t) \in OtaPc)
  BY NamesAreTasks, SweepFacts, TypeParts DEF Names, ConsolePc, OtaPc
<1>2. j \in 1 .. 4 /\ Len(kinds) \in 1 .. 3
  BY SweepFacts DEF TypeInv, TypeOK
<1>3. /\ wiped' = TRUE /\ UNCHANGED collided
      /\ UNCHANGED <<state, num, mailMap, known, local, built, timeVars>>
  BY DEF SweepStep
<1>4. ASSUME UNCHANGED <<managerVars, call, raced>> PROVE ManagerOK'
  BY <1>1, <1>3, <1>4
     DEF managerVars, ManagerOK, Mgr!TypeOK, CallsNumbered, InCall, Ghosts
<1>5. ASSUME UNCHANGED pc, ManagerOK',
             sweep' \in [{"console", "ota"} -> (1 .. 4) \X (0 .. MsgCount)]
      PROVE  TypeInv'
  BY <1>1, <1>3, <1>5, UpdaterStepType
<1>6. CASE /\ ~InCall(t) /\ sweep[t][1] > Len(kinds)
           /\ sweep' = [sweep EXCEPT ![t] = NoSweep]
           /\ Goto(t, AfterSweep(t))
           /\ UNCHANGED <<managerVars, call, raced>>
  <2>1. sweep' \in [{"console", "ota"} -> (1 .. 4) \X (0 .. MsgCount)]
    BY <1>6, MsgCountAssumption DEF NoSweep, TypeInv, TypeOK
  <2> QED
    BY <1>1, <1>3, <1>4, <1>6, <2>1, UpdaterStepType
<1>7. CASE /\ ~InCall(t) /\ sweep[t][1] <= Len(kinds) /\ ahead = {}
           /\ sweep' = [sweep EXCEPT ![t] = <<@[1] + 1, 0>>]
           /\ UNCHANGED <<managerVars, call, raced, pc>>
  <2>1. <<sweep[t][1] + 1, 0>> \in (1 .. 4) \X (0 .. MsgCount)
    <3>1. j <= Len(kinds)
      BY <1>7
    <3> HIDE DEF j, kinds
    <3>2. j + 1 \in 1 .. 4
      BY <1>2, <3>1, NextRound
    <3>3. 0 \in 0 .. MsgCount
      BY MsgCountAssumption
    <3> QED
      BY <3>2, <3>3, SweepPairs DEF j
  <2>2. sweep' \in [{"console", "ota"} -> (1 .. 4) \X (0 .. MsgCount)]
    BY <1>7, <2>1 DEF TypeInv, TypeOK
  <2> QED
    BY <1>4, <1>5, <1>7, <2>2
<1>8. CASE sweep[t][1] <= Len(kinds) /\ ahead # {} /\ EraseSlot(t, k, next) /\ UNCHANGED sweep
  <2>1. k \in Kinds
    BY <1>2, <1>8, SweepFacts
  <2> HIDE DEF k, next
  <2>2. ManagerOK'
    <3>1. /\ Mgr!TypeOK' /\ reserved[k] \in SUBSET Nums /\ next \in Nums
      BY <1>1, <1>8, <2>1, SameNumbers
         DEF EraseSlot, ManagerOK, Mgr!TypeOK, Mgr!DeleteMessage
    <3>2. WordOf(reserved[k], next) \ {next} \in SUBSET Nums
      BY <3>1, WordType
    <3>3. call' \in CallType
      BY <1>1, <1>8, <2>1, <3>1, <3>2 DEF EraseSlot, Enter, ManagerOK, CallType, Accesses
    <3>4. CallsNumbered'
      BY <1>1, <1>8, <3>1 DEF EraseSlot, Enter, ManagerOK, CallType, CallsNumbered, InCall
    <3> QED
      BY <1>1, <1>3, <1>8, <3>1, <3>3, <3>4 DEF EraseSlot, Enter, Overlaps, ManagerOK, Ghosts
  <2> QED
    BY <1>5, <1>8, <2>2 DEF EraseSlot, TypeInv, TypeOK
<1>9. ASSUME NEW at, ResetOnce(t) \/ ResetLast(t, at) PROVE ManagerOK'
  <2>1. Mgr!TypeOK'
    BY <1>1, <1>9, StoreType, SameNumbers
       DEF ResetOnce, ResetLast, ManagerOK, Mgr!TypeOK, CallType
  <2>2. /\ call' \in CallType /\ CallsNumbered'
    <3>1. CASE ResetOnce(t)
      BY <1>1, <3>1 DEF ResetOnce, ManagerOK, CallType, Accesses, CallsNumbered, InCall
    <3>2. CASE ResetLast(t, at)
      <4>1. NoCall \in [at : Accesses, kind : Kinds, num : Nums \cup {NoNum}, word : SUBSET Nums]
        BY NormalIsKind DEF NoCall, Accesses
      <4> QED
        BY <1>1, <3>2, <4>1
           DEF ResetLast, Leaves, ManagerOK, CallType, CallsNumbered, InCall, NoCall
    <3> QED
      BY <1>9, <3>1, <3>2
  <2> QED
    BY <1>1, <1>3, <1>9, <2>1, <2>2 DEF ResetOnce, ResetLast, Leaves, ManagerOK, Ghosts
<1>10. CASE ResetOnce(t) /\ UNCHANGED sweep
  BY <1>5, <1>9, <1>10 DEF ResetOnce, TypeInv, TypeOK
<1>11. CASE /\ ResetLast(t, "again")
            /\ sweep' = [sweep EXCEPT ![t] = <<@[1], call[t].num + 1>>]
            /\ UNCHANGED pc
  <2>1. ManagerOK' /\ call[t].num \in Nums \cup {NoNum}
    BY <1>1, <1>9, <1>11 DEF ManagerOK, CallType
  <2>2. call[t].num + 1 \in 0 .. MsgCount
    BY <2>1, MsgCountAssumption DEF Nums, NoNum
  <2>3. sweep' \in [{"console", "ota"} -> (1 .. 4) \X (0 .. MsgCount)]
    BY <1>2, <1>11, <2>2, SweepPairs DEF TypeInv, TypeOK
  <2> QED
    BY <1>5, <1>11, <2>1, <2>3
<1> QED
  BY <1>6, <1>7, <1>8, <1>10, <1>11 DEF SweepStep

\* SetState keeps the invariant.
LEMMA SetStateType ==
    ASSUME TypeInv, NEW t, SetState(t)
    PROVE  TypeInv'
<1>1. t \in {"console", "ota"} /\ t \in Tasks /\ t \notin Accounts /\ t # "main"
  BY NamesAreTasks DEF SetState, Names
<1>2. PICK s \in {"receiving", "idle"} : Goto(t, s) /\ (t = "ota" <=> s = "receiving")
  BY <1>1 DEF SetState
<1>3. PcOK' /\ pc'[t] = s /\ \A u \in Tasks \ {t} : pc'[u] = pc[u]
  BY <1>1, <1>2, TypeInvPc, GotoPc DEF ConsolePc, OtaPc
<1>4. TypeOK'
  BY <1>1, <1>3
     DEF SetState, Target, States, TypeInv, TypeOK, PcOK, Mgr!TypeOK, managerVars,
                    timeVars, ghosts
<1> QED
  BY <1>1, <1>2, <1>3, <1>4, NamesAreTasks DEF SetState, TypeInv, CallsNumbered, InCall, Names

\* Restart keeps the invariant.
LEMMA RestartType == TypeInv /\ Restart => TypeInv'
<1> SUFFICES ASSUME TypeInv, Restart PROVE TypeInv'
  OBVIOUS
<1>1. Mgr!TypeOK'
  BY ManagerTypes, NormalIsKind DEF Restart, TypeInv, TypeOK
<1>2. /\ num' \in [Views \cup {"newyear", "ota"} -> MaybeNum]
      /\ mailMap' \in [MailIds -> MaybeNum]
  BY NumbersAreInts DEF Restart, Fresh, FreshNums, MaybeNum
<1>3. /\ known' \in [Accounts -> SUBSET MailIds]
      /\ local' \in [Accounts -> [id : MailIds \cup {Unset}, appeared : BOOLEAN,
                                 num : Nums \cup {NoNum}]]
      /\ call' \in CallType
  BY NormalIsKind DEF Restart, Fresh, NoLocal, NoCall, CallType, Accesses
<1>4. PcOK'
  BY FirmwareAssumption
     DEF Restart, Fresh, PcOK, Tasks, MainPc, ConsolePc, OtaPc, MailPc
<1>5. sweep' \in [{"console", "ota"} -> (1 .. 4) \X (0 .. MsgCount)]
  BY MsgCountAssumption DEF Restart, Fresh, NoSweep
<1>6. built' \in 0 .. Len(Order)
  BY OrderFacts DEF Restart, Fresh
<1>7. /\ timeDue' \in BOOLEAN /\ newYear' \in Dates
      /\ Ghosts'
  BY DEF Restart, Fresh, TypeInv, TypeOK, Ghosts
<1>8. TypeOK'
  BY <1>1, <1>2, <1>3, <1>4, <1>5, <1>6, <1>7
     DEF TypeOK, PcOK, Restart, Fresh, States, CallType, Ghosts
<1> QED
  BY <1>8, FirmwareAssumption DEF Restart, Fresh, TypeInv, CallsNumbered, InCall, NoCall, Tasks

\* A line sent to the board keeps the invariant.
LEMMA LineType ==
    ASSUME TypeInv, NEW line \in RawLines, board' = AfterLine(line),
           UNCHANGED <<state, reserved, num, mailMap, known, pc, local, call, sweep, built,
                       timeVars, ghosts>>
    PROVE  TypeInv'
<1>1. Mgr!TypeOK'
  BY FirmwareAssumption, SameNumbers
     DEF AfterLine, Mgr!SetMessage, TypeInv, TypeOK, Mgr!TypeOK
<1> QED
  BY <1>1 DEF TypeInv, TypeOK, CallsNumbered, InCall, timeVars, ghosts

\* OtaNotice keeps the invariant.
LEMMA OtaNoticeType == TypeInv /\ OtaNotice => TypeInv'
<1> SUFFICES ASSUME TypeInv, OtaNotice PROVE TypeInv'
  OBVIOUS
<1>1. ManagerOK' /\ (Goto("ota", "set") \/ Abort \/ UNCHANGED pc)
  BY ShowType, NamesAreTasks, NormalIsKind, TypeParts DEF OtaNotice, Names, Contents
<1>2. "set" \in OtaPc /\ UNCHANGED <<state, num, mailMap, known, local, sweep, built, timeVars>>
  BY DEF OtaNotice, OtaPc
<1> QED
  BY <1>1, <1>2, UpdaterStepType DEF TypeInv, TypeOK

\* Every step keeps the invariant.
LEMMA NextType == TypeInv /\ [Next]_vars => TypeInv'
<1> SUFFICES ASSUME TypeInv, [Next]_vars PROVE TypeInv'
  OBVIOUS
<1>1. CASE MainStep
  BY <1>1, ReserveSysType, StartOtaType, StartAccountsType, BuildFindType, BuildSetType,
     StartConsoleType, ReadyType, LoopType, UpdateTimeType, DrawTimeType, YearFindType, YearSetType,
     YearDrawType, YearRemoveType, UpdateViewType
     DEF MainStep, Setup, Year
<1>2. ASSUME NEW a \in Accounts, MailStep(a) PROVE TypeInv'
  BY <1>2, MailSetType, MailTestType, MailDrawType, MailTestGoneType, MailEraseType
     DEF MailStep
<1>3. CASE ConsoleStep \/ OtaStep
  BY <1>3, SweepStepType, SetStateType, LeaveType, OtaNoticeType
     DEF ConsoleStep, OtaStep
<1>4. CASE Environment
  BY <1>4, WifiUpType, TickType, AppearType, DisappearType, ExclusiveOnType, ExclusiveOffType,
     RestartType, LineType, OtaStartType, OtaErrorType
     DEF Environment, ConsoleReboot, ConsoleLine, AdminReset, AdminReboot, OtaEnd
<1>5. CASE Panic
  BY <1>5, RestartType DEF Panic
<1>6. CASE UNCHANGED vars
  BY <1>6 DEF vars, TypeInv, TypeOK, Mgr!TypeOK, CallsNumbered, InCall
<1> QED
  BY <1>1, <1>2, <1>3, <1>4, <1>5, <1>6 DEF Next

(***************************************************************************)
(* Every variable keeps its type: in particular a number under which a     *)
(* view or a mail is held is always one of the bitset, -1 or not yet set,  *)
(* and a notifier's task is only ever inside its own callback.             *)
(***************************************************************************)
THEOREM TypeCorrect == Spec => []TypeOK
<1>1. TypeInv => TypeOK
  BY DEF TypeInv
<1> QED
  BY <1>1, InitType, NextType, PTL DEF Spec

-------------------------------------------------------------------------------
(* The state of the application, and who may draw in it. *)

\* A task goes on at one of some places, stays where it is, or everything aborts.
Goes(t, places) == Abort \/ UNCHANGED pc \/ \E s \in places : Goto(t, s)

\* The places of loop().
LoopPc == {"loop", "time", "timeDay", "timeYear", "yearFind", "yearSet", "yearDraw",
           "yearRemove", "foo", "weather", "wotd"}

\* Once set up, the main task changes neither the state nor its task.
LEMMA LoopGoes ==
    ASSUME InLoop, MainStep
    PROVE  state' = state /\ Goes("main", LoopPc)
<1>1. CASE Setup
  BY <1>1 DEF InLoop, Setup, ReserveSys, StartOta, StartAccounts, BuildFind, BuildSet,
              StartConsole, Ready
<1>2. CASE Loop
  BY <1>2 DEF Loop, Goes, LoopPc
<1>3. CASE UpdateTime
  BY <1>3 DEF UpdateTime, Goes, LoopPc
<1>4. CASE DrawTime
  BY <1>4 DEF DrawTime, Show, TestBit, Throws, Goes, LoopPc
<1>5. CASE Year
  BY <1>5
     DEF Year, YearFind, YearSet, YearDraw, YearRemove, Show, TestBit, Throws, Remove,
         EraseSlot, ResetOnce, Goes, LoopPc
<1>6. ASSUME NEW v \in Views \ {"time"}, UpdateView(v)
      PROVE  state' = state /\ Goes("main", LoopPc)
  BY <1>6 DEF UpdateView, Views, AfterView, Show, TestBit, Throws, Hide, EraseSlot, Goes, LoopPc
<1> QED
  BY <1>1, <1>2, <1>3, <1>4, <1>5, <1>6 DEF MainStep

\* Nor does a notifier's task inside its callback.
LEMMA CallbackGoes ==
    ASSUME NEW a \in Accounts, MailStep(a)
    PROVE  state' = state /\ Goes(a, {"test", "draw", "erase", "idle"})
<1>1. CASE MailSet(a) \/ MailTest(a) \/ MailTestGone(a)
  BY <1>1 DEF MailSet, MailTest, MailTestGone, Goes
<1>2. CASE MailDraw(a)
  BY <1>2 DEF MailDraw, Show, TestBit, Throws, Goes
<1>3. CASE MailErase(a)
  BY <1>3 DEF MailErase, Remove, EraseSlot, ResetOnce, Throws, Goes
<1> QED
  BY <1>1, <1>2, <1>3 DEF MailStep

\* Where each task is after a step of one.
LEMMA Stays ==
    ASSUME TypeInv, NEW t \in Tasks, NEW s, Goto(t, s)
    PROVE  \A u \in Tasks : pc'[u] = IF u = t THEN s ELSE pc[u]
  BY DEF Goto, TypeInv, TypeOK

\* A step during an update: who changes the state, and what the console does.
LEMMA UpdateStep ==
    ASSUME TypeInv, state = "OTAFVU", [Next]_vars
    PROVE  /\ state' \in {"OTAFVU", "BOOT"} \/ Belated
           /\ pc["console"] = "idle" => pc'["console"] \in {"idle", "off"}
<1> DEFINE Kept == /\ state' \in {"OTAFVU", "BOOT"} \/ Belated
                   /\ pc["console"] = "idle" => pc'["console"] \in {"idle", "off"}
<1>1. /\ "main" \in Tasks /\ "console" \in Tasks /\ "ota" \in Tasks
      /\ \A a \in Accounts : a \in Tasks /\ a # "main" /\ a # "console"
  BY NamesAreTasks DEF Names
<1>2. ASSUME Abort PROVE pc'["console"] = "off"
  BY <1>1, <1>2 DEF Abort
<1>3. ASSUME state' \in {"OTAFVU", "BOOT"} \/ Belated,
             NEW t \in Tasks \ {"console"}, NEW places, Goes(t, places)
      PROVE  Kept
  BY <1>1, <1>2, <1>3, Stays DEF Goes
<1>4. ASSUME state' = state, UNCHANGED pc PROVE Kept
  BY <1>4
<1>5. ASSUME Restart PROVE Kept
  BY <1>1, <1>5 DEF Restart, Fresh
<1>6. CASE MainStep
  <2>1. CASE InLoop
    <3>1. state' = state /\ Goes("main", LoopPc)
      BY <1>6, <2>1, LoopGoes
    <3> QED
      BY <1>1, <1>3, <3>1
  <2>2. CASE StartConsole
    BY <1>1, <2>2 DEF StartConsole, TypeInv, TypeOK
  <2>3. CASE Ready
    BY <1>1, <1>3, <2>3 DEF Ready, Belated, Goes
  <2>4. CASE StartOta
    BY <1>1, <2>4 DEF StartOta, TypeInv, TypeOK
  <2>5. CASE StartAccounts
    <3>1. ASSUME NEW a \in Accounts, Goto(a, "idle") PROVE Kept
      BY <1>1, <1>3, <2>5, <3>1 DEF StartAccounts, Goes
    <3>2. CASE Goto("main", "build")
      BY <1>1, <1>3, <2>5, <3>2 DEF StartAccounts, Goes
    <3> QED
      BY <2>5, <3>1, <3>2 DEF StartAccounts
  <2>6. CASE ReserveSys \/ BuildFind \/ BuildSet
    <3>1. state' = state /\ Goes("main", {"wifi", "build", "buildSet"})
      BY <2>6 DEF ReserveSys, BuildFind, BuildSet, Goes
    <3> QED
      BY <1>1, <1>3, <3>1
  <2>7. ~InLoop => Setup
    BY <1>6
       DEF MainStep, InLoop, Loop, UpdateTime, DrawTime, Year, YearFind, YearSet, YearDraw,
           YearRemove, UpdateView, Views
  <2> QED
    BY <2>1, <2>2, <2>3, <2>4, <2>5, <2>6, <2>7 DEF Setup
<1>7. ASSUME NEW a \in Accounts, MailStep(a) PROVE Kept
  <2>1. state' = state /\ Goes(a, {"test", "draw", "erase", "idle"})
    BY <1>7, CallbackGoes
  <2> QED
    BY <1>1, <1>3, <2>1
<1>8. CASE ConsoleStep
  BY <1>8 DEF ConsoleStep, SweepStep, SetState, Leave, Belated
<1>9. CASE OtaStep
  <2>1. CASE OtaNotice
    <3>1. state' = state /\ Goes("ota", {"set"})
      BY <2>1 DEF OtaNotice, Show, TestBit, Throws, Goes
    <3> QED
      BY <1>1, <1>3, <3>1
  <2>2. CASE SetState("ota")
    <3>1. state' = "OTAFVU" /\ Goes("ota", {"receiving"})
      BY <2>2 DEF SetState, Target, Goes
    <3> QED
      BY <1>1, <1>3, <3>1
  <2>3. CASE SweepStep("ota")
    <3>1. state' = state /\ Goes("ota", {"notice"})
      BY <2>3 DEF SweepStep, AfterSweep, EraseSlot, ResetOnce, Goes
    <3> QED
      BY <1>1, <1>3, <3>1
  <2> QED
    BY <1>9, <2>1, <2>2, <2>3 DEF OtaStep
<1>10. CASE Environment
  <2>1. ASSUME NEW a \in Accounts, NEW i, Appear(a, i) \/ Disappear(a, i) PROVE Kept
    <3>1. state' = state /\ Goes(a, {"test", "mailSet", "testGone"})
      BY <2>1 DEF Appear, Disappear, Goes
    <3> QED
      BY <1>1, <1>3, <3>1
  <2>2. CASE Tick \/ ConsoleLine \/ AdminReset
    BY <1>4, <2>2 DEF Tick, ConsoleLine, AdminReset
  <2>3. CASE OtaStart \/ OtaError
    <3>1. state' = state /\ Goes("ota", {"sweep", "set", "listen"})
      BY <2>3 DEF OtaStart, OtaError, Goes
    <3> QED
      BY <1>1, <1>3, <3>1
  <2>4. CASE WifiUp
    <3>1. state' = state /\ Goes("main", {"ota"})
      BY <2>4 DEF WifiUp, Goes
    <3> QED
      BY <1>1, <1>3, <3>1
  <2>5. CASE ExclusiveOn \/ ExclusiveOff
    BY <2>5 DEF ExclusiveOn, ExclusiveOff
  <2>6. CASE ConsoleReboot \/ AdminReboot \/ OtaEnd
    BY <1>5, <2>6 DEF ConsoleReboot, AdminReboot, OtaEnd
  <2> QED
    BY <1>10, <2>1, <2>2, <2>3, <2>4, <2>5, <2>6 DEF Environment
<1>11. CASE Panic
  BY <1>5, <1>11 DEF Panic
<1>12. CASE UNCHANGED vars
  BY <1>4, <1>12 DEF vars
<1> QED
  BY <1>6, <1>7, <1>8, <1>9, <1>10, <1>11, <1>12 DEF Next

(***************************************************************************)
(* During a firmware update the state changes by a restart, or by the last *)
(* step of a change that was under way before the update began; and the    *)
(* console begins none, for any interleaving of the tasks and any number   *)
(* of errors and new attempts.                                             *)
(***************************************************************************)
THEOREM UpdateStaysAlways == Spec => UpdateStays
<1>1. TypeInv /\ [Next]_vars
        => [state = "OTAFVU" =>
              /\ state' \in {"OTAFVU", "BOOT"} \/ Belated
              /\ pc["console"] = "idle" => pc'["console"] \in {"idle", "off"}]_vars
  BY UpdateStep
<1> QED
  BY <1>1, InitType, NextType, PTL DEF Spec, UpdateStays

\* What the firmware has drawn stays, and nothing of the firmware's is added.
DrawsNothing ==
    \A k \in Kinds, h \in HwNums : board'[k][h] \in Contents => board'[k][h] = board[k][h]

\* A line, or a restart, draws nothing of the firmware's.
LEMMA LinesDrawNothing ==
    ASSUME TypeInv
    PROVE  /\ \A line \in RawLines : board' = AfterLine(line) => DrawsNothing
           /\ Restart => DrawsNothing
           /\ UNCHANGED board => DrawsNothing
<1>1. Blank \notin Contents /\ Foreign \notin Contents
  BY FirmwareAssumption
<1>2. ASSUME NEW line \in RawLines, board' = AfterLine(line) PROVE DrawsNothing
  BY <1>1, <1>2, SameNumbers
     DEF AfterLine, Mgr!SetMessage, DrawsNothing, TypeInv, TypeOK, Mgr!TypeOK
<1>3. ASSUME Restart PROVE DrawsNothing
  BY <1>1, <1>3, SameNumbers DEF Restart, Mgr!Restart, DrawsNothing
<1> QED
  BY <1>2, <1>3 DEF DrawsNothing

\* Once the display has been given up and everybody has finished, nobody begins.
LEMMA FrozenStep ==
    ASSUME TypeInv, Frozen, [Next]_vars
    PROVE  (GivenUp' => Frozen') /\ DrawsNothing
<1>1. /\ "main" \in Tasks /\ "console" \in Tasks /\ "ota" \in Tasks
      /\ \A a \in Accounts : a \in Tasks /\ a \notin {"main", "console", "ota"}
  BY NamesAreTasks DEF Names
<1>2. /\ state # "IDLE" /\ pc["main"] = "loop" /\ pc["console"] = "idle"
      /\ pc["ota"] \in {"listen", "receiving"}
      /\ \A a \in Accounts : pc[a] \notin {"draw", "erase"}
  BY DEF Frozen, GivenUp
<1>3. ASSUME NEW t \in Tasks, NEW s, Goto(t, s), UNCHANGED board,
             t # "main", t \in Accounts => s \notin {"draw", "erase"}
      PROVE  (GivenUp' => Frozen') /\ DrawsNothing
  BY <1>1, <1>2, <1>3, Stays, LinesDrawNothing DEF Frozen
<1>4. ASSUME UNCHANGED pc, DrawsNothing
      PROVE  (GivenUp' => Frozen') /\ DrawsNothing
  BY <1>2, <1>4 DEF Frozen
<1>5. ASSUME Restart PROVE (GivenUp' => Frozen') /\ DrawsNothing
  BY <1>5, LinesDrawNothing DEF Restart, Fresh, GivenUp
<1>6. CASE MainStep
  BY <1>2, <1>6
     DEF MainStep, Setup, Year, ReserveSys, StartOta, StartAccounts, BuildFind, BuildSet,
         StartConsole, Ready, Loop, UpdateTime, DrawTime, YearFind, YearSet, YearDraw, YearRemove,
         UpdateView, Views
<1>7. ASSUME NEW a \in Accounts, MailStep(a) PROVE (GivenUp' => Frozen') /\ DrawsNothing
  <2>1. MailSet(a) \/ MailTest(a) \/ MailTestGone(a)
    BY <1>2, <1>7 DEF MailStep, MailDraw, MailErase
  <2>2. UNCHANGED board /\ \E s \in {"test", "idle"} : Goto(a, s)
    BY <1>2, <2>1 DEF MailSet, MarkReserved, MailTest, MailTestGone, managerVars
  <2> QED
    BY <1>1, <1>3, <2>2
<1>8. CASE ConsoleStep \/ OtaStep
  BY <1>2, <1>8 DEF ConsoleStep, OtaStep, SweepStep, SetState, Leave, OtaNotice
<1>9. CASE Environment
  <2>1. ASSUME NEW a \in Accounts, NEW i, Appear(a, i) \/ Disappear(a, i)
        PROVE  (GivenUp' => Frozen') /\ DrawsNothing
    <3>1. UNCHANGED board
      BY <2>1 DEF Appear, Disappear, Find, managerVars
    <3>2. UNCHANGED pc \/ \E s \in {"mailSet", "test", "testGone"} : Goto(a, s)
      BY <2>1 DEF Appear, Disappear
    <3> QED
      BY <1>1, <1>3, <1>4, <3>1, <3>2, LinesDrawNothing
  <2>2. CASE Tick \/ ConsoleLine \/ AdminReset
    BY <1>4, <2>2, LinesDrawNothing DEF Tick, ConsoleLine, AdminReset, managerVars
  <2>3. CASE OtaStart \/ OtaError
    <3>1. UNCHANGED board /\ \E s : Goto("ota", s)
      BY <2>3 DEF OtaStart, OtaError, managerVars
    <3> QED
      BY <1>1, <1>3, <3>1
  <2>4. CASE ExclusiveOff
    <3>1. UNCHANGED board /\ Goto("console", "leave")
      BY <2>4 DEF ExclusiveOff, managerVars
    <3> QED
      BY <1>1, <1>3, <3>1
  <2>5. CASE WifiUp \/ ExclusiveOn
    BY <1>2, <2>5 DEF WifiUp, ExclusiveOn
  <2>6. CASE ConsoleReboot \/ AdminReboot \/ OtaEnd
    BY <1>5, <2>6 DEF ConsoleReboot, AdminReboot, OtaEnd
  <2> QED
    BY <1>9, <2>1, <2>2, <2>3, <2>4, <2>5, <2>6 DEF Environment
<1>10. CASE Panic
  BY <1>5, <1>10 DEF Panic
<1>11. CASE UNCHANGED vars
  BY <1>4, <1>11, LinesDrawNothing DEF vars
<1> QED
  BY <1>6, <1>7, <1>8, <1>9, <1>10, <1>11 DEF Next

(***************************************************************************)
(* In exclusive mode and during an update, once those who had seen the     *)
(* state IDLE have finished, nothing is drawn by the firmware any more.    *)
(***************************************************************************)
THEOREM DisplayFrozenAlways == Spec => DisplayFrozen
<1>1. TypeInv /\ [Next]_vars
        => [Frozen => /\ GivenUp' => Frozen'
                      /\ \A k \in Kinds, h \in HwNums :
                           board'[k][h] \in Contents => board'[k][h] = board[k][h]]_vars
  BY FrozenStep DEF DrawsNothing
<1> QED
  BY <1>1, InitType, NextType, PTL DEF Spec, DisplayFrozen

-------------------------------------------------------------------------------
(* The calls of the manager. *)

\* The list of the NORMAL messages.
Lst == reserved["NORMAL"]

\* A bit that is free or set is tested, and its message drawn.
Tests(t, k, n) ==
    /\ Enter(t, "draw", k, n,
             IF n \in reserved[k] THEN {} ELSE WordOf(reserved[k], n) \cup {n})
    /\ UNCHANGED managerVars

DrawsAs(t, o) ==
    /\ call[t].at = "draw"
    /\ IF call[t].word = {} THEN UNCHANGED reserved ELSE Store(t)
    /\ board' = Mgr!SetMessage(board, call[t].kind, InternalIdToHwId(call[t].num), o)
    /\ Leaves(t)

\* A step that is none of a call, and a line that goes past the manager.
Silent == UNCHANGED <<reserved, board, call, raced>>

Lines ==
    /\ \E line \in RawLines : board' = AfterLine(line)
    /\ UNCHANGED <<reserved, call, raced>>

\* What a step does to the lists, the board and the calls.
TaskCalls(t) ==
    \/ Find(t) \/ MarkReserved(t)
    \/ \E k \in Kinds, n \in Nums : Tests(t, k, n) \/ EraseSlot(t, k, n)
    \/ \E o \in Contents : DrawsAs(t, o)
    \/ ResetOnce(t) \/ ResetLast(t, "reset") \/ ResetLast(t, "again")

CallStep ==
    \/ Silent \/ Lines \/ Restart \/ ReserveSys
    \/ \E t \in Tasks : TaskCalls(t)

\* A message that is drawn.
LEMMA ShowCalls ==
    ASSUME NEW t \in Tasks, NEW k \in Kinds, NEW o \in Contents, NEW n, NEW s,
           Show(t, k, o, n, s)
    PROVE  CallStep
<1>1. CASE TestBit(t, k, n)
  BY <1>1 DEF TestBit, Tests, TaskCalls, CallStep, managerVars
<1>2. CASE Throws(n)
  BY <1>2 DEF Throws, Silent, CallStep, managerVars
<1>3. CASE ~TestBit(t, k, n) /\ ~Throws(n)
  BY <1>3 DEF Show, DrawsAs, TaskCalls, CallStep
<1> QED
  BY <1>1, <1>2, <1>3

\* A message that is erased.
LEMMA EraseCalls ==
    ASSUME NEW t \in Tasks, NEW n, NEW s, Hide(t, n, s) \/ Remove(t, n, s)
    PROVE  CallStep
<1>1. CASE EraseSlot(t, "NORMAL", n)
  <2>1. n \in Nums
    BY <1>1 DEF EraseSlot
  <2> QED
    BY <1>1, <2>1, NormalIsKind DEF TaskCalls, CallStep
<1>2. CASE Throws(n)
  BY <1>2 DEF Throws, Silent, CallStep, managerVars
<1>3. CASE ResetOnce(t) \/ ResetLast(t, "reset") \/ ResetLast(t, "again")
  BY <1>3 DEF TaskCalls, CallStep
<1> QED
  BY <1>1, <1>2, <1>3 DEF Hide, Remove

\* setup and loop().
LEMMA MainCalls == ASSUME TypeInv, MainStep PROVE CallStep
<1>1. "main" \in Tasks /\ Views \cup {"newyear"} \subseteq Contents
  BY NamesAreTasks DEF Names, Contents
<1>2. CASE ReserveSys
  BY <1>2 DEF CallStep
<1>3. CASE BuildFind \/ YearFind \/ BuildSet \/ YearSet
  BY <1>1, <1>3 DEF BuildFind, YearFind, BuildSet, YearSet, TaskCalls, CallStep
<1>4. CASE StartOta \/ StartAccounts \/ StartConsole \/ Ready \/ Loop \/ UpdateTime
  BY <1>4
     DEF StartOta, StartAccounts, StartConsole, Ready, Loop, UpdateTime, managerVars, ghosts,
         Silent, CallStep
<1>5. CASE DrawTime
  <2>1. PICK s : Show("main", "NORMAL", "time", num["time"], s)
    BY <1>5 DEF DrawTime
  <2> QED
    BY <1>1, <2>1, ShowCalls, NormalIsKind DEF Views
<1>6. CASE YearDraw
  BY <1>1, <1>6, ShowCalls, NormalIsKind DEF YearDraw
<1>7. CASE YearRemove
  BY <1>1, <1>7, EraseCalls DEF YearRemove
<1>8. ASSUME NEW v \in Views \ {"time"}, UpdateView(v) PROVE CallStep
  <2>1. CASE UNCHANGED <<managerVars, call, raced>>
    BY <2>1 DEF managerVars, Silent, CallStep
  <2>2. CASE Show("main", "NORMAL", v, num[v], AfterView(v))
    BY <1>1, <2>2, ShowCalls, NormalIsKind
  <2>3. CASE Hide("main", num[v], AfterView(v))
    BY <1>1, <2>3, EraseCalls
  <2> QED
    BY <1>8, <2>1, <2>2, <2>3 DEF UpdateView
<1> QED
  BY <1>2, <1>3, <1>4, <1>5, <1>6, <1>7, <1>8 DEF MainStep, Setup, Year

\* mail_cb.
LEMMA MailCalls ==
    ASSUME TypeInv, NEW a \in Accounts, MailStep(a) \/ \E i : Appear(a, i) \/ Disappear(a, i)
    PROVE  CallStep
<1>1. a \in Tasks
  BY NamesAreTasks
<1>2. ASSUME NEW i, Appear(a, i) PROVE CallStep
  <2>1. CASE mailMap[i] # Unmapped
    BY <1>2, <2>1 DEF Appear, managerVars, Silent, CallStep
  <2>2. CASE mailMap[i] = Unmapped
    BY <1>1, <1>2, <2>2 DEF Appear, TaskCalls, CallStep
  <2> QED
    BY <2>1, <2>2
<1>3. CASE MailSet(a)
  BY <1>1, <1>3 DEF MailSet, TaskCalls, CallStep
<1>4. CASE MailTest(a) \/ MailTestGone(a) \/ \E i : Disappear(a, i)
  BY <1>4 DEF MailTest, MailTestGone, Disappear, managerVars, ghosts, Silent, CallStep
<1>5. CASE MailDraw(a)
  <2>1. local[a].id \in Contents
    BY <1>5, IdFacts DEF MailDraw, TypeInv, Contents
  <2> QED
    BY <1>1, <1>5, <2>1, ShowCalls, NormalIsKind DEF MailDraw
<1>6. CASE MailErase(a)
  BY <1>1, <1>6, EraseCalls DEF MailErase
<1> QED
  BY <1>2, <1>3, <1>4, <1>5, <1>6 DEF MailStep

\* remove_all.
LEMMA SweepCalls ==
    ASSUME TypeInv, NEW t \in {"console", "ota"}, SweepStep(t)
    PROVE  CallStep
<1> DEFINE k == Swept(Target(t))[sweep[t][1]]
           next == FindFirst({n \in reserved[k] : n >= sweep[t][2]})
<1>1. t \in Tasks
  BY NamesAreTasks DEF Names
<1>2. CASE UNCHANGED <<managerVars, call, raced>>
  BY <1>2 DEF managerVars, Silent, CallStep
<1>3. CASE sweep[t][1] <= Len(Swept(Target(t))) /\ EraseSlot(t, k, next)
  <2>1. k \in Kinds
    BY <1>3, SweepFacts DEF TypeInv, TypeOK
  <2> HIDE DEF k, next
  <2>2. next \in Nums
    BY <1>3 DEF EraseSlot
  <2> QED
    BY <1>1, <1>3, <2>1, <2>2 DEF TaskCalls, CallStep
<1>4. CASE ResetOnce(t) \/ ResetLast(t, "again")
  BY <1>1, <1>4 DEF TaskCalls, CallStep
<1> QED
  BY <1>2, <1>3, <1>4 DEF SweepStep

\* Every step.
LEMMA NextCalls == ASSUME TypeInv, [Next]_vars PROVE CallStep
<1>1. CASE MainStep
  BY <1>1, MainCalls
<1>2. ASSUME NEW a \in Accounts, MailStep(a) PROVE CallStep
  BY <1>2, MailCalls
<1>3. CASE SweepStep("console") \/ SweepStep("ota")
  BY <1>3, SweepCalls
<1>4. CASE Leave \/ \E t : SetState(t)
  BY <1>4 DEF Leave, SetState, managerVars, ghosts, Silent, CallStep
<1>5. CASE OtaNotice
  BY <1>5, ShowCalls, NormalIsKind, NamesAreTasks DEF OtaNotice, Names, Contents
<1>6. CASE Environment
  <2>1. ASSUME NEW a \in Accounts, NEW i, Appear(a, i) \/ Disappear(a, i) PROVE CallStep
    BY <2>1, MailCalls
  <2>2. CASE WifiUp \/ Tick \/ ExclusiveOn \/ ExclusiveOff \/ OtaStart \/ OtaError
    BY <2>2
       DEF WifiUp, Tick, ExclusiveOn, ExclusiveOff, OtaStart, OtaError, managerVars, ghosts,
           Silent, CallStep
  <2>3. CASE ConsoleLine \/ AdminReset
    BY <2>3 DEF ConsoleLine, AdminReset, ghosts, Lines, CallStep
  <2>4. CASE ConsoleReboot \/ AdminReboot \/ OtaEnd
    BY <2>4 DEF ConsoleReboot, AdminReboot, OtaEnd, CallStep
  <2> QED
    BY <1>6, <2>1, <2>2, <2>3, <2>4 DEF Environment
<1>7. CASE Panic
  BY <1>7 DEF Panic, CallStep
<1>8. CASE UNCHANGED vars
  BY <1>8 DEF vars, Silent, CallStep
<1> QED
  BY <1>1, <1>2, <1>3, <1>4, <1>5, <1>6, <1>7, <1>8 DEF Next, ConsoleStep, OtaStep

(***************************************************************************)
(* Until two calls overlap there is at most one, and its word is that of   *)
(* the list as it still is, with the one bit changed.                      *)
(***************************************************************************)
OneCall == \A t, u \in Tasks : InCall(t) /\ InCall(u) => t = u

InSync(t) ==
    LET k == call[t].kind
        n == call[t].num
        word == WordOf(reserved[k], n) IN
    /\ call[t].at = "mark" => k = "NORMAL" /\ n = Free /\ call[t].word = word \cup {n}
    /\ call[t].at = "draw" =>
         \/ call[t].word = {} /\ n \in reserved[k]
         \/ call[t].word = word \cup {n}
    /\ call[t].at \in {"reset", "again"} =>
         call[t].word = word \ {n} /\ ~Mgr!Ours(k, n)

CallInv == ~raced => OneCall /\ \A t \in Tasks : InSync(t)

\* What storing a word amounts to when the list has not changed since it was loaded.
LEMMA Words ==
    ASSUME NEW bits \in SUBSET Nums, NEW n \in Nums
    PROVE  /\ StoreWord(bits, n, WordOf(bits, n) \cup {n}) = bits \cup {n}
           /\ StoreWord(bits, n, WordOf(bits, n) \ {n}) = bits \ {n}
           /\ WordOf(bits \ {n}, n) \ {n} = WordOf(bits, n) \ {n}
           /\ WordOf(bits, n) \cup {n} # {}
  BY DEF WordOf, StoreWord

\* The lists as the calls under way have taken effect, for any lists and calls.
SettledOf(res, cl) ==
    [k \in Kinds |-> res[k] \ {cl[t].num : t \in {u \in Tasks :
        cl[u].at \in {"reset", "again"} /\ cl[u].kind = k}}]

LEMMA SettledNone ==
    ASSUME NEW res \in [Kinds -> SUBSET Nums], NEW cl,
           \A t \in Tasks : cl[t].at \notin {"reset", "again"}
    PROVE  SettledOf(res, cl) = res
<1>1. \A k \in Kinds : {u \in Tasks : cl[u].at \in {"reset", "again"} /\ cl[u].kind = k} = {}
  OBVIOUS
<1>2. \A k \in Kinds : {cl[t].num : t \in {u \in Tasks :
                            cl[u].at \in {"reset", "again"} /\ cl[u].kind = k}} = {}
  BY <1>1
<1> QED
  BY <1>2 DEF SettledOf

LEMMA SettledOne ==
    ASSUME NEW res \in [Kinds -> SUBSET Nums], NEW cl \in CallType, NEW t \in Tasks,
           cl[t].at \in {"reset", "again"},
           \A u \in Tasks \ {t} : cl[u].at = "out"
    PROVE  SettledOf(res, cl) = [res EXCEPT ![cl[t].kind] = @ \ {cl[t].num}]
<1> DEFINE Resets(k) == {u \in Tasks : cl[u].at \in {"reset", "again"} /\ cl[u].kind = k}
<1>1. Resets(cl[t].kind) = {t} /\ \A k \in Kinds : k # cl[t].kind => Resets(k) = {}
  OBVIOUS
<1>2. \A k \in Kinds : {cl[u].num : u \in Resets(k)} = IF k = cl[t].kind THEN {cl[t].num} ELSE {}
  BY <1>1
<1>3. cl[t].kind \in Kinds
  BY DEF CallType
<1> HIDE DEF Resets
<1>4. \A k \in Kinds : res[k] \ {cl[u].num : u \in Resets(k)}
                         = [res EXCEPT ![cl[t].kind] = @ \ {cl[t].num}][k]
  BY <1>2, <1>3
<1>5. SettledOf(res, cl) = [k \in Kinds |-> res[k] \ {cl[u].num : u \in Resets(k)}]
  BY DEF SettledOf, Resets
<1> QED
  BY <1>4, <1>5

\* The task that takes a step of a call is alone in the manager, or a race is noted.
LEMMA Alone ==
    ASSUME ManagerOK, CallInv, NEW t \in Tasks, TaskCalls(t), ~raced'
    PROVE  /\ ~raced /\ OneCall /\ InSync(t)
           /\ \A u \in Tasks \ {t} : call[u].at = "out" /\ call'[u] = call[u]
<1>1. CASE call' = call /\ Overlaps(t)
  BY <1>1 DEF Overlaps, InCall, CallInv
<1>2. ASSUME NEW at, NEW k, NEW n, NEW w, Enter(t, at, k, n, w)
      PROVE  /\ ~raced
             /\ \A u \in Tasks \ {t} : call[u].at = "out" /\ call'[u] = call[u]
  BY <1>2 DEF Enter, Overlaps, InCall, ManagerOK, CallType
<1>3. CASE Find(t)
  BY <1>1, <1>2, <1>3 DEF Find, CallInv
<1>4. ASSUME NEW k, NEW n, Tests(t, k, n) \/ EraseSlot(t, k, n)
      PROVE  /\ ~raced
             /\ \A u \in Tasks \ {t} : call[u].at = "out" /\ call'[u] = call[u]
  BY <1>2, <1>4 DEF Tests, EraseSlot
<1>5. CASE InCall(t) /\ raced' = raced /\ \A u \in Tasks \ {t} : call'[u] = call[u]
  BY <1>5 DEF CallInv, OneCall, InCall
<1>6. CASE MarkReserved(t) \/ ResetOnce(t) \/ ResetLast(t, "reset") \/ ResetLast(t, "again")
           \/ \E o \in Contents : DrawsAs(t, o)
  <2>1. InCall(t) /\ raced' = raced
    BY <1>6 DEF MarkReserved, ResetOnce, ResetLast, DrawsAs, Leaves, InCall
  <2>2. \A u \in Tasks \ {t} : call'[u] = call[u]
    BY <1>6 DEF MarkReserved, ResetOnce, ResetLast, DrawsAs, Leaves, ManagerOK, CallType
  <2> QED
    BY <1>5, <2>1, <2>2
<1> QED
  BY <1>3, <1>4, <1>6 DEF TaskCalls, CallInv

\* The lists before and after such a step.
LEMMA AloneSettled ==
    ASSUME ManagerOK, ManagerOK', NEW t \in Tasks,
           \A u \in Tasks \ {t} : call[u].at = "out" /\ call'[u] = call[u]
    PROVE  /\ Settled = IF call[t].at \in {"reset", "again"}
                        THEN [reserved EXCEPT ![call[t].kind] = @ \ {call[t].num}]
                        ELSE reserved
           /\ Settled' = IF call'[t].at \in {"reset", "again"}
                         THEN [reserved' EXCEPT ![call'[t].kind] = @ \ {call'[t].num}]
                         ELSE reserved'
<1>1. /\ Settled = SettledOf(reserved, call) /\ Settled' = SettledOf(reserved', call')
      /\ reserved \in [Kinds -> SUBSET Nums] /\ reserved' \in [Kinds -> SUBSET Nums]
      /\ call \in CallType /\ call' \in CallType
      /\ \A u \in Tasks \ {t} : call'[u].at = "out"
  BY SameNumbers DEF Settled, SettledOf, ManagerOK, Mgr!TypeOK
<1>2. Settled = IF call[t].at \in {"reset", "again"}
                THEN [reserved EXCEPT ![call[t].kind] = @ \ {call[t].num}]
                ELSE reserved
  <2>1. CASE call[t].at \in {"reset", "again"}
    BY <1>1, <2>1, SettledOne
  <2>2. CASE call[t].at \notin {"reset", "again"}
    <3>1. \A u \in Tasks : call[u].at \notin {"reset", "again"}
      BY <2>2
    <3> QED
      BY <1>1, <2>2, <3>1, SettledNone
  <2> QED
    BY <2>1, <2>2
<1>3. Settled' = IF call'[t].at \in {"reset", "again"}
                 THEN [reserved' EXCEPT ![call'[t].kind] = @ \ {call'[t].num}]
                 ELSE reserved'
  <2>1. CASE call'[t].at \in {"reset", "again"}
    BY <1>1, <2>1, SettledOne
  <2>2. CASE call'[t].at \notin {"reset", "again"}
    <3>1. \A u \in Tasks : call'[u].at \notin {"reset", "again"}
      BY <1>1, <2>2
    <3> QED
      BY <1>1, <2>2, <3>1, SettledNone
  <2> QED
    BY <2>1, <2>2
<1> QED
  BY <1>2, <1>3

\* What storing the word of a call does to its list.
LEMMA StoreDoes ==
    ASSUME ManagerOK, NEW t \in Tasks, InSync(t), Store(t)
    PROVE  /\ call[t].at = "mark" \/ (call[t].at = "draw" /\ call[t].word # {})
                => reserved' = [reserved EXCEPT ![call[t].kind] = @ \cup {call[t].num}]
           /\ call[t].at \in {"reset", "again"}
                => reserved' = [reserved EXCEPT ![call[t].kind] = @ \ {call[t].num}]
<1> DEFINE k == call[t].kind
           n == call[t].num
<1>1. k \in Kinds /\ reserved[k] \in SUBSET Nums
  BY SameNumbers DEF ManagerOK, CallType, Mgr!TypeOK
<1>2. call[t].at # "out" => n \in Nums
  BY DEF ManagerOK, CallsNumbered, InCall
<1>3. reserved' = [reserved EXCEPT ![k] = StoreWord(reserved[k], n, call[t].word)]
  BY DEF Store
<1>4. CASE call[t].at = "mark" \/ (call[t].at = "draw" /\ call[t].word # {})
  <2>1. call[t].word = WordOf(reserved[k], n) \cup {n} /\ n \in Nums
    BY <1>2, <1>4 DEF InSync
  <2> DEFINE bits == reserved[k]
  <2> HIDE DEF bits
  <2>2. StoreWord(bits, n, WordOf(bits, n) \cup {n}) = bits \cup {n}
    BY <1>1, <2>1, Words DEF bits
  <2>3. StoreWord(reserved[k], n, call[t].word) = reserved[k] \cup {n}
    BY <2>1, <2>2 DEF bits
  <2>4. reserved' = [reserved EXCEPT ![k] = reserved[k] \cup {n}]
    BY <1>3, <2>3
  <2>5. call[t].at \notin {"reset", "again"}
    BY <1>4
  <2> QED
    BY <2>4, <2>5
<1>5. CASE call[t].at \in {"reset", "again"}
  <2>1. call[t].word = WordOf(reserved[k], n) \ {n} /\ n \in Nums
    BY <1>2, <1>5 DEF InSync
  <2> DEFINE bits == reserved[k]
  <2> HIDE DEF bits
  <2>2. StoreWord(bits, n, WordOf(bits, n) \ {n}) = bits \ {n}
    BY <1>1, <2>1, Words DEF bits
  <2>3. StoreWord(reserved[k], n, call[t].word) = reserved[k] \ {n}
    BY <2>1, <2>2 DEF bits
  <2>4. reserved' = [reserved EXCEPT ![k] = reserved[k] \ {n}]
    BY <1>3, <2>3
  <2>5. ~(call[t].at = "mark" \/ (call[t].at = "draw" /\ call[t].word # {}))
    BY <1>5
  <2> QED
    BY <2>4, <2>5
<1> QED
  BY <1>4, <1>5

\* A number that has been found is marked: reserve as a whole.
LEMMA MarkDoes ==
    ASSUME ManagerOK, NEW t \in Tasks, InSync(t), MarkReserved(t)
    PROVE  /\ call[t].num = Free /\ Free \in Nums
           /\ reserved' = [reserved EXCEPT !["NORMAL"] = @ \cup {Free}]
           /\ board' = board
<1>1. call[t].at = "mark" /\ Store(t) /\ board' = board
  BY DEF MarkReserved
<1>2. call[t].num \in Nums /\ call[t].num = Free /\ call[t].kind = "NORMAL"
  BY <1>1 DEF InSync, ManagerOK, CallsNumbered, InCall
<1> QED
  BY <1>1, <1>2, StoreDoes

\* A message is drawn: update as a whole.
LEMMA DrawDoes ==
    ASSUME ManagerOK, NEW t \in Tasks, InSync(t), NEW o, DrawsAs(t, o)
    PROVE  /\ call[t].num \in Nums /\ call[t].kind \in Kinds
           /\ reserved' = [reserved EXCEPT ![call[t].kind] = @ \cup {call[t].num}]
           /\ board' = Mgr!SetMessage(board, call[t].kind, InternalIdToHwId(call[t].num), o)
<1>1. call[t].num \in Nums /\ call[t].kind \in Kinds /\ call[t].at = "draw"
  BY DEF DrawsAs, ManagerOK, CallType, CallsNumbered, InCall
<1>2. CASE call[t].word = {}
  <2>1. call[t].num \in reserved[call[t].kind]
    BY <1>1, <1>2, Words DEF InSync
  <2>2. reserved \in [Kinds -> SUBSET Nums] /\ reserved' = reserved
    BY <1>2, SameNumbers DEF DrawsAs, ManagerOK, Mgr!TypeOK
  <2> QED
    BY <1>1, <2>1, <2>2 DEF DrawsAs
<1>3. CASE call[t].word # {}
  BY <1>1, <1>3, StoreDoes DEF DrawsAs
<1> QED
  BY <1>2, <1>3

\* A bit is reset.
LEMMA ResetDoes ==
    ASSUME ManagerOK, NEW t \in Tasks, InSync(t),
           ResetOnce(t) \/ ResetLast(t, "reset") \/ ResetLast(t, "again")
    PROVE  /\ call[t].at \in {"reset", "again"}
           /\ call[t].num \in Nums /\ call[t].kind \in Kinds
           /\ reserved' = [reserved EXCEPT ![call[t].kind] = @ \ {call[t].num}]
           /\ board' = board
           /\ \/ ResetOnce(t) /\ call'[t] = [call[t] EXCEPT !.at = "again"]
              \/ call'[t] = NoCall
<1>1. call[t].at \in {"reset", "again"} /\ Store(t) /\ board' = board
  BY DEF ResetOnce, ResetLast
<1>2. call[t].num \in Nums /\ call[t].kind \in Kinds
  BY <1>1 DEF ManagerOK, CallType, CallsNumbered, InCall
<1>3. (ResetOnce(t) /\ call'[t] = [call[t] EXCEPT !.at = "again"]) \/ call'[t] = NoCall
  BY DEF ResetOnce, ResetLast, Leaves, ManagerOK, CallType
<1> QED
  BY <1>1, <1>2, <1>3, StoreDoes

\* The numbers of MessageManager with the settled lists are those of Firmware, too.
LEMMA SameAtOnce ==
    /\ AtOnce!Nums = Nums /\ AtOnce!HwNums = HwNums /\ AtOnce!NoNum = NoNum
    /\ \A n : AtOnce!InternalIdToHwId(n) = InternalIdToHwId(n)
    /\ \A bits : AtOnce!FindNextFree(bits) = FindNextFree(bits)
<1>1. /\ AtOnce!Nums = Nums /\ AtOnce!HwNums = HwNums /\ AtOnce!NoNum = NoNum
      /\ \A n : AtOnce!InternalIdToHwId(n) = InternalIdToHwId(n)
  BY DEF AtOnce!Nums, Nums, AtOnce!HwNums, HwNums, AtOnce!NoNum, NoNum,
         AtOnce!InternalIdToHwId, InternalIdToHwId, AtOnce!NJE_MIN_MSG_NUM,
         AtOnce!NJE_MAX_MSG_NUM, NJE_MIN_MSG_NUM, NJE_MAX_MSG_NUM
<1>2. \A bits : AtOnce!FindNextFree(bits) = FindNextFree(bits)
  BY DEF FindNextFree, FindFirst, AtOnce!FindNextFree, AtOnce!FindFirst
<1> QED
  BY <1>1, <1>2

\* Each step of a call takes effect as a call at once, or not at all.
LEMMA CallEffects ==
    ASSUME TypeInv, ManagerOK', CallInv, NEW t \in Tasks, TaskCalls(t), ~raced'
    PROVE  \/ UNCHANGED AtOnce!vars
           \/ \E n \in Nums : AtOnce!Reserve("NORMAL", n)
           \/ \E k \in Kinds, n \in Nums :
                AtOnce!Hide(k, n) \/ \E o \in Contents : AtOnce!Update(k, n, o)
<1>1. /\ ManagerOK /\ ~raced /\ InSync(t)
      /\ \A u \in Tasks \ {t} : call[u].at = "out" /\ call'[u] = call[u]
      /\ reserved \in [Kinds -> SUBSET Nums] /\ call \in CallType
  BY Alone, TypeParts, SameNumbers DEF ManagerOK, Mgr!TypeOK
<1>2. /\ Settled = IF call[t].at \in {"reset", "again"}
                   THEN [reserved EXCEPT ![call[t].kind] = @ \ {call[t].num}]
                   ELSE reserved
      /\ Settled' = IF call'[t].at \in {"reset", "again"}
                    THEN [reserved' EXCEPT ![call'[t].kind] = @ \ {call'[t].num}]
                    ELSE reserved'
  BY <1>1, AloneSettled
<1>3. ASSUME NEW at \in {"mark", "draw"}, NEW k, NEW n, NEW w, Enter(t, at, k, n, w),
             UNCHANGED managerVars
      PROVE  UNCHANGED AtOnce!vars
  <2>1. call[t].at = "out" /\ call'[t].at = at /\ reserved' = reserved /\ board' = board
    BY <1>1, <1>3 DEF Enter, InCall, CallType, managerVars
  <2> QED
    BY <1>2, <2>1 DEF AtOnce!vars
<1>4. CASE Find(t)
  <2>1. CASE Free < 0
    BY <1>2, <1>4, <2>1 DEF Find, managerVars, AtOnce!vars
  <2>2. CASE ~(Free < 0)
    BY <1>3, <1>4, <2>2 DEF Find
  <2> QED
    BY <2>1, <2>2
<1>5. CASE MarkReserved(t)
  <2>1. /\ Free \in Nums /\ reserved' = [reserved EXCEPT !["NORMAL"] = @ \cup {Free}]
        /\ board' = board
    BY <1>1, <1>5, MarkDoes
  <2>2. Settled = reserved /\ Settled' = reserved'
    BY <1>1, <1>2, <1>5 DEF MarkReserved, Leaves, NoCall, CallType
  <2>3. Free = AtOnce!FindNextFree(Settled["NORMAL"]) /\ ~(Free < 0)
    <3>1. Free = FindNextFree(Settled["NORMAL"])
      BY <2>2 DEF Free
    <3>2. ~(Free < 0)
      <4>1. Free >= 0 /\ Free \in Int
        BY <2>1, NumbersAreInts
      <4> HIDE DEF Free
      <4> QED
        BY <4>1
    <3> QED
      BY <3>1, <3>2, SameAtOnce
  <2>4. AtOnce!Reserve("NORMAL", Free)
    BY <2>1, <2>2, <2>3 DEF AtOnce!Reserve
  <2> QED
    BY <2>1, <2>4
<1>6. ASSUME NEW k \in Kinds, NEW n \in Nums, Tests(t, k, n) PROVE UNCHANGED AtOnce!vars
  BY <1>3, <1>6 DEF Tests
<1>7. ASSUME NEW k \in Kinds, NEW n \in Nums, EraseSlot(t, k, n) PROVE AtOnce!Hide(k, n)
  <2>1. /\ call[t].at = "out" /\ call'[t].at = "reset" /\ call'[t].kind = k /\ call'[t].num = n
        /\ reserved' = reserved /\ board' = Mgr!DeleteMessage(board, k, InternalIdToHwId(n))
    BY <1>1, <1>7 DEF EraseSlot, Enter, InCall, CallType
  <2>2. Settled' = [Settled EXCEPT ![k] = @ \ {n}]
    BY <1>2, <2>1
  <2>3. board' = AtOnce!DeleteMessage(board, k, AtOnce!InternalIdToHwId(n))
    BY <2>1, SameAtOnce DEF Mgr!DeleteMessage, AtOnce!DeleteMessage
  <2> QED
    BY <2>2, <2>3, SameNumbers DEF AtOnce!Hide, AtOnce!Nums, Nums
<1>8. ASSUME NEW o \in Contents, DrawsAs(t, o)
      PROVE  \E k \in Kinds, n \in Nums : AtOnce!Update(k, n, o)
  <2> DEFINE k == call[t].kind
             n == call[t].num
  <2>1. /\ n \in Nums /\ k \in Kinds
        /\ reserved' = [reserved EXCEPT ![k] = @ \cup {n}]
        /\ board' = Mgr!SetMessage(board, k, InternalIdToHwId(n), o)
    BY <1>1, <1>8, DrawDoes
  <2>2. Settled = reserved /\ Settled' = reserved'
    BY <1>1, <1>2, <1>8 DEF DrawsAs, Leaves, NoCall, CallType
  <2> HIDE DEF k, n
  <2>3. Settled' = [Settled EXCEPT ![k] = @ \cup {n}]
    BY <2>1, <2>2
  <2>4. board' = AtOnce!SetMessage(board, k, AtOnce!InternalIdToHwId(n), o)
    BY <2>1, SameAtOnce DEF Mgr!SetMessage, AtOnce!SetMessage
  <2>5. AtOnce!Update(k, n, o)
    BY <2>1, <2>3, <2>4 DEF AtOnce!Update, AtOnce!Nums, Nums
  <2> QED
    BY <2>1, <2>5
<1>9. CASE ResetOnce(t) \/ ResetLast(t, "reset") \/ ResetLast(t, "again")
  <2>1. /\ call[t].at \in {"reset", "again"} /\ call[t].num \in Nums /\ call[t].kind \in Kinds
        /\ reserved' = [reserved EXCEPT ![call[t].kind] = @ \ {call[t].num}]
        /\ board' = board
        /\ (ResetOnce(t) /\ call'[t] = [call[t] EXCEPT !.at = "again"]) \/ call'[t] = NoCall
    BY <1>1, <1>9, ResetDoes
  <2>2. Settled' = Settled
    <3>1. CASE call'[t] = NoCall
      BY <1>2, <2>1, <3>1 DEF NoCall
    <3>2. CASE call'[t] = [call[t] EXCEPT !.at = "again"]
      <4>1. call'[t].at = "again" /\ call'[t].kind = call[t].kind /\ call'[t].num = call[t].num
        BY <1>1, <3>2 DEF CallType
      <4>2. Settled' = [reserved' EXCEPT ![call[t].kind] = @ \ {call[t].num}]
        BY <1>2, <4>1
      <4> QED
        BY <1>1, <1>2, <2>1, <4>2
    <3> QED
      BY <2>1, <3>1, <3>2
  <2> QED
    BY <2>1, <2>2 DEF AtOnce!vars
<1> QED
  BY <1>4, <1>5, <1>6, <1>7, <1>8, <1>9 DEF TaskCalls

\* The call of a task that has just taken a step is in sync with the list.
LEMMA CallSync ==
    ASSUME TypeInv, ManagerOK', CallInv, NEW t \in Tasks, TaskCalls(t), ~raced'
    PROVE  InSync(t)'
<1>1. /\ ManagerOK /\ ~raced /\ InSync(t)
      /\ reserved \in [Kinds -> SUBSET Nums] /\ call \in CallType
      /\ board \in [Kinds -> [HwNums -> Contents \cup {Blank, Foreign}]]
      /\ Blank \notin Contents
  BY Alone, TypeParts, SameNumbers, FirmwareAssumption DEF ManagerOK, Mgr!TypeOK
<1>2. CASE Find(t)
  <2>1. CASE Free < 0
    BY <1>1, <1>2, <2>1 DEF Find, managerVars, InSync, Free, Mgr!Ours
  <2>2. CASE ~(Free < 0)
    <3>1. /\ call'[t] = [at |-> "mark", kind |-> "NORMAL", num |-> Free,
                        word |-> WordOf(reserved["NORMAL"], Free) \cup {Free}]
          /\ reserved' = reserved
      BY <1>1, <1>2, <2>2 DEF Find, Enter, CallType, managerVars
    <3> QED
      BY <3>1 DEF InSync, Free
  <2> QED
    BY <2>1, <2>2
<1>3. ASSUME call'[t] = NoCall PROVE InSync(t)'
  BY <1>3 DEF InSync, NoCall
<1>4. CASE MarkReserved(t) \/ \E o \in Contents : DrawsAs(t, o)
  <2>1. call'[t] = NoCall
    BY <1>1, <1>4 DEF MarkReserved, DrawsAs, Leaves, CallType
  <2> QED
    BY <1>3, <2>1
<1>5. ASSUME NEW k \in Kinds, NEW n \in Nums, Tests(t, k, n) PROVE InSync(t)'
  <2>1. /\ call'[t] = [at |-> "draw", kind |-> k, num |-> n,
                      word |-> IF n \in reserved[k] THEN {} ELSE WordOf(reserved[k], n) \cup {n}]
        /\ reserved' = reserved
    BY <1>1, <1>5 DEF Tests, Enter, CallType, managerVars
  <2> QED
    BY <2>1 DEF InSync
<1>6. ASSUME NEW k \in Kinds, NEW n \in Nums, EraseSlot(t, k, n) PROVE InSync(t)'
  <2>1. /\ call'[t] = [at |-> "reset", kind |-> k, num |-> n, word |-> WordOf(reserved[k], n) \ {n}]
        /\ reserved' = reserved /\ board' = Mgr!DeleteMessage(board, k, InternalIdToHwId(n))
    BY <1>1, <1>6 DEF EraseSlot, Enter, CallType
  <2>2. board'[k][InternalIdToHwId(n)] = Blank
    BY <1>1, <2>1, SlotType DEF Mgr!DeleteMessage
  <2>3. ~Mgr!Ours(k, n)'
    BY <1>1, <2>2, SameNumbers DEF Mgr!Ours
  <2> QED
    BY <2>1, <2>3 DEF InSync
<1>7. CASE ResetOnce(t) \/ ResetLast(t, "reset") \/ ResetLast(t, "again")
  <2>1. /\ call[t].at \in {"reset", "again"} /\ call[t].num \in Nums /\ call[t].kind \in Kinds
        /\ reserved' = [reserved EXCEPT ![call[t].kind] = @ \ {call[t].num}]
        /\ board' = board
        /\ (ResetOnce(t) /\ call'[t] = [call[t] EXCEPT !.at = "again"]) \/ call'[t] = NoCall
    BY <1>1, <1>7, ResetDoes
  <2>2. CASE call'[t] = [call[t] EXCEPT !.at = "again"]
    <3> DEFINE k == call[t].kind
               n == call[t].num
    <3>1. /\ call'[t].at = "again" /\ call'[t].kind = k /\ call'[t].num = n
          /\ call'[t].word = call[t].word
      BY <1>1, <2>2 DEF CallType
    <3>2. call[t].word = WordOf(reserved[k], n) \ {n} /\ ~Mgr!Ours(k, n)
      BY <1>1, <2>1 DEF InSync
    <3>3. reserved'[k] = reserved[k] \ {n}
      BY <1>1, <2>1
    <3>4. WordOf(reserved'[k], n) \ {n} = WordOf(reserved[k], n) \ {n}
      BY <1>1, <2>1, <3>3, Words
    <3>5. board'[k][Mgr!InternalIdToHwId(n)] \notin Contents
      BY <2>1, <3>2 DEF Mgr!Ours
    <3> HIDE DEF k, n
    <3> QED
      BY <3>1, <3>2, <3>4, <3>5 DEF InSync, Mgr!Ours
  <2> QED
    BY <1>3, <2>1, <2>2
<1> QED
  BY <1>2, <1>4, <1>5, <1>6, <1>7 DEF TaskCalls

(***************************************************************************)
(* Before setup has done anything no other task exists, so nobody is in    *)
(* the manager when it reserves the message of the updates.                *)
(***************************************************************************)
SysInv == pc["main"] = "sys" => \A t \in Tasks : ~InCall(t) /\ (t # "main" => pc[t] = "off")

\* Where "main" is after a step.
LEMMA MainPlace ==
    ASSUME TypeInv, [Next]_vars
    PROVE  Restart \/ pc'["main"] = pc["main"] \/ pc'["main"] # "sys"
<1>1. /\ "main" \in Tasks /\ "console" \in Tasks /\ "ota" \in Tasks
      /\ \A a \in Accounts : a \in Tasks /\ a # "main"
  BY NamesAreTasks DEF Names
<1>2. ASSUME NEW t \in Tasks, NEW places, Goes(t, places), t = "main" => "sys" \notin places
      PROVE  pc'["main"] = pc["main"] \/ pc'["main"] # "sys"
  <2>1. CASE Abort
    BY <1>1, <2>1 DEF Abort
  <2> QED
    BY <1>1, <1>2, <2>1, Stays DEF Goes
<1>3. CASE MainStep
  <2>1. CASE InLoop
    BY <1>1, <1>2, <1>3, <2>1, LoopGoes DEF LoopPc
  <2>2. CASE StartConsole \/ StartOta
    BY <1>1, <2>2 DEF StartConsole, StartOta, TypeInv, TypeOK
  <2>3. CASE StartAccounts
    <3>1. Goes("main", {"build"}) \/ \E a \in Accounts : Goes(a, {"idle"})
      BY <2>3 DEF StartAccounts, Goes
    <3> QED
      BY <1>1, <1>2, <3>1
  <2>4. CASE ReserveSys \/ BuildFind \/ BuildSet \/ Ready
    <3>1. Goes("main", {"wifi", "build", "buildSet", "loop"})
      BY <2>4 DEF ReserveSys, BuildFind, BuildSet, Ready, Goes
    <3> QED
      BY <1>1, <1>2, <3>1
  <2>5. ~InLoop => Setup
    BY <1>3
       DEF MainStep, InLoop, Loop, UpdateTime, DrawTime, Year, YearFind, YearSet, YearDraw,
           YearRemove, UpdateView, Views
  <2> QED
    BY <2>1, <2>2, <2>3, <2>4, <2>5 DEF Setup
<1>4. ASSUME NEW a \in Accounts, MailStep(a) PROVE pc'["main"] = pc["main"] \/ pc'["main"] # "sys"
  BY <1>1, <1>2, <1>4, CallbackGoes
<1>5. CASE ConsoleStep \/ OtaStep
  <2>1. \E t \in {"console", "ota"} : \E places : Goes(t, places)
    BY <1>5 DEF ConsoleStep, OtaStep, SweepStep, EraseSlot, ResetOnce, SetState, Leave,
                OtaNotice, Show, TestBit, Throws, Goes
  <2> QED
    BY <1>1, <1>2, <2>1
<1>6. CASE Environment
  <2>1. ASSUME NEW a \in Accounts, NEW i, Appear(a, i) \/ Disappear(a, i)
        PROVE  pc'["main"] = pc["main"] \/ pc'["main"] # "sys"
    <3>1. Goes(a, {"test", "mailSet", "testGone"})
      BY <2>1 DEF Appear, Disappear, Goes
    <3> QED
      BY <1>1, <1>2, <3>1
  <2>2. CASE Tick \/ ConsoleLine \/ AdminReset
    BY <2>2 DEF Tick, ConsoleLine, AdminReset
  <2>3. CASE OtaStart \/ OtaError \/ ExclusiveOn \/ ExclusiveOff \/ WifiUp
    <3>1. \E t \in {"ota", "console"} : \E places : Goes(t, places)
          \/ Goes("main", {"ota"})
      BY <2>3 DEF OtaStart, OtaError, ExclusiveOn, ExclusiveOff, WifiUp, Goes
    <3> QED
      BY <1>1, <1>2, <3>1
  <2>4. CASE ConsoleReboot \/ AdminReboot \/ OtaEnd
    BY <2>4 DEF ConsoleReboot, AdminReboot, OtaEnd
  <2> QED
    BY <1>6, <2>1, <2>2, <2>3, <2>4 DEF Environment
<1>7. CASE Panic
  BY <1>7 DEF Panic
<1>8. CASE UNCHANGED vars
  BY <1>8 DEF vars
<1> QED
  BY <1>3, <1>4, <1>5, <1>6, <1>7, <1>8 DEF Next

\* While setup is at its first step nothing of this can go wrong.
LEMMA NextSys == ASSUME TypeInv, SysInv, [Next]_vars PROVE SysInv'
<1> SUFFICES ASSUME pc'["main"] = "sys" PROVE \A t \in Tasks : ~InCall(t)' /\ (t # "main" => pc'[t] = "off")
  BY DEF SysInv
<1>1. CASE Restart
  BY <1>1 DEF Restart, Fresh, InCall, NoCall
<1>2. CASE ~Restart
  <2>1. pc["main"] = "sys" /\ \A t \in Tasks : ~InCall(t) /\ (t # "main" => pc[t] = "off")
    BY <1>2, MainPlace DEF SysInv
  <2>2. /\ pc["console"] = "off" /\ pc["ota"] = "off" /\ \A a \in Accounts : pc[a] = "off"
        /\ "main" \in Tasks
    BY <2>1, NamesAreTasks DEF Names
  <2>3. ~MainStep
    <3>1. ~ReserveSys
      BY <2>2 DEF ReserveSys, Goto, TypeInv, TypeOK
    <3> QED
      BY <2>1, <3>1
         DEF MainStep, Setup, StartOta, StartAccounts, BuildFind, BuildSet, StartConsole, Ready,
             Loop, UpdateTime, DrawTime, Year, YearFind, YearSet, YearDraw, YearRemove,
             UpdateView, Views
  <2>4. ~ConsoleStep /\ ~OtaStep /\ \A a \in Accounts : ~MailStep(a)
    BY <2>2
       DEF ConsoleStep, OtaStep, SweepStep, SetState, Leave, OtaNotice, MailStep, MailSet,
           MailTest, MailDraw, MailTestGone, MailErase
  <2>5. ~Panic
    BY <2>1 DEF Panic
  <2>6. Environment => UNCHANGED <<pc, call>>
    BY <1>2, <2>1, <2>2
       DEF Environment, WifiUp, Tick, Appear, Disappear, ExclusiveOn, ExclusiveOff,
           ConsoleReboot, ConsoleLine, AdminReset, AdminReboot, AdminRuns, OtaStart, OtaError,
           OtaEnd
  <2>7. UNCHANGED <<pc, call>>
    BY <2>3, <2>4, <2>5, <2>6 DEF Next, vars
  <2> QED
    BY <2>1, <2>7 DEF InCall
<1> QED
  BY <1>1, <1>2

\* The invariant of the calls.
LEMMA NextCallInv == ASSUME TypeInv, SysInv, CallInv, [Next]_vars PROVE CallInv'
<1> SUFFICES ASSUME ~raced' PROVE OneCall' /\ \A t \in Tasks : InSync(t)'
  BY DEF CallInv
<1>1. ManagerOK /\ ManagerOK'
  <2>1. TypeInv'
    BY NextType
  <2> QED
    BY <2>1 DEF TypeInv, TypeOK, ManagerOK, CallType, Ghosts
<1>2. CASE Silent
  BY <1>2 DEF Silent, CallInv, OneCall, InSync, InCall, Free, Mgr!Ours
<1>3. CASE Lines
  <2>1. DrawsNothing
    BY <1>3, LinesDrawNothing DEF Lines
  <2>2. ~raced /\ UNCHANGED <<reserved, call>>
    BY <1>3 DEF Lines
  <2>3. ASSUME NEW t \in Tasks, call[t].at \in {"reset", "again"}
        PROVE  ~Mgr!Ours(call[t].kind, call[t].num)'
    <3>1. call[t].kind \in Kinds /\ InternalIdToHwId(call[t].num) \in HwNums
      BY <1>1, <2>3, SlotType DEF ManagerOK, CallType, CallsNumbered, InCall
    <3>2. ~Mgr!Ours(call[t].kind, call[t].num)
      BY <2>2, <2>3 DEF CallInv, InSync
    <3> QED
      BY <2>1, <2>2, <3>1, <3>2, SameNumbers DEF DrawsNothing, Mgr!Ours
  <2> QED
    BY <2>2, <2>3 DEF CallInv, OneCall, InSync, InCall, Free
<1>4. CASE Restart
  <2>1. \A t \in Tasks : call'[t] = NoCall
    BY <1>4 DEF Restart, Fresh
  <2> QED
    BY <2>1 DEF OneCall, InSync, InCall, NoCall
<1>5. CASE ReserveSys
  <2>1. \A t \in Tasks : call[t].at = "out" /\ call' = call
    BY <1>5 DEF ReserveSys, SysInv, InCall
  <2> QED
    BY <2>1 DEF OneCall, InSync, InCall
<1>6. ASSUME NEW t \in Tasks, TaskCalls(t) PROVE OneCall' /\ \A u \in Tasks : InSync(u)'
  <2>1. InSync(t)'
    BY <1>1, <1>6, CallSync
  <2>2. \A u \in Tasks \ {t} : call'[u].at = "out"
    BY <1>1, <1>6, Alone
  <2> QED
    BY <2>1, <2>2 DEF OneCall, InCall, InSync
<1> QED
  BY <1>2, <1>3, <1>4, <1>5, <1>6, NextCalls DEF CallStep

\* A line typed on the console goes past the manager, as it may.
LEMMA LinesPass == ASSUME Lines PROVE AtOnce!RawLine
<1>1. Settled' = Settled
  BY DEF Lines, Settled
<1>2. PICK line \in RawLines : board' = AfterLine(line)
  BY DEF Lines
<1>3. CASE line = <<"NJER">>
  BY <1>1, <1>2, <1>3, SameAtOnce DEF AfterLine, AtOnce!RawLine
<1>4. CASE line # <<"NJER">>
  <2>1. line[1] \in Kinds /\ line[2] \in HwNums
    BY <1>4, FirmwareAssumption
  <2> QED
    BY <1>1, <1>2, <1>4, <2>1, SameAtOnce
       DEF AfterLine, Mgr!SetMessage, AtOnce!RawLine, AtOnce!SetMessage
<1> QED
  BY <1>3, <1>4

\* Each step is a step of the manager at once, nothing, or notes a race.
LEMMA NextUses ==
    ASSUME TypeInv, SysInv, CallInv, [Next]_vars, ~raced'
    PROVE  UNCHANGED AtOnce!vars \/ AtOnce!Next
<1>1. ManagerOK /\ ManagerOK'
  <2>1. TypeInv'
    BY NextType
  <2> QED
    BY <2>1 DEF TypeInv, TypeOK, ManagerOK, CallType, Ghosts
<1>2. CASE Silent
  BY <1>2 DEF Silent, AtOnce!vars, Settled
<1>3. CASE Lines
  BY <1>3, LinesPass DEF AtOnce!Next
<1>4. CASE Restart
  <2>1. \A t \in Tasks : call'[t].at \notin {"reset", "again"}
    BY <1>4 DEF Restart, Fresh, NoCall
  <2>2. Settled' = reserved' /\ reserved' = [k \in Kinds |-> {}]
    BY <1>1, <1>4, <2>1, SettledNone, SameNumbers
       DEF Restart, Mgr!Restart, Settled, SettledOf, ManagerOK, Mgr!TypeOK
  <2>3. AtOnce!Restart
    BY <1>4, <2>2, SameNumbers, SameAtOnce DEF Restart, Mgr!Restart, AtOnce!Restart
  <2> QED
    BY <2>3 DEF AtOnce!Next
<1>5. CASE ReserveSys
  <2>1. \A t \in Tasks : call[t].at \notin {"reset", "again"} /\ call' = call
    BY <1>5 DEF ReserveSys, SysInv, InCall
  <2>2. Settled = reserved /\ Settled' = reserved'
    BY <1>1, <2>1, SettledNone, SameNumbers DEF Settled, SettledOf, ManagerOK, Mgr!TypeOK
  <2> DEFINE n == FindNextFree(reserved["EMERGENCY"])
  <2>3. n \in Nums \cup {NoNum}
    BY <1>1, FindNextFreeFacts, NormalIsKind, SameNumbers DEF ManagerOK, Mgr!TypeOK
  <2>4. AtOnce!Reserve("EMERGENCY", n)
    BY <1>5, <2>2, SameAtOnce DEF ReserveSys, Mgr!Reserve, AtOnce!Reserve
  <2> HIDE DEF n
  <2> QED
    BY <2>3, <2>4, NormalIsKind, SameAtOnce DEF AtOnce!Next
<1>6. ASSUME NEW t \in Tasks, TaskCalls(t) PROVE UNCHANGED AtOnce!vars \/ AtOnce!Next
  BY <1>1, <1>6, CallEffects, NormalIsKind, SameAtOnce DEF AtOnce!Next
<1> QED
  BY <1>2, <1>3, <1>4, <1>5, <1>6, NextCalls DEF CallStep

\* The calls when the firmware starts.
LEMMA InitCalls == ASSUME Init PROVE SysInv /\ CallInv
<1>1. \A t \in Tasks : call[t] = NoCall /\ (t # "main" => pc[t] = "off")
  BY DEF Init
<1> QED
  BY <1>1 DEF SysInv, CallInv, OneCall, InSync, InCall, NoCall

\* The settled lists and the board have their types.
SlotsOK ==
    /\ Settled \in [Kinds -> SUBSET Nums]
    /\ board \in [Kinds -> [HwNums -> Contents \cup {Blank, Foreign}]]

LEMMA SlotsTyped == TypeInv => SlotsOK
  BY SameNumbers DEF TypeInv, TypeOK, Mgr!TypeOK, Settled, SlotsOK

\* The manager's methods keep what is drawn under set bits.
LEMMA DrawnIsMarked ==
    ASSUME SlotsOK, AtOnce!ShownIsReserved, NEW k \in Kinds, NEW n \in Nums,
           \/ \E c : AtOnce!Update(k, n, c)
           \/ AtOnce!Hide(k, n)
    PROVE  AtOnce!ShownIsReserved'
<1>1. \A m \in Nums : /\ InternalIdToHwId(m) \in HwNums
                      /\ InternalIdToHwId(m) = InternalIdToHwId(n) => m = n
  BY HwIdOfNum, HwIdInjective
<1>2. \A j \in Kinds, m \in Nums : j # k \/ m # n =>
         /\ board'[j][InternalIdToHwId(m)] = board[j][InternalIdToHwId(m)]
         /\ m \in Settled'[j] <=> m \in Settled[j]
  BY <1>1, SameAtOnce
     DEF SlotsOK, AtOnce!Update, AtOnce!Hide, AtOnce!SetMessage, AtOnce!DeleteMessage
<1>3. \/ n \in Settled'[k]
      \/ board'[k][InternalIdToHwId(n)] = Blank
  BY <1>1, SameAtOnce
     DEF SlotsOK, AtOnce!Update, AtOnce!Hide, AtOnce!DeleteMessage
<1> QED
  BY <1>2, <1>3, SameAtOnce, FirmwareAssumption
     DEF AtOnce!ShownIsReserved, AtOnce!Ours

\* Every step of MessageManager does.
LEMMA ManagerMarks ==
    ASSUME SlotsOK, AtOnce!ShownIsReserved, AtOnce!Next
    PROVE  AtOnce!ShownIsReserved'
<1>1. \A m \in Nums : InternalIdToHwId(m) \in HwNums
  BY HwIdOfNum
<1>2. SlotsOK /\ Blank \notin Contents /\ Foreign \notin Contents
  BY FirmwareAssumption
<1>3. ASSUME NEW k \in Kinds, NEW n \in Nums \cup {NoNum}, AtOnce!Reserve(k, n)
      PROVE  AtOnce!ShownIsReserved'
  <2>1. \A j \in Kinds : Settled[j] \subseteq Settled'[j]
    BY <1>2, <1>3 DEF AtOnce!Reserve, SlotsOK
  <2> QED
    BY <1>3, <2>1 DEF AtOnce!ShownIsReserved, AtOnce!Ours, AtOnce!Reserve
<1>4. ASSUME NEW k \in Kinds, AtOnce!RemoveAll(k) PROVE AtOnce!ShownIsReserved'
  <2>1. ASSUME NEW j \in Kinds, NEW m \in Nums, board'[j][InternalIdToHwId(m)] \in Contents
        PROVE  /\ board[j][InternalIdToHwId(m)] \in Contents
               /\ j # k \/ m \notin Settled[k]
    BY <1>1, <1>2, <1>4, <2>1, SameAtOnce DEF AtOnce!RemoveAll, SlotsOK
  <2>2. \A j \in Kinds : j # k => Settled'[j] = Settled[j]
    BY <1>2, <1>4 DEF AtOnce!RemoveAll, SlotsOK
  <2> QED
    BY <2>1, <2>2, SameAtOnce DEF AtOnce!ShownIsReserved, AtOnce!Ours
<1>5. ASSUME AtOnce!Restart PROVE AtOnce!ShownIsReserved'
  <2>1. \A j \in Kinds, m \in Nums : board'[j][InternalIdToHwId(m)] \in {Blank, Foreign}
    BY <1>1, <1>5, SameAtOnce DEF AtOnce!Restart
  <2> QED
    BY <1>2, <2>1, SameAtOnce DEF AtOnce!ShownIsReserved, AtOnce!Ours
<1>6. ASSUME AtOnce!RawLine PROVE AtOnce!ShownIsReserved'
  <2>1. \A j \in Kinds, h \in HwNums : board'[j][h] \in {Blank, Foreign, board[j][h]}
    <3>1. board \in [Kinds -> [HwNums -> Contents \cup {Blank, Foreign}]]
      BY <1>2, SameAtOnce DEF SlotsOK
    <3>2. ASSUME NEW k \in Kinds, NEW h \in HwNums, NEW c \in {Blank, Foreign},
                 board' = [board EXCEPT ![k][h] = c]
          PROVE  \A j \in Kinds, i \in HwNums : board'[j][i] \in {c, board[j][i]}
      BY <3>1, <3>2
    <3> QED
      BY <1>6, <3>2, SameAtOnce DEF AtOnce!RawLine, AtOnce!SetMessage, AtOnce!DeleteMessage
  <2>2. Settled' = Settled
    BY <1>6 DEF AtOnce!RawLine
  <2> QED
    BY <1>1, <1>2, <2>1, <2>2, SameAtOnce DEF AtOnce!ShownIsReserved, AtOnce!Ours
<1> QED
  BY <1>3, <1>4, <1>5, <1>6, DrawnIsMarked, SameAtOnce DEF AtOnce!Next, AtOnce!Remove

(***************************************************************************)
(* A sweep finds all that this run has on the board, until calls overlap:  *)
(* also between the accesses of a call, after any earlier sweep, and       *)
(* whatever has been drawn, hidden, reserved or typed on the console.      *)
(***************************************************************************)
THEOREM SweepsFindAllAlways == Spec => []SweepsFindAll
<1>1. Init => TypeInv /\ SysInv /\ CallInv /\ SweepsFindAll
  <2>1. \A m \in Nums : InternalIdToHwId(m) \in HwNums
    BY HwIdOfNum
  <2>2. Init => \A k \in Kinds, m \in Nums : board[k][InternalIdToHwId(m)] = Blank
    BY <2>1 DEF Init
  <2>3. Init => SweepsFindAll
    BY <2>2, SameAtOnce, FirmwareAssumption
       DEF SweepsFindAll, AtOnce!ShownIsReserved, AtOnce!Ours
  <2> QED
    BY <2>3, InitType, InitCalls
<1>2. TypeInv /\ SysInv /\ CallInv /\ [Next]_vars => (TypeInv /\ SysInv /\ CallInv)'
  BY NextType, NextSys, NextCallInv
<1>3. ASSUME TypeInv, SysInv, CallInv, SweepsFindAll, [Next]_vars PROVE SweepsFindAll'
  <2> SUFFICES ASSUME ~raced' PROVE AtOnce!ShownIsReserved'
    BY DEF SweepsFindAll
  <2>1. CASE UNCHANGED AtOnce!vars /\ AtOnce!ShownIsReserved
    BY <2>1 DEF AtOnce!vars, AtOnce!ShownIsReserved, AtOnce!Ours
  <2>2. CASE AtOnce!Next /\ AtOnce!ShownIsReserved
    BY <1>3, <2>2, ManagerMarks, SlotsTyped
  <2>3. ~raced \/ Restart
    <3>1. ASSUME NEW t \in Tasks, TaskCalls(t) PROVE ~raced
      BY <1>3, <3>1, NextType, Alone DEF TypeInv, TypeOK, ManagerOK, CallType, Ghosts
    <3> QED
      BY <1>3, <3>1, NextCalls DEF CallStep, Silent, Lines, ReserveSys, ghosts
  <2>4. CASE ~raced
    BY <1>3, <2>1, <2>2, <2>4, NextUses DEF SweepsFindAll
  <2>5. CASE Restart
    <3>1. \A k \in Kinds, m \in Nums : board'[k][InternalIdToHwId(m)] \in {Blank, Foreign}
      BY <2>5, SlotType, SameNumbers DEF Restart, Mgr!Restart
    <3> QED
      BY <3>1, SameAtOnce, FirmwareAssumption DEF AtOnce!ShownIsReserved, AtOnce!Ours
  <2> QED
    BY <2>3, <2>4, <2>5
<1> QED
  BY <1>1, <1>2, <1>3, PTL DEF Spec

(***************************************************************************)
(* Each step of the firmware is a method of the manager as if it took a    *)
(* single step, a restart, a line past the manager or nothing, until two   *)
(* calls have been under way at once.                                      *)
(***************************************************************************)
THEOREM UsesManagerAlways == Spec => UsesManager
<1>1. Init => TypeInv /\ SysInv /\ CallInv
  BY InitType, InitCalls
<1>2. TypeInv /\ SysInv /\ CallInv /\ [Next]_vars => (TypeInv /\ SysInv /\ CallInv)'
  BY NextType, NextSys, NextCallInv
<1>3. TypeInv /\ SysInv /\ CallInv /\ [Next]_vars
        => [raced' \/ UNCHANGED AtOnce!vars \/ AtOnce!Next]_vars
  BY NextUses
<1> QED
  BY <1>1, <1>2, <1>3, PTL DEF Spec, UsesManager

(***************************************************************************)
(* So a firmware whose calls never overlap implements the manager's        *)
(* specification, and what holds of that one (slots that are granted,      *)
(* shown and withdrawn) holds of the application.                          *)
(***************************************************************************)
THEOREM ManagerRefined == Spec /\ []~raced => AtOnce!Spec
<1>1. Init => TypeInv /\ SysInv /\ CallInv
  BY InitType, InitCalls
<1>2. TypeInv /\ SysInv /\ CallInv /\ [Next]_vars => (TypeInv /\ SysInv /\ CallInv)'
  BY NextType, NextSys, NextCallInv
<1>3. Init => AtOnce!Init
  <2> SUFFICES ASSUME Init PROVE AtOnce!Init
    OBVIOUS
  <2>1. \A t \in Tasks : call[t].at \notin {"reset", "again"}
    BY DEF Init, NoCall
  <2>2. Settled = [k \in Kinds |-> {}]
    BY <2>1, SettledNone DEF Init, Settled, SettledOf
  <2> QED
    BY <2>2, SameAtOnce DEF Init, AtOnce!Init
<1>4. TypeInv /\ SysInv /\ CallInv /\ [Next]_vars /\ (~raced)' => [AtOnce!Next]_(AtOnce!vars)
  BY NextUses
<1> QED
  BY <1>1, <1>2, <1>3, <1>4, PTL DEF Spec, AtOnce!Spec

-------------------------------------------------------------------------------
(***************************************************************************)
(* Sharing.  No two owners of NORMAL messages hold the same one: why,      *)
(* although a view that hides its message keeps a number that counts as    *)
(* free.                                                                   *)
(*                                                                         *)
(* setup constructs TimeView last, so its number lies below those of the   *)
(* other views, and it never gives it back.  reserve hands out the number  *)
(* just below the lowest one in use, and so below the time's, where no     *)
(* number is ever hidden: everything else there has its bit set.  It finds *)
(* the number in one access and marks it in another; nobody else is in the *)
(* manager then, so all that is held has its bit set.                      *)
(***************************************************************************)

\* What a task may be holding besides the views' numbers.
Rest == MailIds \cup {"newyear"}

\* The places of loop() that come after TimeView::update.
AfterTimePc == {"yearFind", "yearSet", "yearDraw", "yearRemove", "foo", "weather", "wotd"}

\* The numbers whose bit hide has reset and remove is to reset again.
Leaving == {call[t].num : t \in {u \in Tasks : call[u].at = "again"}}

\* All that is held besides the views' numbers has its bit set, or is being given back.
RestTaken == \A o \in Rest : Holds(o) \subseteq Lst \cup Leaving

\* The time's number has its bit set, once it is there.
TimeTaken == num["time"] \in Nums => num["time"] \in Lst

\* The other views' numbers lie above it, and before that have their bits set.
ViewsAbove ==
    \A v \in Views \ {"time"} : num[v] \in Nums =>
        IF num["time"] \in Nums THEN num["time"] < num[v] ELSE num[v] \in Lst

\* No number is held twice.
Apart == \A o, p \in Owners : o # p => Holds(o) \cap Holds(p) = {}

Holdings == RestTaken /\ TimeTaken /\ ViewsAbove /\ Apart

\* TimeView is constructed last.
TimeIsLast == built < Len(Order) => num["time"] \notin Nums

\* loop() draws the time before anything else, and a number of -1 aborts there.
TimeFirst ==
    /\ pc["main"] \in AfterTimePc => num["time"] \in Nums
    /\ ~timeDue /\ pc["main"] \notin {"timeDay", "timeYear", "aborted"} => num["time"] \in Nums

\* A greeting is only put up if there is none, and only removed if there is one.
Greeting ==
    /\ pc["main"] \in {"yearFind", "yearSet"} => num["newyear"] = 0
    /\ pc["main"] = "yearRemove" => num["newyear"] # 0

\* The call of the main task is one that its place makes, with the number it has there.
LinkedMain ==
    LET c == call["main"]
        p == pc["main"] IN
    InCall("main") =>
        \/ p = "aborted"
        \/ p \in {"buildSet", "yearSet"} /\ c.at = "mark"
        \/ /\ c.kind = "NORMAL"
           /\ \/ p \in {"timeDay", "timeYear"} /\ c.at = "draw" /\ c.num = num["time"]
              \/ p = "yearDraw" /\ c.at = "draw" /\ c.num = num["newyear"]
              \/ p = "yearRemove" /\ c.at \in {"reset", "again"} /\ c.num = num["newyear"]
              \/ p \in Views \ {"time"} /\ c.at = "draw" /\ c.num = num[p]
              \/ p \in Hides /\ c.at = "reset" /\ c.num = num[p]

MainAt == TimeIsLast /\ TimeFirst /\ Greeting /\ LinkedMain

\* An account announced a mail, or is about it; no two have the same.
Deals(a, i) == i \in known[a] \/ (pc[a] \notin {"off", "idle"} /\ local[a].id = i)

Lone == \A a, b \in Accounts, i \in MailIds : a # b => ~(Deals(a, i) /\ Deals(b, i))

\* What mail_map has for the mail that mail_cb is about.
Callback(a) ==
    LET mapped == mailMap[local[a].id] IN
    /\ pc[a] = "mailSet" => mapped = Unmapped
    /\ pc[a] \in {"test", "draw"} => mapped \in {Unmapped, local[a].num}
    /\ pc[a] \in {"testGone", "erase"} => mapped = local[a].num

\* The call of an account's task is one that its place makes.
LinkedMail(a) ==
    InCall(a) =>
        \/ pc["main"] = "aborted" /\ pc[a] = "off"
        \/ pc[a] = "mailSet" /\ call[a].at = "mark"
        \/ /\ call[a].kind = "NORMAL" /\ call[a].num = local[a].num
           /\ \/ pc[a] = "draw" /\ call[a].at = "draw"
              \/ pc[a] = "erase" /\ call[a].at \in {"reset", "again"}

MailAt(a) == Callback(a) /\ LinkedMail(a)

MailsAt == Lone /\ \A a \in Accounts : MailAt(a)

\* The inductive invariant, until one of the exceptions is met.
SharingInv == Undisturbed => Holdings /\ MainAt /\ MailsAt

\* An owner is a view or one of Rest, never both.
LEMMA OwnersSplit ==
    /\ Owners = Views \cup Rest
    /\ Views \cap Rest = {}
    /\ "time" \in Views /\ "newyear" \in Rest /\ "newyear" \notin MailIds
    /\ \A v \in Views : v \notin MailIds
  BY FirmwareAssumption DEF Owners, Rest, Views

\* What a view holds, before and after a step.
LEMMA ViewHolds ==
    /\ \A v \in Views : Holds(v) = Nums \cap {num[v]}
    /\ \A v \in Views : Holds(v)' = Nums \cap {num'[v]}
  BY OwnersSplit DEF Holds, Views

\* What the New Year's greeting holds.
LEMMA YearHolds ==
    /\ Holds("newyear") = Nums \cap ({num["newyear"]} \ {0})
    /\ Holds("newyear")' = Nums \cap ({num'["newyear"]} \ {0})
  BY OwnersSplit DEF Holds

\* What a mail holds.
LEMMA MailHolds ==
    ASSUME NEW i \in MailIds, NEW n
    PROVE  /\ n \in Holds(i) <=>
                /\ n \in Nums
                /\ \/ n = mailMap[i]
                   \/ \E b \in Accounts : InCallback(b, i) /\ n = local[b].num
           /\ n \in Holds(i)' <=>
                /\ n \in Nums
                /\ \/ n = mailMap'[i]
                   \/ \E b \in Accounts : InCallback(b, i)' /\ n = local'[b].num
<1>1. n \in Holds(i) <=>
                /\ n \in Nums
                /\ \/ n = mailMap[i]
                   \/ \E b \in Accounts : InCallback(b, i) /\ n = local[b].num
  BY DEF Holds
<1>2. n \in Holds(i)' <=>
                /\ n \in Nums
                /\ \/ n = mailMap'[i]
                   \/ \E b \in Accounts : InCallback(b, i)' /\ n = local'[b].num
  BY DEF Holds
<1> QED
  BY <1>1, <1>2

\* The next free number is an integer.
LEMMA FreeIsInt == ASSUME TypeOK PROVE Free \in Int
<1>1. NoNum \in Int /\ \A n \in Nums : n \in Int
  BY NumbersAreInts
<1> QED
  BY <1>1, FreeType

\* It lies below every number anyone holds, hidden ones included, if none is being given back ...
LEMMA BelowAll ==
    ASSUME TypeOK, Holdings, Leaving = {}, NEW o \in Owners, NEW n \in Holds(o)
    PROVE  Free < n
<1>1. Lst \subseteq Nums
  BY NormalIsKind, SameNumbers DEF TypeOK, Mgr!TypeOK, Lst
<1>2. Free \in Int /\ \A m \in Lst : m \in Int /\ Free < m
  <2>1. \A m \in Lst : Free < m
    BY <1>1, FindNextFreeFacts DEF Free, Lst
  <2>2. \A m \in Lst : m \in Int
    BY <1>1, NumbersAreInts
  <2> QED
    BY <2>1, <2>2, FreeIsInt
<1>3. CASE o \in Rest
  BY <1>2, <1>3 DEF Holdings, RestTaken
<1>4. CASE o \in Views
  <2>1. n = num[o] /\ n \in Nums /\ n \in Int
    BY <1>4, ViewHolds, NumbersAreInts
  <2>2. CASE o = "time"
    BY <1>2, <2>1, <2>2 DEF Holdings, TimeTaken
  <2>3. CASE o # "time" /\ num["time"] \in Nums
    <3>1. num["time"] \in Lst /\ num["time"] < n
      BY <1>4, <2>1, <2>3 DEF Holdings, TimeTaken, ViewsAbove
    <3> QED
      BY <1>2, <2>1, <3>1
  <2>4. CASE o # "time" /\ num["time"] \notin Nums
    BY <1>2, <1>4, <2>1, <2>4 DEF Holdings, ViewsAbove
  <2> QED
    BY <2>2, <2>3, <2>4
<1> QED
  BY <1>3, <1>4, OwnersSplit

\* ... so nobody holds it.
LEMMA FreeIsNew ==
    ASSUME TypeOK, Holdings, Leaving = {}
    PROVE  \A o \in Owners : Free \notin Holds(o)
<1>1. ~(Free < Free)
  BY FreeIsInt
<1> QED
  BY <1>1, BelowAll

\* No bit is reset, and what is being given back still is.
Steady == Lst \subseteq Lst' /\ Leaving \subseteq Leaving'

\* The numbers of views and greeting stay.
NumsStay == \A o \in Views \cup {"newyear"} : num'[o] = num[o]

\* Who holds no more than before, with a list that is no smaller, shares nothing.
LEMMA KeepsApart ==
    ASSUME Holdings, Steady,
           \A v \in Views : num'[v] = num[v],
           \A o \in Rest : Holds(o)' \subseteq Holds(o)
    PROVE  Holdings'
<1>1. RestTaken' /\ TimeTaken' /\ ViewsAbove'
  BY OwnersSplit DEF Holdings, RestTaken, TimeTaken, ViewsAbove, Steady
<1>2. \A o \in Owners : Holds(o)' \subseteq Holds(o)
  BY OwnersSplit, ViewHolds
<1>3. Apart'
  BY <1>2 DEF Apart, Holdings
<1> QED
  BY <1>1, <1>3 DEF Holdings

\* Nor does resetting a bit, if no view but a hidden one holds the number.
LEMMA ResetsApart ==
    ASSUME Holdings, NEW n, Lst' = Lst \ {n}, Leaving \subseteq {n},
           \A v \in Views : num'[v] = num[v],
           \A o \in Rest : Holds(o)' \subseteq Holds(o),
           n \in Leaving' \/ \A o \in Rest : n \notin Holds(o)',
           \/ num["time"] \in Nums /\ num["time"] # n
           \/ \A v \in Views : n \notin Holds(v)
    PROVE  Holdings'
<1>1. RestTaken'
  BY DEF Holdings, RestTaken
<1>2. TimeTaken' /\ ViewsAbove'
  BY OwnersSplit, ViewHolds DEF Holdings, TimeTaken, ViewsAbove
<1>3. \A o \in Owners : Holds(o)' \subseteq Holds(o)
  BY OwnersSplit, ViewHolds
<1>4. Apart'
  BY <1>3 DEF Apart, Holdings
<1> QED
  BY <1>1, <1>2, <1>4 DEF Holdings

\* Nor does giving the next free number to a mail or the greeting ...
LEMMA GrantsApart ==
    ASSUME TypeOK, Holdings, Leaving = {},
           NEW r \in Rest, Free \in Nums, Lst' = Lst \cup {Free},
           \A v \in Views : num'[v] = num[v],
           \A o \in Rest \ {r} : Holds(o)' \subseteq Holds(o),
           Holds(r)' \subseteq Holds(r) \cup {Free}
    PROVE  Holdings'
<1>1. RestTaken' /\ TimeTaken' /\ ViewsAbove'
  BY OwnersSplit DEF Holdings, RestTaken, TimeTaken, ViewsAbove
<1>2. \A o \in Owners \ {r} : Holds(o)' \subseteq Holds(o)
  BY OwnersSplit, ViewHolds
<1>3. \A o \in Owners : Free \notin Holds(o)
  BY FreeIsNew
<1>4. Apart'
  BY <1>2, <1>3 DEF Apart, Holdings
<1> QED
  BY <1>1, <1>4 DEF Holdings

\* ... or to a view, while TimeView has not been constructed.
LEMMA BuildsApart ==
    ASSUME TypeOK, Holdings, NEW w \in Views,
           num["time"] \notin Nums, Steady,
           \A v \in Views \ {w} : num'[v] = num[v],
           num'[w] \in Nums => num'[w] = Free /\ Free \in Lst' /\ Leaving = {},
           \A o \in Rest : Holds(o)' \subseteq Holds(o)
    PROVE  Holdings'
<1>1. RestTaken' /\ TimeTaken'
  BY OwnersSplit DEF Holdings, RestTaken, TimeTaken, Steady
<1>2. ViewsAbove'
  <2> SUFFICES ASSUME NEW v \in Views \ {"time"}, num'[v] \in Nums
               PROVE  IF num'["time"] \in Nums THEN num'["time"] < num'[v] ELSE num'[v] \in Lst'
    BY DEF ViewsAbove
  <2>1. CASE w = "time"
    <3>1. num'[v] = num[v] /\ num[v] \in Holds(v) /\ v \in Owners
      BY <2>1, ViewHolds, OwnersSplit
    <3>2. num'["time"] \in Nums => num'["time"] = Free /\ Free < num[v]
      BY <2>1, <3>1, BelowAll
    <3>3. num[v] \in Lst
      BY <3>1 DEF Holdings, ViewsAbove
    <3> QED
      BY <3>1, <3>2, <3>3 DEF Steady
  <2>2. CASE w # "time"
    BY <2>2, OwnersSplit DEF Holdings, ViewsAbove, Steady
  <2> QED
    BY <2>1, <2>2
<1>3. \A o \in Owners \ {w} : Holds(o)' \subseteq Holds(o)
  BY OwnersSplit, ViewHolds
<1>4. Holds(w)' = {} \/ (Holds(w)' \subseteq {Free} /\ \A o \in Owners : Free \notin Holds(o))
  BY FreeIsNew, ViewHolds
<1>5. Apart'
  BY <1>3, <1>4 DEF Apart, Holdings
<1> QED
  BY <1>1, <1>2, <1>5 DEF Holdings

\* Where the tasks are after a step of one that goes on at s, stays or aborts.
LEMMA Moves ==
    ASSUME PcOK, NEW t \in Tasks, NEW s, Goto(t, s) \/ Abort \/ UNCHANGED pc
    PROVE  \/ pc'["main"] = "aborted" /\ \A u \in Tasks \ {"main"} : pc'[u] = "off"
           \/ pc'[t] \in {s, pc[t]} /\ \A u \in Tasks \ {t} : pc'[u] = pc[u]
  BY NamesAreTasks DEF PcOK, Goto, Abort, Names

\* A step that touches neither lists nor calls.
LEMMA SilentSteady == UNCHANGED <<reserved, call>> => Steady
  BY DEF Steady, Lst, Leaving

\* The steps of a call in which no bit is reset.
Draws(t) ==
    \/ Find(t) \/ MarkReserved(t)
    \/ \E k \in Kinds, n \in Nums : Tests(t, k, n) \/ EraseSlot(t, k, n)
    \/ \E o \in Contents : DrawsAs(t, o)

Resets(t) == ResetOnce(t) \/ ResetLast(t, "reset") \/ ResetLast(t, "again")

\* Such a step is one of a call that is under way, which changes.
LEMMA ResetCalls ==
    ASSUME ManagerOK, NEW t \in Tasks, Resets(t)
    PROVE  /\ InCall(t) /\ call' # call
           /\ \A k, n : ~EraseSlot(t, k, n)
           /\ \A n : ~Throws(n)
<1>1. InCall(t) /\ call[t].at # call'[t].at
  BY DEF Resets, ResetOnce, ResetLast, Leaves, NoCall, InCall, ManagerOK, CallType
<1> QED
  BY <1>1 DEF EraseSlot, Enter, Throws

\* No bit is reset in the other steps, and nobody else is in the manager.
LEMMA DrawsSteady ==
    ASSUME ManagerOK, CallInv, ~raced', NEW t \in Tasks, Draws(t)
    PROVE  /\ Steady /\ Leaving = {} /\ ~raced
           /\ \A u \in Tasks \ {t} : call[u].at = "out" /\ call'[u] = call[u]
<1>1. /\ ~raced /\ InSync(t)
      /\ \A u \in Tasks \ {t} : call[u].at = "out" /\ call'[u] = call[u]
  BY Alone DEF Draws, TaskCalls
<1>2. call[t].at # "again"
  BY DEF Draws, Find, Enter, InCall, MarkReserved, Tests, EraseSlot, DrawsAs, Overlaps
<1>3. Leaving = {}
  BY <1>1, <1>2 DEF Leaving
<1>4. reserved \in [Kinds -> SUBSET Nums] /\ "NORMAL" \in Kinds
  BY NormalIsKind, SameNumbers DEF ManagerOK, Mgr!TypeOK
<1>5. Lst \subseteq Lst'
  <2>1. CASE reserved' = reserved
    BY <2>1 DEF Lst
  <2>2. CASE MarkReserved(t)
    <3>1. reserved' = [reserved EXCEPT !["NORMAL"] = @ \cup {Free}]
      BY <1>1, <2>2, MarkDoes
    <3> QED
      BY <1>4, <3>1 DEF Lst
  <2>3. ASSUME NEW o \in Contents, DrawsAs(t, o) PROVE Lst \subseteq Lst'
    <3>1. /\ reserved' = [reserved EXCEPT ![call[t].kind] = @ \cup {call[t].num}]
          /\ call[t].kind \in Kinds
      BY <1>1, <2>3, DrawDoes
    <3> QED
      BY <1>4, <3>1 DEF Lst
  <2> QED
    BY <2>1, <2>2, <2>3 DEF Draws, Find, Tests, EraseSlot, managerVars
<1> QED
  BY <1>1, <1>3, <1>5 DEF Steady

\* The steps of a call in which a bit is reset.
LEMMA ResetsLists ==
    ASSUME ManagerOK, CallInv, ~raced', NEW t \in Tasks, Resets(t), call[t].kind = "NORMAL"
    PROVE  /\ Lst' = Lst \ {call[t].num} /\ Leaving \subseteq {call[t].num}
           /\ call[t].num \in Nums /\ ~raced /\ board' = board
           /\ \A u \in Tasks \ {t} : call[u].at = "out" /\ call'[u] = call[u]
           /\ ResetOnce(t) => /\ call[t].num \in Leaving'
                              /\ call'[t] = [call[t] EXCEPT !.at = "again"]
           /\ ~ResetOnce(t) => call'[t] = NoCall
<1>1. /\ ~raced /\ InSync(t)
      /\ \A u \in Tasks \ {t} : call[u].at = "out" /\ call'[u] = call[u]
  BY Alone DEF Resets, TaskCalls
<1>2. /\ call[t].num \in Nums
      /\ reserved' = [reserved EXCEPT ![call[t].kind] = @ \ {call[t].num}]
      /\ board' = board
      /\ \/ ResetOnce(t) /\ call'[t] = [call[t] EXCEPT !.at = "again"]
         \/ call'[t] = NoCall
  BY <1>1, ResetDoes DEF Resets
<1>3. reserved \in [Kinds -> SUBSET Nums] /\ "NORMAL" \in Kinds /\ call \in CallType
  BY NormalIsKind, SameNumbers DEF ManagerOK, Mgr!TypeOK
<1>4. Lst' = Lst \ {call[t].num}
  BY <1>2, <1>3 DEF Lst
<1>5. Leaving \subseteq {call[t].num}
  BY <1>1 DEF Leaving
<1>6. ASSUME ResetOnce(t)
      PROVE  call'[t] = [call[t] EXCEPT !.at = "again"] /\ call[t].num \in Leaving'
  <2>1. call'[t] = [call[t] EXCEPT !.at = "again"]
    BY <1>3, <1>6 DEF ResetOnce, CallType
  <2>2. call'[t].at = "again" /\ call'[t].num = call[t].num
    BY <1>3, <2>1 DEF CallType
  <2> QED
    BY <2>1, <2>2 DEF Leaving
<1>7. ~ResetOnce(t) => call'[t] = NoCall
  BY <1>2
<1> QED
  BY <1>1, <1>2, <1>4, <1>5, <1>6, <1>7

\* update, step by step.
LEMMA ShowSteps ==
    ASSUME TypeInv, CallInv, ~raced', NEW t \in Tasks, NEW k \in Kinds, NEW o \in Contents,
           NEW n, NEW s, Show(t, k, o, n, s)
    PROVE  /\ Steady /\ ~raced
           /\ \A u \in Tasks \ {t} : call'[u] = call[u]
           /\ \/ /\ UNCHANGED <<pc, board>> /\ ~InCall(t) /\ n \in Nums
                 /\ call'[t].at = "draw" /\ call'[t].kind = k /\ call'[t].num = n
              \/ /\ Goto(t, s) /\ call[t].at = "draw" /\ call'[t] = NoCall
                 /\ call[t].num \in Nums /\ DrawsAs(t, o)
              \/ Abort /\ UNCHANGED <<call, board>> /\ n \notin Nums
<1>1. ManagerOK /\ call \in CallType
  BY TypeParts DEF ManagerOK
<1>2. CASE TestBit(t, k, n)
  <2>1. n \in Nums /\ Tests(t, k, n) /\ UNCHANGED <<pc, board>>
    BY <1>2 DEF TestBit, Tests, managerVars
  <2>2. Steady /\ ~raced /\ \A u \in Tasks \ {t} : call'[u] = call[u]
    BY <1>1, <2>1, DrawsSteady DEF Draws
  <2>3. ~InCall(t) /\ call'[t].at = "draw" /\ call'[t].kind = k /\ call'[t].num = n
    BY <1>1, <2>1 DEF Tests, Enter, CallType
  <2> QED
    BY <2>1, <2>2, <2>3
<1>3. CASE Throws(n)
  <2>1. UNCHANGED <<reserved, call, board, raced>> /\ Abort /\ n \notin Nums
    BY <1>3 DEF Throws, managerVars
  <2> QED
    BY <2>1, SilentSteady
<1>4. CASE ~TestBit(t, k, n) /\ ~Throws(n)
  <2>1. DrawsAs(t, o) /\ Goto(t, s)
    BY <1>4 DEF Show, DrawsAs
  <2>2. Steady /\ ~raced /\ \A u \in Tasks \ {t} : call'[u] = call[u]
    BY <1>1, <2>1, DrawsSteady DEF Draws
  <2>3. call[t].at = "draw" /\ call'[t] = NoCall /\ call[t].num \in Nums
    BY <1>1, <2>1 DEF DrawsAs, Leaves, CallType, ManagerOK, CallsNumbered, InCall
  <2> QED
    BY <2>1, <2>2, <2>3
<1> QED
  BY <1>2, <1>3, <1>4

\* hide and remove, up to their resets.
LEMMA EraseSteps ==
    ASSUME TypeInv, CallInv, ~raced', NEW t \in Tasks, NEW n, NEW s,
           Hide(t, n, s) \/ Remove(t, n, s), ~Resets(t)
    PROVE  /\ Steady /\ ~raced
           /\ \A u \in Tasks \ {t} : call'[u] = call[u]
           /\ \/ /\ UNCHANGED pc /\ ~InCall(t) /\ n \in Nums
                 /\ EraseSlot(t, "NORMAL", n)
                 /\ call'[t].at = "reset" /\ call'[t].kind = "NORMAL" /\ call'[t].num = n
              \/ Abort /\ UNCHANGED <<call, board>> /\ n \notin Nums
<1>1. ManagerOK /\ call \in CallType
  BY TypeParts DEF ManagerOK
<1>2. EraseSlot(t, "NORMAL", n) \/ Throws(n)
  BY DEF Hide, Remove, Resets
<1>3. CASE EraseSlot(t, "NORMAL", n)
  <2>1. n \in Nums /\ UNCHANGED pc
    BY <1>3 DEF EraseSlot
  <2>2. Steady /\ ~raced /\ \A u \in Tasks \ {t} : call'[u] = call[u]
    BY <1>1, <1>3, <2>1, DrawsSteady, NormalIsKind DEF Draws
  <2>3. ~InCall(t) /\ call'[t].at = "reset" /\ call'[t].kind = "NORMAL" /\ call'[t].num = n
    BY <1>1, <1>3 DEF EraseSlot, Enter, CallType
  <2> QED
    BY <1>3, <2>1, <2>2, <2>3
<1>4. CASE Throws(n)
  <2>1. UNCHANGED <<reserved, call, board, raced>> /\ Abort /\ n \notin Nums
    BY <1>4 DEF Throws, managerVars
  <2> QED
    BY <2>1, SilentSteady
<1> QED
  BY <1>2, <1>3, <1>4

\* What a step of any task but an account's leaves alone ...
MailsStay ==
    /\ UNCHANGED <<mailMap, known, local>>
    /\ \A a \in Accounts : call'[a] = call[a]
    /\ \/ pc'["main"] = "aborted" /\ \A a \in Accounts : pc'[a] = "off"
       \/ /\ pc["main"] = "aborted" => pc'["main"] = "aborted"
          /\ \A a \in Accounts : pc'[a] = pc[a]

\* ... and one of any task but the main one.
MainStays ==
    /\ NumsStay /\ built' = built /\ (timeDue' = timeDue \/ timeDue')
    /\ call'["main"] = call["main"]
    /\ pc'["main"] \in {pc["main"], "aborted"}

\* The first keeps what is said of the mails,
LEMMA MailsKept ==
    ASSUME MailsStay
    PROVE  /\ MailsAt => MailsAt'
           /\ \A i \in MailIds : Holds(i)' \subseteq Holds(i)
<1>1. \A a \in Accounts : pc'[a] \in {pc[a], "off"}
  BY DEF MailsStay
<1>2. ASSUME MailsAt PROVE Lone'
  BY <1>1, <1>2 DEF MailsStay, MailsAt, Lone, Deals
<1>3. ASSUME MailsAt, NEW a \in Accounts PROVE MailAt(a)'
  BY <1>1, <1>3 DEF MailsStay, MailsAt, MailAt, Callback, LinkedMail, InCall
<1>4. \A i \in MailIds : Holds(i)' \subseteq Holds(i)
  BY <1>1, MailHolds DEF MailsStay, InCallback
<1> QED
  BY <1>2, <1>3, <1>4 DEF MailsAt

\* and with it all that is held, if no number changes.
LEMMA MailsKeepApart ==
    ASSUME Holdings, Steady, MailsStay, NumsStay
    PROVE  Holdings'
<1>1. Holds("newyear")' = Holds("newyear")
  BY YearHolds DEF NumsStay
<1>2. \A o \in Rest : Holds(o)' \subseteq Holds(o)
  BY <1>1, MailsKept DEF Rest
<1> QED
  BY <1>2, KeepsApart DEF NumsStay

\* The second keeps what is said of the main task.
LEMMA MainKept == ASSUME TypeInv, MainAt, MainStays PROVE MainAt'
<1>1. /\ num'["time"] = num["time"] /\ num'["newyear"] = num["newyear"]
      /\ \A v \in Views : num'[v] = num[v]
  BY OwnersSplit DEF MainStays, NumsStay
<1>2. TimeIsLast' /\ TimeFirst' /\ Greeting'
  BY <1>1 DEF MainStays, MainAt, TimeIsLast, TimeFirst, Greeting, AfterTimePc
<1>3. LinkedMain'
  BY <1>1 DEF MainStays, MainAt, LinkedMain, InCall, Hides, Views
<1> QED
  BY <1>2, <1>3 DEF MainAt

\* A step of the main task that goes on at s, stays or aborts leaves the mails alone.
LEMMA MainLeavesMails ==
    ASSUME TypeInv, NEW s, Goto("main", s) \/ Abort \/ UNCHANGED pc, pc["main"] # "aborted",
           UNCHANGED <<mailMap, known, local>>,
           \A u \in Tasks \ {"main"} : call'[u] = call[u]
    PROVE  MailsStay
<1>1. "main" \in Tasks /\ \A a \in Accounts : a \in Tasks \ {"main"}
  BY NamesAreTasks DEF Names
<1> QED
  BY <1>1, Moves, TypeParts DEF MailsStay

\* A message that the main task draws shares nothing.
LEMMA MainShows ==
    ASSUME TypeInv, CallInv, Holdings, MailsAt, ~raced', pc["main"] # "aborted",
           NEW o \in Contents, NEW n, NEW s, Show("main", "NORMAL", o, n, s),
           UNCHANGED <<mailMap, known, local>>, NumsStay
    PROVE  /\ Holdings' /\ MailsAt' /\ ~raced
           /\ \/ /\ UNCHANGED pc /\ call'["main"].at = "draw"
                 /\ call'["main"].kind = "NORMAL" /\ call'["main"].num = n
              \/ /\ pc'["main"] = s /\ call["main"].at = "draw" /\ call'["main"] = NoCall
                 /\ call["main"].num \in Nums
              \/ pc'["main"] = "aborted"
<1>1. /\ "main" \in Tasks /\ \A r : Goto("main", r) => pc'["main"] = r
  BY NamesAreTasks, TypeParts DEF Names, Goto, PcOK
<1>2. /\ Steady /\ ~raced
      /\ \A u \in Tasks \ {"main"} : call'[u] = call[u]
      /\ \/ /\ UNCHANGED pc /\ call'["main"].at = "draw"
            /\ call'["main"].kind = "NORMAL" /\ call'["main"].num = n
         \/ /\ Goto("main", s) /\ call["main"].at = "draw" /\ call'["main"] = NoCall
            /\ call["main"].num \in Nums
         \/ Abort
  BY <1>1, ShowSteps, NormalIsKind
<1>3. MailsStay
  BY <1>2, MainLeavesMails
<1> QED
  BY <1>1, <1>2, <1>3, MailsKeepApart, MailsKept, AbortPc

\* DrawTime shares nothing.
LEMMA DrawTimeShares ==
    ASSUME TypeInv, CallInv, Holdings, MainAt, MailsAt, ~raced', DrawTime
    PROVE  Holdings' /\ MainAt' /\ MailsAt' /\ ~raced
<1>1. /\ pc["main"] \in {"timeDay", "timeYear"} /\ "time" \in Contents
      /\ UNCHANGED <<num, mailMap, known, local, built, timeDue>>
  BY DEF DrawTime, timeVars, Contents, Views
<1>2. PICK s \in {"foo", "yearFind", "yearRemove"} :
        /\ Show("main", "NORMAL", "time", num["time"], s)
        /\ s = "yearFind" => num["newyear"] = 0
        /\ s = "yearRemove" => num["newyear"] # 0
  BY DEF DrawTime, Greeted
<1> DEFINE tested == /\ UNCHANGED pc /\ call'["main"].at = "draw"
                     /\ call'["main"].kind = "NORMAL" /\ call'["main"].num = num["time"]
           drawn == /\ pc'["main"] = s /\ call["main"].at = "draw" /\ call'["main"] = NoCall
                    /\ call["main"].num \in Nums
<1>3. /\ Holdings' /\ MailsAt' /\ ~raced
      /\ tested \/ drawn \/ pc'["main"] = "aborted"
  BY <1>1, <1>2, MainShows DEF NumsStay
<1>4. ASSUME tested PROVE MainAt'
  BY <1>1, <1>4
     DEF MainAt, TimeIsLast, TimeFirst, Greeting, LinkedMain, InCall, AfterTimePc
<1>5. ASSUME drawn PROVE MainAt'
  <2>1. num["time"] \in Nums
    BY <1>1, <1>5 DEF MainAt, LinkedMain, InCall, Views, Hides
  <2> QED
    BY <1>1, <1>2, <1>5, <2>1
       DEF MainAt, TimeIsLast, TimeFirst, Greeting, LinkedMain, InCall, NoCall
<1>6. ASSUME pc'["main"] = "aborted" PROVE MainAt'
  BY <1>1, <1>6 DEF MainAt, TimeIsLast, TimeFirst, Greeting, LinkedMain, AfterTimePc
<1> QED
  BY <1>3, <1>4, <1>5, <1>6

\* So does the greeting.
LEMMA YearDrawShares ==
    ASSUME TypeInv, CallInv, Holdings, MainAt, MailsAt, ~raced', YearDraw
    PROVE  Holdings' /\ MainAt' /\ MailsAt' /\ ~raced
<1>1. /\ pc["main"] = "yearDraw" /\ "newyear" \in Contents
      /\ UNCHANGED <<num, mailMap, known, local, built, timeDue>>
  BY DEF YearDraw, timeVars, Contents
<1> DEFINE tested == /\ UNCHANGED pc /\ call'["main"].at = "draw"
                     /\ call'["main"].kind = "NORMAL" /\ call'["main"].num = num["newyear"]
           drawn == /\ pc'["main"] = "foo" /\ call["main"].at = "draw" /\ call'["main"] = NoCall
                    /\ call["main"].num \in Nums
<1>2. /\ Holdings' /\ MailsAt' /\ ~raced
      /\ tested \/ drawn \/ pc'["main"] = "aborted"
  BY <1>1, MainShows DEF NumsStay, YearDraw
<1>3. ASSUME tested \/ drawn \/ pc'["main"] = "aborted" PROVE MainAt'
  BY <1>1, <1>3
     DEF MainAt, TimeIsLast, TimeFirst, Greeting, LinkedMain, InCall, NoCall, AfterTimePc
<1> QED
  BY <1>2, <1>3

\* So do the views; a view that hides its message keeps a number above the time's.
LEMMA UpdateViewShares ==
    ASSUME TypeInv, CallInv, Holdings, MainAt, MailsAt, ~raced',
           NEW v \in Views \ {"time"}, UpdateView(v)
    PROVE  Holdings' /\ MainAt' /\ MailsAt' /\ ~raced
<1>1. /\ pc["main"] = v /\ v \in Contents /\ v \in AfterTimePc /\ v \in Owners
      /\ UNCHANGED <<num, mailMap, known, local, built, timeDue>>
      /\ v \notin {"aborted", "timeDay", "timeYear", "yearFind", "yearSet", "yearRemove", "yearDraw",
                   "buildSet"}
      /\ AfterView(v) \in {"weather", "wotd", "loop"}
      /\ "main" \in Tasks
      /\ \A r : Goto("main", r) => pc'["main"] = r
  BY NamesAreTasks, TypeParts
     DEF UpdateView, timeVars, Contents, Views, Owners, AfterTimePc, AfterView, Names, Goto, PcOK
<1>2. num["time"] \in Nums /\ TimeIsLast'
  BY <1>1 DEF MainAt, TimeIsLast, TimeFirst
<1>3. ASSUME call'["main"] = NoCall \/ (call' = call /\ ~InCall("main")),
             pc'["main"] = AfterView(v) \/ pc'["main"] = "aborted"
      PROVE  MainAt'
  BY <1>1, <1>2, <1>3 DEF MainAt, TimeFirst, Greeting, LinkedMain, InCall, NoCall
<1>4. ASSUME pc'["main"] = "aborted" PROVE MainAt'
  BY <1>1, <1>2, <1>4 DEF MainAt, TimeFirst, Greeting, LinkedMain, AfterTimePc
<1>5. CASE ~InCall("main") /\ Goto("main", AfterView(v)) /\ UNCHANGED <<managerVars, call, raced>>
  <2>1. MailsStay /\ Steady /\ ~raced
    BY <1>1, <1>5, MainLeavesMails, SilentSteady DEF managerVars
  <2>2. MainAt'
    BY <1>1, <1>3, <1>5
  <2> QED
    BY <1>1, <2>1, <2>2, MailsKeepApart, MailsKept DEF NumsStay
<1>6. CASE Show("main", "NORMAL", v, num[v], AfterView(v))
  <2> DEFINE tested == /\ UNCHANGED pc /\ call'["main"].at = "draw"
                       /\ call'["main"].kind = "NORMAL" /\ call'["main"].num = num[v]
             drawn == /\ pc'["main"] = AfterView(v) /\ call'["main"] = NoCall
  <2>1. /\ Holdings' /\ MailsAt' /\ ~raced
        /\ tested \/ drawn \/ pc'["main"] = "aborted"
    BY <1>1, <1>6, MainShows DEF NumsStay
  <2>2. ASSUME tested PROVE MainAt'
    BY <1>1, <1>2, <2>2 DEF MainAt, TimeFirst, Greeting, LinkedMain, InCall
  <2> QED
    BY <1>3, <1>4, <2>1, <2>2
<1>7. CASE v \in Hides /\ Hide("main", num[v], AfterView(v)) /\ ~Resets("main")
  <2>1. /\ Steady /\ ~raced
        /\ \A u \in Tasks \ {"main"} : call'[u] = call[u]
        /\ \/ /\ UNCHANGED pc /\ call'["main"].at = "reset"
              /\ call'["main"].kind = "NORMAL" /\ call'["main"].num = num[v]
           \/ Abort
    BY <1>1, <1>7, EraseSteps
  <2>2. MailsStay
    BY <1>1, <2>1, MainLeavesMails
  <2>3. ASSUME UNCHANGED pc, call'["main"].at = "reset", call'["main"].kind = "NORMAL",
               call'["main"].num = num[v]
        PROVE  MainAt'
    BY <1>1, <1>2, <1>7, <2>3 DEF MainAt, TimeFirst, Greeting, LinkedMain, InCall
  <2>4. MainAt'
    BY <1>4, <2>1, <2>3, AbortPc
  <2> QED
    BY <1>1, <2>1, <2>2, <2>4, MailsKeepApart, MailsKept DEF NumsStay
<1>8. CASE v \in Hides /\ Hide("main", num[v], AfterView(v)) /\ Resets("main")
  <2>1. ResetLast("main", "reset") /\ Goto("main", AfterView(v))
    BY <1>1, <1>8, ResetCalls, TypeParts DEF Hide
  <2>2. call["main"].kind = "NORMAL" /\ call["main"].num = num[v]
    BY <1>1, <2>1 DEF MainAt, LinkedMain, InCall, ResetLast
  <2>3. /\ Lst' = Lst \ {num[v]} /\ Leaving \subseteq {num[v]} /\ num[v] \in Nums /\ ~raced
        /\ \A u \in Tasks \ {"main"} : call'[u] = call[u]
    BY <1>1, <1>8, <2>2, ResetsLists, TypeParts
  <2>4. call'["main"] = NoCall
    BY <1>1, <2>1, TypeParts DEF ResetLast, Leaves, ManagerOK, CallType
  <2>5. MailsStay
    BY <1>1, <2>1, <2>3, MainLeavesMails
  <2>6. \A o \in Owners \ {v} : num[v] \notin Holds(o)
    BY <1>1, <2>3, ViewHolds DEF Holdings, Apart
  <2>7. \A o \in Rest : Holds(o)' \subseteq Holds(o) /\ num[v] \notin Holds(o)
    <3>1. Holds("newyear")' = Holds("newyear")
      BY <1>1, YearHolds
    <3> QED
      BY <2>5, <2>6, <3>1, MailsKept, OwnersSplit DEF Rest
  <2>8. num["time"] # num[v]
    BY <1>1, <1>2, <2>6, ViewHolds, OwnersSplit
  <2>9. Holdings'
    <3> DEFINE n == num[v]
    <3>1. \A o \in Rest : n \notin Holds(o)'
      BY <2>7
    <3> HIDE DEF n
    <3>2. /\ Lst' = Lst \ {n} /\ Leaving \subseteq {n} /\ num["time"] # n
          /\ \A w \in Views : num'[w] = num[w]
      BY <1>1, <2>3, <2>8 DEF n
    <3> QED
      BY <1>2, <2>7, <3>1, <3>2, ResetsApart
  <2>10. MainAt'
    BY <1>1, <1>3, <2>1, <2>4
  <2> QED
    BY <2>3, <2>5, <2>9, <2>10, MailsKept
<1> QED
  BY <1>5, <1>6, <1>7, <1>8 DEF UpdateView

\* YearRemove gives the greeting's number back, and nobody shares it.
LEMMA YearRemoveShares ==
    ASSUME TypeInv, CallInv, Holdings, MainAt, MailsAt, ~raced', YearRemove
    PROVE  Holdings' /\ MainAt' /\ MailsAt' /\ ~raced
<1> DEFINE n == num["newyear"]
<1>1. /\ pc["main"] = "yearRemove" /\ "main" \in Tasks
      /\ UNCHANGED <<mailMap, known, local, built, timeDue>>
      /\ num' = IF pc'["main"] = "foo" THEN [num EXCEPT !["newyear"] = 0] ELSE num
      /\ num \in [Views \cup {"newyear", "ota"} -> MaybeNum]
      /\ Remove("main", n, "foo")
      /\ \A r : Goto("main", r) => pc'["main"] = r
  BY NamesAreTasks, TypeParts DEF YearRemove, timeVars, Names, DataOK, Goto, PcOK
<1>2. /\ \A v \in Views : num'[v] = num[v]
      /\ num'["newyear"] = IF pc'["main"] = "foo" THEN 0 ELSE n
  BY <1>1, OwnersSplit
<1>3. num["time"] \in Nums /\ n # 0
  BY <1>1 DEF MainAt, TimeFirst, Greeting, AfterTimePc
<1>4. Holds("newyear")' \subseteq Holds("newyear")
  BY <1>2, YearHolds
<1>5. ASSUME pc'["main"] \in {"yearRemove", "foo", "aborted"}, LinkedMain' PROVE MainAt'
  BY <1>1, <1>2, <1>3, <1>5, OwnersSplit DEF MainAt, TimeIsLast, TimeFirst, Greeting
<1>6. CASE ~Resets("main")
  <2>1. /\ Steady /\ ~raced
        /\ \A u \in Tasks \ {"main"} : call'[u] = call[u]
        /\ \/ /\ UNCHANGED pc /\ call'["main"].at = "reset"
              /\ call'["main"].kind = "NORMAL" /\ call'["main"].num = n
           \/ Abort
    BY <1>1, <1>6, EraseSteps
  <2>2. MailsStay
    BY <1>1, <2>1, MainLeavesMails
  <2>3. NumsStay
    BY <1>1, <1>2, <2>1, AbortPc DEF NumsStay
  <2>4. pc'["main"] \in {"yearRemove", "aborted"} /\ LinkedMain'
    BY <1>1, <1>2, <2>1, AbortPc DEF LinkedMain
  <2> QED
    BY <1>5, <2>1, <2>2, <2>3, <2>4, MailsKeepApart, MailsKept
<1>7. CASE Resets("main")
  <2>1. \/ ResetOnce("main")
        \/ ResetLast("main", "again") /\ Goto("main", "foo")
    BY <1>1, <1>7, ResetCalls, TypeParts DEF Remove
  <2>2. call["main"].kind = "NORMAL" /\ call["main"].num = n
    BY <1>1, <2>1 DEF MainAt, LinkedMain, InCall, ResetLast, ResetOnce, Views, Hides
  <2>3. /\ Lst' = Lst \ {n} /\ Leaving \subseteq {n} /\ n \in Nums /\ ~raced
        /\ \A u \in Tasks \ {"main"} : call'[u] = call[u]
        /\ ResetOnce("main") => n \in Leaving' /\ call'["main"] = [call["main"] EXCEPT !.at = "again"]
        /\ ~ResetOnce("main") => call'["main"] = NoCall
    BY <1>1, <1>7, <2>2, ResetsLists, TypeParts
  <2>4. MailsStay
    <3>1. Goto("main", "foo") \/ UNCHANGED pc
      BY <2>1 DEF ResetOnce
    <3> QED
      BY <1>1, <2>3, <3>1, MainLeavesMails
  <2>5. n \in Holds("newyear") /\ \A o \in Owners \ {"newyear"} : n \notin Holds(o)
    BY <1>3, <2>3, YearHolds, OwnersSplit DEF Holdings, Apart
  <2>6. num["time"] # n
    BY <1>3, <2>5, ViewHolds, OwnersSplit
  <2>7. \A o \in Rest : Holds(o)' \subseteq Holds(o)
    BY <1>4, <2>4, MailsKept DEF Rest
  <2>8. n \in Leaving' \/ \A o \in Rest : n \notin Holds(o)'
    <3>1. CASE ResetOnce("main")
      BY <2>3, <3>1
    <3>2. CASE ~ResetOnce("main")
      <4>1. num'["newyear"] = 0
        BY <1>1, <1>2, <2>1, <3>2
      <4>2. n \notin Holds("newyear")'
        BY <4>1, YearHolds
      <4>3. \A o \in Rest \ {"newyear"} : n \notin Holds(o)'
        BY <2>5, <2>7, OwnersSplit
      <4> QED
        BY <4>2, <4>3
    <3> QED
      BY <3>1, <3>2
  <2>9. Holdings'
    <3> HIDE DEF n
    <3> QED
      BY <1>2, <1>3, <2>3, <2>6, <2>7, <2>8, ResetsApart
  <2>10. MainAt'
    <3>1. CASE ResetOnce("main")
      <4>1. /\ UNCHANGED pc /\ call["main"].kind = "NORMAL" /\ call["main"].num = n
            /\ call'["main"].at = "again" /\ call'["main"].kind = "NORMAL" /\ call'["main"].num = n
        BY <1>1, <2>2, <2>3, <3>1, TypeParts DEF ResetOnce, ManagerOK, CallType
      <4>2. LinkedMain'
        BY <1>1, <1>2, <4>1 DEF LinkedMain
      <4> QED
        BY <1>1, <1>5, <4>1, <4>2
    <3>2. CASE ~ResetOnce("main")
      <4>1. pc'["main"] = "foo" /\ call'["main"] = NoCall
        BY <1>1, <2>1, <2>3, <3>2
      <4>2. LinkedMain'
        BY <4>1 DEF LinkedMain, InCall, NoCall
      <4> QED
        BY <1>5, <4>1, <4>2
    <3> QED
      BY <3>1, <3>2
  <2> QED
    BY <2>3, <2>4, <2>9, <2>10, MailsKept
<1> QED
  BY <1>6, <1>7

\* A step of the main task in which it looks for a number.
LEMMA MainFinds ==
    ASSUME TypeInv, CallInv, ~raced', Find("main"), pc["main"] # "aborted",
           NEW s, Goto("main", s) \/ UNCHANGED pc,
           UNCHANGED <<mailMap, known, local>>
    PROVE  /\ Steady /\ Leaving = {} /\ ~raced /\ MailsStay
           /\ Free < 0 => ~InCall("main") /\ call' = call /\ Free \notin Nums
           /\ ~(Free < 0) => call'["main"].at = "mark"
<1>1. "main" \in Tasks /\ ManagerOK /\ TypeOK
  BY NamesAreTasks, TypeParts DEF Names, TypeInv
<1>2. /\ Steady /\ Leaving = {} /\ ~raced
      /\ \A u \in Tasks \ {"main"} : call'[u] = call[u]
  BY <1>1, DrawsSteady DEF Draws
<1>3. MailsStay
  BY <1>2, MainLeavesMails
<1>4. Free < 0 => Free \notin Nums
  <2>1. Free \in Int /\ \A m \in Nums : m \in Int /\ m >= 0
    BY <1>1, FreeIsInt, NumbersAreInts
  <2> HIDE DEF Free
  <2> QED
    BY <2>1
<1>5. /\ Free < 0 => ~InCall("main") /\ call' = call
      /\ ~(Free < 0) => call'["main"].at = "mark"
  BY <1>1 DEF Find, Enter, ManagerOK, CallType
<1> QED
  BY <1>2, <1>3, <1>4, <1>5

\* A step of the main task in which it marks the number it has found.
LEMMA MainMarks ==
    ASSUME TypeInv, CallInv, ~raced', MarkReserved("main"), pc["main"] # "aborted",
           NEW s, Goto("main", s), UNCHANGED <<mailMap, known, local>>
    PROVE  /\ Steady /\ Leaving = {} /\ ~raced /\ MailsStay
           /\ Free \in Nums /\ call["main"].num = Free /\ Lst' = Lst \cup {Free}
           /\ call'["main"] = NoCall
<1>1. "main" \in Tasks /\ ManagerOK
  BY NamesAreTasks, TypeParts DEF Names
<1>2. /\ Steady /\ Leaving = {} /\ ~raced
      /\ \A u \in Tasks \ {"main"} : call'[u] = call[u]
  BY <1>1, DrawsSteady DEF Draws
<1>3. MailsStay
  BY <1>2, MainLeavesMails
<1>4. /\ Free \in Nums /\ call["main"].num = Free
      /\ reserved' = [reserved EXCEPT !["NORMAL"] = @ \cup {Free}]
  BY <1>1, <1>2, MarkDoes DEF CallInv
<1>5. Lst' = Lst \cup {Free}
  <2>1. reserved \in [Kinds -> SUBSET Nums] /\ "NORMAL" \in Kinds
    BY <1>1, NormalIsKind, SameNumbers DEF ManagerOK, Mgr!TypeOK
  <2> HIDE DEF Free
  <2> QED
    BY <1>4, <2>1 DEF Lst
<1>6. call'["main"] = NoCall
  BY <1>1 DEF MarkReserved, Leaves, ManagerOK, CallType
<1> QED
  BY <1>2, <1>3, <1>4, <1>5, <1>6

\* The greeting's number is new.
LEMMA YearFindShares ==
    ASSUME TypeInv, CallInv, Holdings, MainAt, MailsAt, ~raced', YearFind
    PROVE  Holdings' /\ MainAt' /\ MailsAt' /\ ~raced
<1>1. /\ pc["main"] = "yearFind" /\ Find("main")
      /\ UNCHANGED <<mailMap, known, local, built, timeDue>>
      /\ num \in [Views \cup {"newyear", "ota"} -> MaybeNum]
      /\ \A r : Goto("main", r) => pc'["main"] = r
      /\ Goto("main", "yearDraw") \/ Goto("main", "yearSet")
  BY NamesAreTasks, TypeParts DEF YearFind, timeVars, Names, DataOK, Goto, PcOK
<1>2. /\ Steady /\ Leaving = {} /\ ~raced /\ MailsStay
      /\ Free < 0 => ~InCall("main") /\ call' = call /\ Free \notin Nums
      /\ ~(Free < 0) => call'["main"].at = "mark"
  BY <1>1, MainFinds
<1>3. /\ num["time"] \in Nums /\ num["newyear"] = 0
      /\ \A v \in Views : num'[v] = num[v]
      /\ Free < 0 => num'["newyear"] = Free /\ pc'["main"] = "yearDraw"
      /\ ~(Free < 0) => num' = num /\ pc'["main"] = "yearSet"
  BY <1>1, OwnersSplit DEF YearFind, MainAt, TimeFirst, Greeting, AfterTimePc
<1>4. \A o \in Rest : Holds(o)' \subseteq Holds(o)
  <2>1. Holds("newyear")' \subseteq Holds("newyear")
    BY <1>2, <1>3, YearHolds
  <2> QED
    BY <1>2, <2>1, MailsKept DEF Rest
<1>5. Holdings'
  BY <1>2, <1>3, <1>4, KeepsApart
<1>6. MainAt'
  <2>1. TimeIsLast' /\ TimeFirst' /\ Greeting'
    BY <1>1, <1>3, OwnersSplit DEF MainAt, TimeIsLast, TimeFirst, Greeting, AfterTimePc
  <2>2. LinkedMain'
    BY <1>2, <1>3 DEF LinkedMain, InCall
  <2> QED
    BY <2>1, <2>2 DEF MainAt
<1> QED
  BY <1>2, <1>5, <1>6, MailsKept

LEMMA YearSetShares ==
    ASSUME TypeInv, CallInv, Holdings, MainAt, MailsAt, ~raced', YearSet
    PROVE  Holdings' /\ MainAt' /\ MailsAt' /\ ~raced
<1>1. /\ pc["main"] = "yearSet" /\ MarkReserved("main") /\ Goto("main", "yearDraw")
      /\ UNCHANGED <<mailMap, known, local, built, timeDue>>
      /\ num \in [Views \cup {"newyear", "ota"} -> MaybeNum]
      /\ pc'["main"] = "yearDraw" /\ TypeOK
  BY NamesAreTasks, TypeParts DEF YearSet, timeVars, Names, DataOK, Goto, PcOK, TypeInv
<1>2. /\ Steady /\ Leaving = {} /\ ~raced /\ MailsStay
      /\ Free \in Nums /\ call["main"].num = Free /\ Lst' = Lst \cup {Free}
      /\ call'["main"] = NoCall
  BY <1>1, MainMarks
<1>3. /\ num["time"] \in Nums
      /\ \A v \in Views : num'[v] = num[v]
      /\ num'["newyear"] = Free
  BY <1>1, <1>2, OwnersSplit DEF YearSet, MainAt, TimeFirst, AfterTimePc
<1>4. /\ \A o \in Rest \ {"newyear"} : Holds(o)' \subseteq Holds(o)
      /\ Holds("newyear")' \subseteq Holds("newyear") \cup {Free}
  BY <1>2, <1>3, MailsKept, YearHolds DEF Rest
<1>5. Holdings'
  <2> HIDE DEF Free
  <2> QED
    BY <1>1, <1>2, <1>3, <1>4, GrantsApart, OwnersSplit
<1>6. MainAt'
  BY <1>1, <1>2, <1>3, OwnersSplit
     DEF MainAt, TimeIsLast, TimeFirst, Greeting, LinkedMain, InCall, NoCall, AfterTimePc
<1> QED
  BY <1>2, <1>5, <1>6, MailsKept

\* So is that of a view under construction.
LEMMA BuildFindShares ==
    ASSUME TypeInv, CallInv, Holdings, MainAt, MailsAt, ~raced', BuildFind
    PROVE  Holdings' /\ MainAt' /\ MailsAt' /\ ~raced
<1> DEFINE w == Order[built + 1]
<1>1. /\ pc["main"] = "build" /\ built < Len(Order) /\ Find("main")
      /\ UNCHANGED <<mailMap, known, local, timeDue>>
      /\ num \in [Views \cup {"newyear", "ota"} -> MaybeNum]
      /\ Goto("main", "buildSet") \/ UNCHANGED pc
      /\ built \in 0 .. Len(Order) /\ TypeOK
  BY TypeParts DEF BuildFind, timeVars, DataOK, TypeInv
<1>2. /\ Steady /\ Leaving = {} /\ ~raced /\ MailsStay
      /\ Free < 0 => ~InCall("main") /\ call' = call /\ Free \notin Nums
      /\ ~(Free < 0) => call'["main"].at = "mark"
  BY <1>1, MainFinds
<1>3. /\ w \in Views /\ num["time"] \notin Nums
  BY <1>1, OrderFacts DEF MainAt, TimeIsLast
<1>4. timeDue
  BY <1>1, <1>3, TypeParts DEF MainAt, TimeFirst, DataOK
<1>5. CASE Free < 0
  <2>1. /\ num' = [num EXCEPT ![w] = Free] /\ built' = built + 1 /\ UNCHANGED pc
    BY <1>1, <1>5 DEF BuildFind
  <2> HIDE DEF w
  <2>2. /\ num'[w] = Free /\ num'["newyear"] = num["newyear"]
        /\ \A v \in Views \ {w} : num'[v] = num[v]
        /\ num'["time"] \notin Nums
    BY <1>1, <1>2, <1>3, <1>5, <2>1, OwnersSplit
  <2>3. \A o \in Rest : Holds(o)' \subseteq Holds(o)
    BY <1>2, <2>2, MailsKept, YearHolds DEF Rest
  <2>4. Holdings'
    BY <1>1, <1>2, <1>3, <1>5, <2>2, <2>3, BuildsApart
  <2>5. MainAt'
    BY <1>1, <1>2, <1>4, <1>5, <2>1, <2>2
       DEF MainAt, TimeIsLast, TimeFirst, Greeting, LinkedMain, InCall, AfterTimePc
  <2> QED
    BY <1>2, <2>4, <2>5, MailsKept
<1>6. CASE ~(Free < 0)
  <2>1. UNCHANGED <<num, built>> /\ Goto("main", "buildSet")
    BY <1>1, <1>6 DEF BuildFind
  <2>2. pc'["main"] = "buildSet"
    BY <2>1, NamesAreTasks, TypeParts DEF Goto, PcOK, Names
  <2>3. Holdings'
    BY <1>2, <2>1, MailsKeepApart DEF NumsStay
  <2>4. MainAt'
    BY <1>1, <1>2, <1>3, <1>4, <1>6, <2>1, <2>2
       DEF MainAt, TimeIsLast, TimeFirst, Greeting, LinkedMain, AfterTimePc
  <2> QED
    BY <1>2, <2>3, <2>4, MailsKept
<1> QED
  BY <1>5, <1>6

LEMMA BuildSetShares ==
    ASSUME TypeInv, CallInv, Holdings, MainAt, MailsAt, ~raced', BuildSet
    PROVE  Holdings' /\ MainAt' /\ MailsAt' /\ ~raced
<1> DEFINE w == Order[built + 1]
<1>1. /\ pc["main"] = "buildSet" /\ built < Len(Order) /\ MarkReserved("main")
      /\ UNCHANGED <<mailMap, known, local, timeDue>>
      /\ num \in [Views \cup {"newyear", "ota"} -> MaybeNum]
      /\ Goto("main", "build") /\ pc'["main"] = "build"
      /\ built \in 0 .. Len(Order) /\ built' = built + 1 /\ TypeOK
      /\ num' = [num EXCEPT ![w] = call["main"].num]
  BY TypeParts, NamesAreTasks DEF BuildSet, timeVars, DataOK, BuildOK, TypeInv, Goto, PcOK, Names
<1>2. /\ Steady /\ Leaving = {} /\ ~raced /\ MailsStay
      /\ Free \in Nums /\ call["main"].num = Free /\ Lst' = Lst \cup {Free}
      /\ call'["main"] = NoCall
  BY <1>1, MainMarks
<1>3. /\ w \in Views /\ num["time"] \notin Nums
      /\ built + 1 < Len(Order) => w # "time"
  <2>1. Len(Order) \in Nat /\ built \in Int
    BY <1>1, OrderFacts
  <2>2. /\ Order \in Seq(Views) /\ Order[Len(Order)] = "time"
        /\ \A i, j \in 1 .. Len(Order) : Order[i] = Order[j] => i = j
    BY FirmwareAssumption
  <2>3. built + 1 \in 1 .. Len(Order) /\ Len(Order) \in 1 .. Len(Order)
    BY <1>1, <2>1
  <2>4. built + 1 < Len(Order) => w # "time"
    BY <2>1, <2>2, <2>3
  <2> QED
    BY <1>1, <2>3, <2>4, OrderFacts DEF MainAt, TimeIsLast
<1>4. timeDue
  BY <1>1, <1>3, TypeParts DEF MainAt, TimeFirst, DataOK
<1> HIDE DEF w
<1>5. /\ num'[w] = Free /\ num'["newyear"] = num["newyear"]
      /\ \A v \in Views \ {w} : num'[v] = num[v]
  BY <1>1, <1>2, <1>3, OwnersSplit
<1>6. \A o \in Rest : Holds(o)' \subseteq Holds(o)
  BY <1>2, <1>5, MailsKept, YearHolds DEF Rest
<1>7. Holdings'
  <2>1. num'[w] = Free /\ Free \in Lst'
    <3> HIDE DEF Free
    <3> QED
      BY <1>2, <1>5
  <2> HIDE DEF Free
  <2> QED
    BY <1>1, <1>2, <1>3, <1>5, <1>6, <2>1, BuildsApart
<1>8. TimeIsLast'
  <2>1. built + 1 < Len(Order) => num'["time"] = num["time"]
    BY <1>3, <1>5, OwnersSplit
  <2> QED
    BY <1>1, <1>3, <2>1 DEF TimeIsLast
<1>9. MainAt'
  BY <1>1, <1>2, <1>4, <1>8
     DEF MainAt, TimeFirst, Greeting, LinkedMain, InCall, NoCall, AfterTimePc
<1> QED
  BY <1>2, <1>7, <1>9, MailsKept

\* A step of the main task that makes no call.
LEMMA SilentMainShares ==
    ASSUME TypeInv, Holdings, MainAt, MailsAt,
           StartOta \/ StartConsole \/ Ready \/ Loop \/ UpdateTime \/ WifiUp
           \/ (StartAccounts /\ Goto("main", "build"))
    PROVE  Holdings' /\ MainAt' /\ MailsAt'
<1>1. "main" \in Tasks /\ "ota" \in Tasks /\ "console" \in Tasks
      /\ \A a \in Accounts : a \in Tasks /\ a \notin {"main", "console", "ota"}
  BY NamesAreTasks DEF Names
<1>2. /\ pc \in [Tasks -> MainPc \cup ConsolePc \cup OtaPc \cup MailPc]
      /\ timeDue \in BOOLEAN
  BY TypeParts DEF PcOK, DataOK
<1>3. /\ UNCHANGED <<reserved, call, num, mailMap, known, local, built>>
      /\ pc["main"] \in {"wifi", "ota", "accounts", "build", "ready", "loop", "time"}
      /\ \A a \in Accounts : pc'[a] = pc[a]
  BY <1>1, <1>2
     DEF StartOta, StartConsole, Ready, Loop, UpdateTime, WifiUp, StartAccounts, Goto,
         managerVars, timeVars
<1>4. MailsStay /\ Steady
  BY <1>3, SilentSteady DEF MailsStay
<1>5. ~InCall("main")
  BY <1>3 DEF MainAt, LinkedMain, Views, Hides
<1>6. /\ pc'["main"] \notin {"yearFind", "yearSet", "yearRemove", "yearDraw"}
      /\ pc'["main"] \in AfterTimePc => pc["main"] = "time" /\ ~timeDue
      /\ ~timeDue' /\ pc'["main"] \notin {"timeDay", "timeYear"} => ~timeDue
  BY <1>1, <1>2, <1>3
     DEF StartOta, StartConsole, Ready, Loop, UpdateTime, WifiUp, StartAccounts, Goto,
         managerVars, timeVars, AfterTimePc
<1>7. MainAt'
  BY <1>3, <1>5, <1>6 DEF MainAt, TimeIsLast, TimeFirst, Greeting, LinkedMain, InCall
<1> QED
  BY <1>3, <1>4, <1>7, MailsKeepApart, MailsKept DEF NumsStay

\* An account's task begins.
LEMMA StartAccountShares ==
    ASSUME TypeInv, Holdings, MainAt, MailsAt, StartAccounts,
           NEW a \in Accounts, pc[a] = "off", Goto(a, "idle")
    PROVE  Holdings' /\ MainAt' /\ MailsAt'
<1>1. /\ UNCHANGED <<reserved, call, num, mailMap, known, local, built, timeDue>>
      /\ pc'[a] = "idle" /\ pc'["main"] = pc["main"] /\ pc["main"] = "accounts"
      /\ \A b \in Accounts \ {a} : pc'[b] = pc[b]
  BY NamesAreTasks, TypeParts DEF StartAccounts, managerVars, timeVars, Goto, PcOK, Names
<1>2. MainAt'
  BY <1>1, MainKept DEF MainStays, NumsStay
<1>3. ~InCall(a)
  BY <1>1 DEF MailsAt, MailAt, LinkedMail
<1>4. MailsAt'
  <2>1. Lone'
    BY <1>1 DEF MailsAt, Lone, Deals
  <2>2. ASSUME NEW b \in Accounts PROVE MailAt(b)'
    BY <1>1, <1>3 DEF MailsAt, MailAt, Callback, LinkedMail, InCall
  <2> QED
    BY <2>1, <2>2 DEF MailsAt
<1>5. \A o \in Rest : Holds(o)' \subseteq Holds(o)
  <2>1. Holds("newyear")' = Holds("newyear")
    BY <1>1, YearHolds
  <2>2. ASSUME NEW i \in MailIds PROVE Holds(i)' \subseteq Holds(i)
    BY <1>1, MailHolds DEF InCallback
  <2> QED
    BY <2>1, <2>2 DEF Rest
<1>6. Holdings'
  BY <1>1, <1>5, SilentSteady, KeepsApart
<1> QED
  BY <1>2, <1>4, <1>6

\* setup reserves the updater's message, of another kind.
LEMMA ReserveSysShares ==
    ASSUME TypeInv, SysInv, Holdings, MainAt, MailsAt, ReserveSys
    PROVE  Holdings' /\ MainAt' /\ MailsAt'
<1>1. /\ UNCHANGED <<call, mailMap, known, local, built, timeDue>>
      /\ pc["main"] = "sys" /\ pc'["main"] = "wifi"
      /\ \A a \in Accounts : pc'[a] = pc[a]
      /\ ~InCall("main")
  BY NamesAreTasks, TypeParts DEF ReserveSys, timeVars, SysInv, Goto, PcOK, Names
<1>2. NumsStay
  BY TypeParts DEF ReserveSys, NumsStay, DataOK, Views
<1>3. Steady
  <2>1. Lst' = Lst
    BY TypeParts, SameNumbers, NormalIsKind DEF ReserveSys, Mgr!Reserve, ManagerOK, Mgr!TypeOK, Lst
  <2> QED
    BY <1>1, <2>1 DEF Steady, Leaving
<1>4. MailsStay
  BY <1>1 DEF MailsStay
<1>5. MainAt'
  BY <1>1, <1>2, OwnersSplit
     DEF NumsStay, MainAt, TimeIsLast, TimeFirst, Greeting, LinkedMain, InCall, AfterTimePc
<1> QED
  BY <1>2, <1>3, <1>4, <1>5, MailsKeepApart, MailsKept

\* setup and loop().
LEMMA MainStepShares ==
    ASSUME TypeInv, SysInv, CallInv, Holdings, MainAt, MailsAt, ~raced', MainStep \/ WifiUp
    PROVE  Holdings' /\ MainAt' /\ MailsAt'
<1>1. CASE StartAccounts
  BY <1>1, StartAccountShares, SilentMainShares DEF StartAccounts
<1>2. CASE StartOta \/ StartConsole \/ Ready \/ Loop \/ UpdateTime \/ WifiUp
  BY <1>2, SilentMainShares
<1>3. CASE ReserveSys
  BY <1>3, ReserveSysShares
<1>4. CASE BuildFind \/ BuildSet
  BY <1>4, BuildFindShares, BuildSetShares
<1>5. CASE DrawTime \/ Year
  BY <1>5, DrawTimeShares, YearFindShares, YearSetShares, YearDrawShares, YearRemoveShares DEF Year
<1>6. ASSUME NEW v \in Views \ {"time"}, UpdateView(v) PROVE Holdings' /\ MainAt' /\ MailsAt'
  BY <1>6, UpdateViewShares
<1> QED
  BY <1>1, <1>2, <1>3, <1>4, <1>5, <1>6 DEF MainStep, Setup

\* A disturbance is never forgotten, other than by a restart.
LEMMA WasUndisturbed ==
    ASSUME TypeInv, CallInv, [Next]_vars, Undisturbed', ~Restart
    PROVE  Undisturbed /\ ~raced'
<1>1. ~raced'
  BY DEF Undisturbed
<1>2. ~raced
  <2>1. ASSUME NEW t \in Tasks, TaskCalls(t) PROVE ~raced
    BY <1>1, <2>1, Alone, TypeParts
  <2> QED
    BY <1>1, <2>1, NextCalls DEF CallStep, Silent, Lines, ReserveSys, ghosts
<1>3. (wiped => wiped') /\ (collided => collided')
  <2>1. CASE MainStep
    BY <2>1
       DEF MainStep, Setup, ReserveSys, StartOta, StartAccounts, BuildFind, BuildSet,
           StartConsole, Ready, Loop, UpdateTime, DrawTime, Year, YearFind, YearSet, YearDraw,
           YearRemove, UpdateView, ghosts
  <2>2. ASSUME NEW a \in Accounts, MailStep(a)
        PROVE  (wiped => wiped') /\ (collided => collided')
    BY <2>2 DEF MailStep, MailSet, MailTest, MailDraw, MailTestGone, MailErase, ghosts
  <2>3. CASE ConsoleStep \/ OtaStep
    BY <2>3 DEF ConsoleStep, OtaStep, SweepStep, SetState, Leave, OtaNotice, ghosts
  <2>4. CASE Environment
    <3>1. ASSUME NEW a \in Accounts, NEW i, Appear(a, i) \/ Disappear(a, i)
          PROVE  (wiped => wiped') /\ (collided => collided')
      <4>1. collided \in BOOLEAN
        BY TypeParts DEF ManagerOK, Ghosts
      <4>2. ASSUME Appear(a, i) PROVE (wiped => wiped') /\ (collided => collided')
        <5>1. wiped' = wiped /\ collided' = (collided \/ \E b \in Accounts \ {a} : Has(b, i))
          BY <4>2 DEF Appear
        <5> QED
          BY <4>1, <5>1
      <4>3. ASSUME Disappear(a, i) PROVE (wiped => wiped') /\ (collided => collided')
        BY <4>3 DEF Disappear, ghosts
      <4> QED
        BY <3>1, <4>2, <4>3
    <3>2. CASE WifiUp \/ Tick \/ ExclusiveOn \/ ExclusiveOff \/ ConsoleLine \/ AdminReset
               \/ OtaStart \/ OtaError
      BY <3>2 DEF WifiUp, Tick, ExclusiveOn, ExclusiveOff, ConsoleLine, AdminReset, OtaStart,
                  OtaError, ghosts
    <3>3. ~(ConsoleReboot \/ AdminReboot \/ OtaEnd)
      BY DEF ConsoleReboot, AdminReboot, OtaEnd
    <3> QED
      BY <2>4, <3>1, <3>2, <3>3 DEF Environment
  <2>5. CASE Panic \/ UNCHANGED vars
    BY <2>5 DEF Panic, vars
  <2> QED
    BY <2>1, <2>2, <2>3, <2>4, <2>5 DEF Next
<1> QED
  BY <1>1, <1>2, <1>3 DEF Undisturbed

\* The steps of the console, the updater and the environment that touch no number.
LEMMA OtherShares ==
    ASSUME TypeInv, CallInv, Holdings, MainAt, MailsAt, ~raced',
           \/ Tick \/ ConsoleLine \/ AdminReset \/ ExclusiveOn \/ ExclusiveOff \/ Leave
           \/ OtaStart \/ OtaError \/ OtaNotice \/ SetState("console") \/ SetState("ota")
           \/ UNCHANGED vars
    PROVE  Holdings' /\ MainAt' /\ MailsAt'
<1>1. /\ "console" \in Tasks \ {"main"} /\ "ota" \in Tasks \ {"main"} /\ "main" \in Tasks
      /\ \A a \in Accounts : a \in Tasks /\ a \notin {"main", "console", "ota"}
  BY NamesAreTasks DEF Names
<1>2. /\ UNCHANGED <<num, mailMap, known, local, built>>
      /\ timeDue' = timeDue \/ timeDue'
  BY DEF Tick, ConsoleLine, AdminReset, ExclusiveOn, ExclusiveOff, Leave, OtaStart, OtaError,
         OtaNotice, SetState, timeVars, vars
<1>3. CASE ~OtaNotice
  <2>1. UNCHANGED <<reserved, call>>
    BY <1>3 DEF Tick, ConsoleLine, AdminReset, ExclusiveOn, ExclusiveOff, Leave, OtaStart, OtaError,
                SetState, managerVars, vars
  <2>2. \A u \in Tasks : u = "main" \/ u \in Accounts => pc'[u] = pc[u]
    BY <1>1, <1>3
       DEF Tick, ConsoleLine, AdminReset, ExclusiveOn, ExclusiveOff, Leave, OtaStart, OtaError,
           SetState, Goto, vars, TypeInv, TypeOK
  <2>3. MailsStay /\ MainStays
    BY <1>1, <1>2, <2>1, <2>2 DEF MailsStay, MainStays, NumsStay
  <2> QED
    BY <2>1, <2>3, SilentSteady, MailsKeepApart, MailsKept, MainKept DEF MainStays
<1>4. CASE OtaNotice
  <2>1. Show("ota", "EMERGENCY", "ota", num["ota"], "set")
    BY <1>4 DEF OtaNotice
  <2>2. /\ Steady /\ \A u \in Tasks \ {"ota"} : call'[u] = call[u]
        /\ UNCHANGED pc \/ Goto("ota", "set") \/ Abort
    BY <1>1, <2>1, ShowSteps, NormalIsKind DEF Contents
  <2>3. \/ pc'["main"] = "aborted" /\ \A a \in Accounts : pc'[a] = "off"
        \/ \A u \in Tasks \ {"ota"} : pc'[u] = pc[u]
    BY <1>1, <2>2, Moves, TypeParts
  <2>4. MailsStay /\ MainStays
    BY <1>1, <1>2, <2>2, <2>3 DEF MailsStay, MainStays, NumsStay
  <2> QED
    BY <2>2, <2>4, MailsKeepApart, MailsKept, MainKept DEF MainStays
<1> QED
  BY <1>3, <1>4

\* What a step of account a's task leaves alone.
OneAccount(a) ==
    /\ \A b \in Accounts \ {a} : /\ local'[b] = local[b] /\ known'[b] = known[b]
                                 /\ call'[b] = call[b]
    /\ \/ pc'["main"] = "aborted" /\ \A b \in Accounts : pc'[b] = "off"
       \/ pc'["main"] = pc["main"] /\ \A b \in Accounts \ {a} : pc'[b] = pc[b]

LEMMA AccountLeaves ==
    ASSUME TypeInv, NEW a \in Accounts, NEW s, Goto(a, s) \/ Abort \/ UNCHANGED pc,
           UNCHANGED <<num, built, timeDue>>,
           \A u \in Tasks \ {a} : call'[u] = call[u],
           \A b \in Accounts \ {a} : local'[b] = local[b] /\ known'[b] = known[b]
    PROVE  MainStays /\ OneAccount(a)
<1>1. /\ a \in Tasks /\ "main" \in Tasks \ {a} /\ \A b \in Accounts : b \in Tasks \ {"main"}
  BY NamesAreTasks DEF Names
<1>2. \/ pc'["main"] = "aborted" /\ \A u \in Tasks \ {"main"} : pc'[u] = "off"
      \/ \A u \in Tasks \ {a} : pc'[u] = pc[u]
  BY <1>1, Moves, TypeParts
<1> QED
  BY <1>1, <1>2 DEF MainStays, NumsStay, OneAccount

\* It keeps what is said of the mails, if it keeps that of its own.
LEMMA AccountKeeps ==
    ASSUME TypeInv, MailsAt, NEW a \in Accounts, OneAccount(a), MailAt(a)',
           \A i \in MailIds : \/ Deals(a, i)' => Deals(a, i)
                              \/ \A b \in Accounts \ {a} : ~Deals(b, i),
           \A i \in MailIds : \/ mailMap'[i] = mailMap[i]
                              \/ \A b \in Accounts \ {a} : ~Deals(b, i)
    PROVE  MailsAt'
<1>1. \A b \in Accounts \ {a} : pc'[b] \in {pc[b], "off"}
  BY DEF OneAccount
<1>2. \A b \in Accounts \ {a}, i \in MailIds : Deals(b, i)' => Deals(b, i)
  BY <1>1 DEF OneAccount, Deals
<1>3. Lone'
  <2> SUFFICES ASSUME NEW b \in Accounts, NEW c \in Accounts, NEW i \in MailIds, b # c,
                      Deals(b, i)', Deals(c, i)'
               PROVE  FALSE
    BY DEF Lone
  <2>1. CASE b # a /\ c # a
    BY <1>2, <2>1 DEF MailsAt, Lone
  <2>2. CASE b = a
    BY <1>2, <2>2 DEF MailsAt, Lone
  <2>3. CASE c = a
    BY <1>2, <2>3 DEF MailsAt, Lone
  <2> QED
    BY <2>1, <2>2, <2>3
<1>4. ASSUME NEW b \in Accounts \ {a} PROVE MailAt(b)'
  <2>1. CASE pc'[b] \in {"off", "idle"}
    BY <1>1, <2>1 DEF OneAccount, MailsAt, MailAt, Callback, LinkedMail, InCall
  <2>2. CASE pc'[b] \notin {"off", "idle"}
    <3>1. /\ pc'[b] = pc[b] /\ local'[b] = local[b] /\ call'[b] = call[b]
          /\ pc'["main"] = pc["main"]
      BY <1>1, <2>2 DEF OneAccount
    <3>2. local[b].id \in MailIds /\ Deals(b, local[b].id)
      BY <2>2, <3>1, TypeParts, IdFacts DEF MailsOK, Deals
    <3>3. mailMap'[local[b].id] = mailMap[local[b].id]
      BY <3>2
    <3>4. Callback(b) /\ LinkedMail(b)
      BY DEF MailsAt, MailAt
    <3> QED
      BY <3>1, <3>3, <3>4 DEF MailAt, Callback, LinkedMail, InCall
  <2> QED
    BY <2>1, <2>2
<1> QED
  BY <1>3, <1>4 DEF MailsAt

\* What is held changes with mail_map and the account's own mail only.
LEMMA AccountHolds ==
    ASSUME NumsStay, NEW a \in Accounts, OneAccount(a), NEW n, NEW i \in MailIds,
           n \in Holds(i)', n = mailMap'[i] => n \in Holds(i),
           InCallback(a, i)' /\ n = local'[a].num => n \in Holds(i)
    PROVE  n \in Holds(i)
<1>1. n \in Nums
  BY MailHolds
<1>2. ASSUME NEW b \in Accounts \ {a}, InCallback(b, i)', n = local'[b].num
      PROVE  n \in Holds(i)
  <2>1. InCallback(b, i) /\ n = local[b].num
    BY <1>2 DEF InCallback, OneAccount
  <2> QED
    BY <1>1, <2>1, MailHolds
<1> QED
  BY <1>2, MailHolds

LEMMA AccountRest ==
    ASSUME NumsStay, NEW o \in Rest, \A i \in MailIds : Holds(i)' \subseteq Holds(i)
    PROVE  Holds(o)' \subseteq Holds(o)
  BY YearHolds DEF NumsStay, Rest

\* A mail that an account is about is no other account's.
LEMMA OthersDoNot ==
    ASSUME TypeInv, MailsAt, NEW a \in Accounts, pc[a] \notin {"off", "idle"}
    PROVE  /\ local[a].id \in MailIds /\ Deals(a, local[a].id)
           /\ \A b \in Accounts \ {a} : ~Deals(b, local[a].id)
  BY TypeParts, IdFacts DEF MailsOK, MailsAt, Lone, Deals

\* MailSet: the number a mail is given is new.
LEMMA MailSetShares ==
    ASSUME TypeInv, CallInv, Holdings, MainAt, MailsAt, ~raced', NEW a \in Accounts, MailSet(a)
    PROVE  Holdings' /\ MainAt' /\ MailsAt'
<1> DEFINE id == local[a].id
<1>1. /\ a \in Tasks /\ TypeOK /\ ManagerOK /\ pc[a] = "mailSet" /\ pc'[a] = "test"
      /\ MarkReserved(a) /\ Goto(a, "test")
      /\ UNCHANGED <<num, mailMap, known, built, timeDue>>
      /\ local' = [local EXCEPT ![a].num = call[a].num]
      /\ local'[a] = [local[a] EXCEPT !.num = call[a].num]
      /\ \A b \in Accounts \ {a} : local'[b] = local[b]
  BY NamesAreTasks, TypeParts DEF MailSet, timeVars, TypeInv, Goto, PcOK, MailsOK
<1>2. /\ Steady /\ Leaving = {} /\ ~raced
      /\ \A u \in Tasks \ {a} : call'[u] = call[u]
  BY <1>1, DrawsSteady DEF Draws
<1>3. /\ Free \in Nums /\ call[a].num = Free
      /\ reserved' = [reserved EXCEPT !["NORMAL"] = @ \cup {Free}]
      /\ call'[a] = NoCall
  <2>1. call'[a] = NoCall
    BY <1>1 DEF MarkReserved, Leaves, ManagerOK, CallType
  <2> QED
    BY <1>1, <1>2, <2>1, MarkDoes DEF CallInv
<1>4. Lst' = Lst \cup {Free}
  <2>1. reserved \in [Kinds -> SUBSET Nums] /\ "NORMAL" \in Kinds
    BY <1>1, NormalIsKind, SameNumbers DEF ManagerOK, Mgr!TypeOK
  <2> HIDE DEF Free
  <2> QED
    BY <1>3, <2>1 DEF Lst
<1>5. MainStays /\ OneAccount(a)
  BY <1>1, <1>2, AccountLeaves
<1>6. local'[a].id = id /\ local'[a].num = Free
  BY <1>1, <1>3, TypeParts DEF MailsOK
<1>7. id \in MailIds
  BY <1>1, OthersDoNot
<1>8. Holdings'
  <2>1. \A i \in MailIds : Holds(i)' \subseteq Holds(i) \cup {Free}
    <3> SUFFICES ASSUME NEW i \in MailIds, NEW n \in Holds(i)', n # Free PROVE n \in Holds(i)
      OBVIOUS
    <3>1. n \in Nums
      BY MailHolds
    <3>2. n = mailMap'[i] => n \in Holds(i)
      BY <1>1, <3>1, MailHolds
    <3> QED
      BY <1>5, <1>6, <3>2, AccountHolds DEF MainStays
  <2>2. \A i \in MailIds \ {id} : Holds(i)' \subseteq Holds(i)
    <3> SUFFICES ASSUME NEW i \in MailIds \ {id}, NEW n \in Holds(i)' PROVE n \in Holds(i)
      OBVIOUS
    <3>1. n \in Nums
      BY MailHolds
    <3>2. n = mailMap'[i] => n \in Holds(i)
      BY <1>1, <3>1, MailHolds
    <3>3. ~InCallback(a, i)'
      BY <1>6 DEF InCallback
    <3> QED
      BY <1>5, <3>2, <3>3, AccountHolds DEF MainStays
  <2>3. Holds("newyear")' = Holds("newyear")
    BY <1>1, YearHolds
  <2> HIDE DEF Free, id
  <2>4. id \in Rest /\ \A o \in Rest \ {id} : Holds(o)' \subseteq Holds(o)
    BY <1>7, <2>2, <2>3 DEF Rest
  <2> QED
    BY <1>1, <1>2, <1>3, <1>4, <1>7, <2>1, <2>4, GrantsApart
<1>9. MailsAt'
  <2>1. MailAt(a)'
    BY <1>1, <1>3, <1>6 DEF MailsAt, MailAt, Callback, LinkedMail, InCall, NoCall
  <2>2. \A i \in MailIds : Deals(a, i)' => Deals(a, i)
    BY <1>1, <1>6 DEF Deals
  <2> QED
    BY <1>1, <1>5, <2>1, <2>2, AccountKeeps
<1> QED
  BY <1>5, <1>8, <1>9, MainKept

\* Appear: mail_cb gives it the number mail_map has, or looks for one.
LEMMA AppearShares ==
    ASSUME TypeInv, CallInv, Holdings, MainAt, MailsAt, ~raced', ~collided',
           NEW a \in Accounts, NEW i \in IdsOf[a], Appear(a, i)
    PROVE  Holdings' /\ MainAt' /\ MailsAt'
<1>1. /\ a \in Tasks /\ i \in MailIds /\ TypeOK /\ ManagerOK /\ pc[a] = "idle"
      /\ UNCHANGED <<num, mailMap, known, built, timeDue>>
      /\ \A s : Goto(a, s) => pc'[a] = s
  BY NamesAreTasks, TypeParts, IdFacts DEF Appear, timeVars, TypeInv, Goto, PcOK
<1>2. \A b \in Accounts \ {a} : ~Deals(b, i)
  <2>1. collided' = (collided \/ \E b \in Accounts \ {a} : Has(b, i))
    BY DEF Appear
  <2>2. \A b \in Accounts \ {a} : ~Has(b, i)
    BY <2>1
  <2> QED
    BY <2>2 DEF Has, Deals
<1>3. ~InCall(a)
  BY <1>1 DEF MailsAt, MailAt, LinkedMail
<1> DEFINE Enters(n, s) ==
             /\ local' = [local EXCEPT ![a] = [id |-> i, appeared |-> TRUE, num |-> n]]
             /\ Goto(a, s)
<1>4. ASSUME NEW n, NEW s \in {"test", "mailSet"}, Enters(n, s), Steady,
             \A u \in Tasks \ {a} : call'[u] = call[u],
             s = "test" => /\ mailMap[i] \in {Unmapped, n}
                           /\ n \in Nums => n = mailMap[i]
                           /\ call'[a] = call[a],
             s = "mailSet" => mailMap[i] = Unmapped /\ call'[a].at = "mark"
      PROVE  Holdings' /\ MainAt' /\ MailsAt'
  <2>1. /\ local'[a].id = i /\ local'[a].num = n /\ pc'[a] = s
        /\ \A b \in Accounts \ {a} : local'[b] = local[b]
    BY <1>1, <1>4, TypeParts DEF MailsOK
  <2>2. MainStays /\ OneAccount(a)
    BY <1>1, <1>4, <2>1, AccountLeaves
  <2>3. pc'["main"] = pc["main"]
    BY <1>1, <1>4, NamesAreTasks, TypeParts DEF Goto, PcOK, Names
  <2>4. MailAt(a)'
    <3>1. Callback(a)'
      BY <1>1, <1>4, <2>1 DEF Callback
    <3>2. LinkedMail(a)'
      BY <1>3, <1>4, <2>1, <2>3 DEF LinkedMail, InCall, MailsAt, MailAt
    <3> QED
      BY <3>1, <3>2 DEF MailAt
  <2>5. MailsAt'
    <3>1. \A j \in MailIds \ {i} : Deals(a, j)' => Deals(a, j)
      BY <1>1, <2>1 DEF Deals
    <3> QED
      BY <1>1, <1>2, <2>2, <2>4, <3>1, AccountKeeps
  <2>6. ASSUME NEW j \in MailIds, NEW m \in Holds(j)' PROVE m \in Holds(j)
    <3>1. m \in Nums
      BY <2>6, MailHolds
    <3>2. m = mailMap[j] => m \in Holds(j)
      BY <3>1, MailHolds
    <3>3. InCallback(a, j)' /\ m = local'[a].num => m \in Holds(j)
      BY <1>4, <2>1, <3>1, <3>2 DEF InCallback
    <3> QED
      BY <1>1, <2>2, <2>6, <3>2, <3>3, AccountHolds DEF MainStays
  <2>7. Holdings'
    BY <1>4, <2>2, <2>6, AccountRest, KeepsApart DEF MainStays, NumsStay
  <2> QED
    BY <2>2, <2>5, <2>7, MainKept
<1>5. CASE mailMap[i] # Unmapped
  <2>1. Enters(mailMap[i], "test") /\ UNCHANGED <<reserved, call>>
    BY <1>5 DEF Appear, managerVars
  <2> QED
    BY <1>4, <2>1, SilentSteady
<1>6. CASE mailMap[i] = Unmapped
  <2>1. Find(a)
    BY <1>6 DEF Appear
  <2>2. Steady /\ \A u \in Tasks \ {a} : call'[u] = call[u]
    BY <1>1, <2>1, DrawsSteady DEF Draws
  <2>3. CASE Free < 0
    <3>1. Enters(Free, "test") /\ call' = call
      BY <1>6, <2>1, <2>3 DEF Appear, Find
    <3>2. Free \notin Nums
      <4>1. Free \in Int /\ \A m \in Nums : m \in Int /\ m >= 0
        BY <1>1, FreeIsInt, NumbersAreInts
      <4> HIDE DEF Free
      <4> QED
        BY <2>3, <4>1
    <3> QED
      BY <1>4, <1>6, <2>2, <3>1, <3>2
  <2>4. CASE ~(Free < 0)
    <3>1. Enters(NoNum, "mailSet") /\ call'[a].at = "mark"
      BY <1>1, <1>6, <2>1, <2>4 DEF Appear, Find, Enter, ManagerOK, CallType
    <3> QED
      BY <1>4, <1>6, <2>2, <3>1
  <2> QED
    BY <2>3, <2>4
<1> QED
  BY <1>5, <1>6

\* What it does to the holdings that an account's task goes on without entering a number.
LEMMA AccountKeepsApart ==
    ASSUME TypeInv, Holdings, MainAt, MailsAt, NEW a \in Accounts, MainStays, OneAccount(a),
           Steady, MailsAt',
           \A i \in MailIds : mailMap'[i] \in Nums => mailMap'[i] \in Holds(i),
           \A i \in MailIds : InCallback(a, i)' => InCallback(a, i) /\ local'[a] = local[a]
    PROVE  Holdings' /\ MainAt' /\ MailsAt'
<1>1. ASSUME NEW i \in MailIds, NEW n \in Holds(i)' PROVE n \in Holds(i)
  <2>1. n \in Nums
    BY <1>1, MailHolds
  <2>2. InCallback(a, i)' /\ n = local'[a].num => n \in Holds(i)
    BY <2>1, MailHolds
  <2> QED
    BY <1>1, <2>1, <2>2, AccountHolds DEF MainStays
<1>2. Holdings'
  BY <1>1, AccountRest, KeepsApart DEF MainStays, NumsStay
<1> QED
  BY <1>2, MainKept

\* mail_cb returns, with the mail's number in mail_map.
LEMMA RemembersApart ==
    ASSUME TypeInv, Holdings, MainAt, MailsAt, NEW a \in Accounts, MainStays, OneAccount(a),
           Steady, pc[a] \in {"test", "draw"}, pc'[a] = "idle", Remember(a), Return(a),
           call'[a].at = "out"
    PROVE  Holdings' /\ MainAt' /\ MailsAt'
<1> DEFINE id == local[a].id
<1>1. /\ id \in MailIds /\ Deals(a, id)
      /\ \A b \in Accounts \ {a} : ~Deals(b, id)
  BY OthersDoNot
<1>2. /\ mailMap'[id] = local[a].num
      /\ \A i \in MailIds \ {id} : mailMap'[i] = mailMap[i]
      /\ known'[a] = known[a] \cup {id}
  BY <1>1, TypeParts DEF Remember, DataOK, MailsOK
<1>3. MailAt(a)'
  BY DEF MailAt, Callback, LinkedMail, InCall
<1>4. MailsAt'
  <2>1. \A i \in MailIds : Deals(a, i)' => Deals(a, i)
    BY <1>1, <1>2 DEF Deals
  <2> QED
    BY <1>1, <1>2, <1>3, <2>1, AccountKeeps
<1>5. \A i \in MailIds : mailMap'[i] \in Nums => mailMap'[i] \in Holds(i)
  BY <1>2, MailHolds DEF InCallback
<1> QED
  BY <1>4, <1>5, AccountKeepsApart DEF InCallback

\* mail_cb returns, without it.
LEMMA ForgetsMails ==
    ASSUME TypeInv, MailsAt, NEW a \in Accounts, OneAccount(a),
           pc[a] \in {"testGone", "erase"}, pc'[a] = "idle", Forget(a), Return(a),
           call'[a].at = "out"
    PROVE  /\ MailsAt' /\ mailMap'[local[a].id] = Unmapped
           /\ \A i \in MailIds \ {local[a].id} : mailMap'[i] = mailMap[i]
           /\ \A i \in MailIds : ~InCallback(a, i)'
<1> DEFINE id == local[a].id
<1>1. /\ id \in MailIds /\ Deals(a, id)
      /\ \A b \in Accounts \ {a} : ~Deals(b, id)
  BY OthersDoNot
<1>2. /\ mailMap'[id] = Unmapped
      /\ \A i \in MailIds \ {id} : mailMap'[i] = mailMap[i]
      /\ known'[a] = known[a] \ {id}
  BY <1>1, TypeParts DEF Forget, DataOK, MailsOK
<1>3. MailAt(a)'
  BY DEF MailAt, Callback, LinkedMail, InCall
<1>4. \A i \in MailIds : Deals(a, i)' => Deals(a, i)
  BY <1>2 DEF Deals
<1> QED
  BY <1>1, <1>2, <1>3, <1>4, AccountKeeps DEF InCallback

\* What is in mail_map is held.
LEMMA MappedIsHeld == \A i \in MailIds : mailMap[i] \in Nums => mailMap[i] \in Holds(i)
  BY MailHolds

\* A step of an account's task that changes no mail.
LEMMA AccountGoesOn ==
    ASSUME TypeInv, Holdings, MainAt, MailsAt, NEW a \in Accounts, MainStays, OneAccount(a),
           Steady, MailAt(a)', UNCHANGED <<mailMap, local>>,
           known'[a] \subseteq known[a],
           \/ pc'[a] \in {pc[a], "off"}
           \/ pc[a] = "test" /\ pc'[a] = "draw"
           \/ pc[a] = "testGone" /\ pc'[a] = "erase"
    PROVE  Holdings' /\ MainAt' /\ MailsAt'
<1>1. MailsAt'
  <2>1. \A i \in MailIds : Deals(a, i)' => Deals(a, i)
    BY DEF Deals
  <2> QED
    BY <2>1, AccountKeeps
<1>2. \A i \in MailIds : InCallback(a, i)' => InCallback(a, i)
  BY DEF InCallback
<1> QED
  BY <1>1, <1>2, MappedIsHeld, AccountKeepsApart

\* MailTest and MailTestGone: the state is read.
LEMMA MailTestShares ==
    ASSUME TypeInv, Holdings, MainAt, MailsAt, NEW a \in Accounts,
           MailTest(a) \/ MailTestGone(a)
    PROVE  Holdings' /\ MainAt' /\ MailsAt'
<1>1. /\ a \in Tasks /\ pc[a] \in {"test", "testGone"} /\ a # "main"
      /\ UNCHANGED <<reserved, call, num, built, timeDue>>
      /\ \A s : Goto(a, s) => pc'[a] = s /\ pc'["main"] = pc["main"]
      /\ \E s : Goto(a, s)
      /\ \A b \in Accounts \ {a} : local'[b] = local[b] /\ known'[b] = known[b]
  BY NamesAreTasks, TypeParts
     DEF MailTest, MailTestGone, managerVars, timeVars, Goto, PcOK, Names, Return, Remember, Forget,
         MailsOK
<1>2. Steady /\ MainStays /\ OneAccount(a)
  BY <1>1, SilentSteady, AccountLeaves
<1>3. call'[a].at = "out"
  BY <1>1 DEF MailsAt, MailAt, LinkedMail, InCall
<1>4. ASSUME UNCHANGED <<mailMap, known, local>>,
             \/ pc[a] = "test" /\ pc'[a] = "draw"
             \/ pc[a] = "testGone" /\ pc'[a] = "erase"
      PROVE  Holdings' /\ MainAt' /\ MailsAt'
  <2>1. MailAt(a)'
    BY <1>3, <1>4 DEF MailsAt, MailAt, Callback, LinkedMail, InCall
  <2> QED
    BY <1>2, <1>4, <2>1, AccountGoesOn
<1>5. CASE MailTest(a)
  <2>1. CASE state = "IDLE"
    BY <1>1, <1>4, <1>5, <2>1 DEF MailTest
  <2>2. CASE state # "IDLE"
    BY <1>1, <1>2, <1>3, <1>5, <2>2, RemembersApart DEF MailTest
  <2> QED
    BY <2>1, <2>2
<1>6. CASE MailTestGone(a)
  <2>1. CASE state = "IDLE"
    BY <1>1, <1>4, <1>6, <2>1 DEF MailTestGone
  <2>2. CASE state # "IDLE"
    <3>1. pc[a] = "testGone" /\ pc'[a] = "idle" /\ Forget(a) /\ Return(a)
      BY <1>1, <1>6, <2>2 DEF MailTestGone
    <3>2. /\ MailsAt' /\ mailMap'[local[a].id] = Unmapped
          /\ \A i \in MailIds \ {local[a].id} : mailMap'[i] = mailMap[i]
          /\ \A i \in MailIds : ~InCallback(a, i)'
      BY <1>2, <1>3, <3>1, ForgetsMails
    <3>3. Unmapped \notin Nums
      BY NumbersAreInts
    <3> QED
      BY <1>2, <3>2, <3>3, MappedIsHeld, AccountKeepsApart
  <2> QED
    BY <2>1, <2>2
<1> QED
  BY <1>5, <1>6

\* Disappear: mail_cb is about a mail that mail_map has.
LEMMA DisappearShares ==
    ASSUME TypeInv, Holdings, MainAt, MailsAt, NEW a \in Accounts, NEW i \in MailIds,
           Disappear(a, i)
    PROVE  Holdings' /\ MainAt' /\ MailsAt'
<1>1. /\ a \in Tasks /\ pc[a] = "idle" /\ a # "main" /\ Deals(a, i)
      /\ UNCHANGED <<reserved, call, num, mailMap, built, timeDue>>
      /\ \A s : Goto(a, s) => pc'[a] = s /\ pc'["main"] = pc["main"]
      /\ UNCHANGED pc \/ \E s : Goto(a, s)
      /\ \A b \in Accounts \ {a} : local'[b] = local[b] /\ known'[b] = known[b]
  BY NamesAreTasks, TypeParts
     DEF Disappear, managerVars, timeVars, Goto, PcOK, Names, MailsOK, Deals
<1>2. Steady /\ MainStays /\ OneAccount(a)
  BY <1>1, SilentSteady, AccountLeaves
<1>3. call'[a].at = "out"
  BY <1>1 DEF MailsAt, MailAt, LinkedMail, InCall
<1>4. CASE mailMap[i] \in {Unmapped, 0}
  <2>1. UNCHANGED <<pc, local>> /\ known'[a] \subseteq known[a]
    BY <1>4, TypeParts DEF Disappear, MailsOK
  <2>2. MailAt(a)'
    BY <1>1, <1>3, <2>1 DEF MailAt, Callback, LinkedMail, InCall
  <2> QED
    BY <1>1, <1>2, <2>1, <2>2, AccountGoesOn
<1>5. CASE mailMap[i] \notin {Unmapped, 0}
  <2>1. /\ local'[a].id = i /\ local'[a].num = mailMap[i] /\ pc'[a] = "testGone"
        /\ pc'["main"] = pc["main"] /\ known' = known
    BY <1>1, <1>5, TypeParts DEF Disappear, MailsOK
  <2>2. MailAt(a)'
    BY <1>1, <1>3, <2>1 DEF MailAt, Callback, LinkedMail, InCall
  <2>3. MailsAt'
    <3>1. \A j \in MailIds : Deals(a, j)' => Deals(a, j)
      BY <1>1, <2>1 DEF Deals
    <3> QED
      BY <1>1, <1>2, <2>2, <3>1, AccountKeeps
  <2>4. \A j \in MailIds : ~InCallback(a, j)'
    BY <2>1 DEF InCallback
  <2> QED
    BY <1>1, <1>2, <2>3, <2>4, MappedIsHeld, AccountKeepsApart
<1> QED
  BY <1>4, <1>5

\* MailDraw: the mail is drawn, under the number it has been given.
LEMMA MailDrawShares ==
    ASSUME TypeInv, CallInv, Holdings, MainAt, MailsAt, ~raced', NEW a \in Accounts, MailDraw(a)
    PROVE  Holdings' /\ MainAt' /\ MailsAt'
<1>1. /\ a \in Tasks /\ pc[a] = "draw" /\ a # "main"
      /\ UNCHANGED <<num, built, timeDue>>
      /\ \A s : Goto(a, s) => pc'[a] = s
      /\ local[a].id \in Contents
      /\ Show(a, "NORMAL", local[a].id, local[a].num, "idle")
      /\ IF pc'[a] = "idle"
         THEN Remember(a) /\ Return(a) ELSE UNCHANGED <<mailMap, known, local>>
      /\ \A b \in Accounts \ {a} : local'[b] = local[b] /\ known'[b] = known[b]
  BY NamesAreTasks, TypeParts, OthersDoNot
     DEF MailDraw, timeVars, Goto, PcOK, Names, Return, Remember, MailsOK, Contents
<1>2. /\ Steady /\ \A u \in Tasks \ {a} : call'[u] = call[u]
      /\ \/ /\ UNCHANGED pc /\ call'[a].at = "draw" /\ call'[a].kind = "NORMAL"
            /\ call'[a].num = local[a].num
         \/ Goto(a, "idle") /\ call'[a] = NoCall
         \/ Abort
  BY <1>1, ShowSteps, NormalIsKind
<1>3. MainStays /\ OneAccount(a)
  BY <1>1, <1>2, AccountLeaves
<1>4. CASE Goto(a, "idle") /\ call'[a] = NoCall
  BY <1>1, <1>2, <1>3, <1>4, RemembersApart DEF NoCall
<1>5. ASSUME UNCHANGED pc, call'[a].at = "draw", call'[a].kind = "NORMAL",
             call'[a].num = local[a].num
      PROVE  Holdings' /\ MainAt' /\ MailsAt'
  <2>1. MailAt(a)'
    BY <1>1, <1>5 DEF MailsAt, MailAt, Callback, LinkedMail
  <2> QED
    BY <1>1, <1>2, <1>3, <1>5, <2>1, AccountGoesOn
<1>6. CASE Abort
  <2>1. pc'[a] = "off" /\ pc'["main"] = "aborted"
    BY <1>1, <1>6, AbortPc
  <2>2. MailAt(a)'
    BY <2>1 DEF MailAt, Callback, LinkedMail
  <2> QED
    BY <1>1, <1>2, <1>3, <2>1, <2>2, AccountGoesOn
<1> QED
  BY <1>2, <1>4, <1>5, <1>6

\* MailErase: the mail's number is given back, and nobody shares it.
LEMMA MailEraseShares ==
    ASSUME TypeInv, CallInv, Holdings, MainAt, MailsAt, ~raced', NEW a \in Accounts, MailErase(a)
    PROVE  Holdings' /\ MainAt' /\ MailsAt'
<1>0. PICK n, id : n = local[a].num /\ id = local[a].id
  OBVIOUS
<1> USE <1>0
<1>1. /\ a \in Tasks /\ pc[a] = "erase" /\ a # "main"
      /\ UNCHANGED <<num, built, timeDue>>
      /\ \A s : Goto(a, s) => pc'[a] = s
      /\ Remove(a, n, "idle")
      /\ IF pc'[a] = "idle"
         THEN Forget(a) /\ Return(a) ELSE UNCHANGED <<mailMap, known, local>>
      /\ \A b \in Accounts \ {a} : local'[b] = local[b] /\ known'[b] = known[b]
  BY NamesAreTasks, TypeParts
     DEF MailErase, timeVars, Goto, PcOK, Names, Return, Forget, MailsOK
<1>2. /\ id \in MailIds /\ Deals(a, id) /\ mailMap[id] = n
      /\ \A b \in Accounts \ {a} : ~Deals(b, id)
  BY <1>1, OthersDoNot DEF MailsAt, MailAt, Callback
<1>3. CASE ~Resets(a)
  <2>1. /\ Steady /\ \A u \in Tasks \ {a} : call'[u] = call[u]
        /\ \/ /\ UNCHANGED pc /\ call'[a].at = "reset" /\ call'[a].kind = "NORMAL"
              /\ call'[a].num = n
           \/ Abort
    BY <1>1, <1>3, EraseSteps
  <2>2. MainStays /\ OneAccount(a)
    BY <1>1, <2>1, AccountLeaves
  <2>3. pc'[a] \in {pc[a], "off"} /\ UNCHANGED <<mailMap, known, local>>
    BY <1>1, <2>1, AbortPc
  <2>4. MailAt(a)'
    <3>1. CASE Abort
      <4>1. pc'[a] = "off" /\ pc'["main"] = "aborted"
        BY <1>1, <3>1, AbortPc
      <4> QED
        BY <4>1 DEF MailAt, Callback, LinkedMail
    <3>2. CASE ~Abort
      BY <1>1, <2>1, <2>3, <3>2 DEF MailsAt, MailAt, Callback, LinkedMail
    <3> QED
      BY <3>1, <3>2
  <2> QED
    BY <2>1, <2>2, <2>3, <2>4, AccountGoesOn
<1>4. CASE Resets(a)
  <2>1. \/ ResetOnce(a) /\ UNCHANGED pc
        \/ ResetLast(a, "again") /\ Goto(a, "idle")
    BY <1>1, <1>4, ResetCalls, TypeParts DEF Remove, ResetOnce
  <2>2. call[a].kind = "NORMAL" /\ call[a].num = n
    BY <1>1, <2>1 DEF MailsAt, MailAt, LinkedMail, InCall, ResetOnce, ResetLast
  <2>3. /\ Lst' = Lst \ {n} /\ Leaving \subseteq {n} /\ n \in Nums
        /\ \A u \in Tasks \ {a} : call'[u] = call[u]
        /\ ResetOnce(a) => n \in Leaving' /\ call'[a] = [call[a] EXCEPT !.at = "again"]
        /\ ~ResetOnce(a) => call'[a] = NoCall
    BY <1>1, <1>4, <2>2, ResetsLists, TypeParts
  <2>4. MainStays /\ OneAccount(a)
    BY <1>1, <2>1, <2>3, AccountLeaves
  <2>5. n \in Holds(id) /\ \A o \in Owners \ {id} : n \notin Holds(o)
    BY <1>2, <2>3, MailHolds DEF Holdings, Apart, Owners
  <2>6. \A v \in Views : n \notin Holds(v)
    BY <1>2, <2>5, OwnersSplit DEF Rest
  <2>7. MailsAt' /\ (ResetOnce(a) \/ mailMap'[id] = Unmapped)
        /\ (\A i \in MailIds \ {id} : mailMap'[i] = mailMap[i])
        /\ (ResetOnce(a) => mailMap' = mailMap)
        /\ \A i \in MailIds : ~InCallback(a, i)'
    <3>1. CASE ResetOnce(a)
      <4>1. /\ UNCHANGED <<pc, mailMap, known, local>>
            /\ call'[a].at = "again" /\ call'[a].kind = "NORMAL" /\ call'[a].num = n
        BY <1>1, <2>1, <2>2, <2>3, <3>1, TypeParts DEF ResetOnce, ManagerOK, CallType, ResetLast
      <4>2. MailAt(a)'
        BY <1>1, <4>1 DEF MailsAt, MailAt, Callback, LinkedMail
      <4>3. MailsAt'
        BY <2>4, <4>1, <4>2, AccountKeeps DEF Deals
      <4> QED
        BY <1>1, <3>1, <4>1, <4>3 DEF InCallback
    <3>2. CASE ~ResetOnce(a)
      <4>1. pc'[a] = "idle" /\ call'[a].at = "out"
        BY <1>1, <2>1, <2>3, <3>2 DEF NoCall
      <4> QED
        BY <1>1, <2>4, <3>2, <4>1, ForgetsMails
    <3> QED
      BY <3>1, <3>2
  <2>8. ASSUME NEW i \in MailIds, NEW m \in Holds(i)' PROVE m \in Holds(i)
    <3>1. m \in Nums /\ Unmapped \notin Nums
      BY <2>8, MailHolds, NumbersAreInts
    <3>2. m = mailMap'[i] => m = mailMap[i]
      BY <2>7, <3>1
    <3> QED
      BY <2>4, <2>7, <2>8, <3>1, <3>2, MailHolds, AccountHolds DEF MainStays
  <2>9. ASSUME ~ResetOnce(a) PROVE n \notin Holds(id)'
    <3>1. ASSUME NEW b \in Accounts, InCallback(b, id)' PROVE FALSE
      <4>1. b # a /\ InCallback(b, id)
        BY <1>2, <2>4, <2>7, <3>1 DEF OneAccount, InCallback
      <4> QED
        BY <1>2, <4>1 DEF InCallback, Deals
    <3>2. mailMap'[id] \notin Nums
      BY <2>7, <2>9, NumbersAreInts
    <3> QED
      BY <1>2, <3>1, <3>2, MailHolds
  <2>10. n \in Leaving' \/ \A o \in Rest : n \notin Holds(o)'
    <3>1. \A i \in MailIds \ {id} : n \notin Holds(i)'
      BY <2>5, <2>8 DEF Owners
    <3>2. n \notin Holds("newyear")'
      BY <1>1, <1>2, <2>5, YearHolds, OwnersSplit
    <3> QED
      BY <2>3, <2>9, <3>1, <3>2 DEF Rest
  <2>11. Holdings'
    <3>1. \A o \in Rest : Holds(o)' \subseteq Holds(o)
      BY <2>4, <2>8, AccountRest DEF MainStays
    <3> QED
      BY <1>1, <2>3, <2>6, <2>10, <3>1, ResetsApart
  <2> QED
    BY <2>4, <2>7, <2>11, MainKept
<1> QED
  BY <1>3, <1>4

\* A restart leaves nothing held.
LEMMA RestartShares ==
    ASSUME Restart
    PROVE  Holdings' /\ MainAt' /\ MailsAt'
<1>1. /\ \A v \in Views : num'[v] = Unset
      /\ num'["newyear"] = 0
      /\ \A i \in MailIds : mailMap'[i] = Unmapped
      /\ \A a \in Accounts : pc'[a] = "off" /\ known'[a] = {} /\ call'[a] = NoCall
      /\ pc'["main"] = "sys" /\ call'["main"] = NoCall /\ timeDue'
  BY NamesAreTasks, OwnersSplit DEF Restart, Fresh, FreshNums, Names
<1>2. Unset \notin Nums /\ Unmapped \notin Nums
  BY NumbersAreInts
<1>3. \A o \in Owners : Holds(o)' = {}
  <2>1. \A v \in Views : Holds(v)' = {}
    BY <1>1, <1>2, ViewHolds
  <2>2. Holds("newyear")' = {}
    BY <1>1, YearHolds
  <2>3. ASSUME NEW i \in MailIds PROVE Holds(i)' = {}
    BY <1>1, <1>2, MailHolds DEF InCallback
  <2> QED
    BY <2>1, <2>2, <2>3 DEF Owners
<1>4. Holdings'
  BY <1>1, <1>2, <1>3, OwnersSplit DEF Holdings, RestTaken, TimeTaken, ViewsAbove, Apart
<1>5. MainAt'
  BY <1>1, <1>2, OwnersSplit
     DEF MainAt, TimeIsLast, TimeFirst, Greeting, LinkedMain, InCall, NoCall, AfterTimePc
<1>6. MailsAt'
  BY <1>1 DEF MailsAt, Lone, Deals, MailAt, Callback, LinkedMail, InCall, NoCall
<1> QED
  BY <1>4, <1>5, <1>6

\* Nor is anything when the firmware starts.
LEMMA InitShares == ASSUME Init PROVE SharingInv
<1>1. /\ \A v \in Views : num[v] = Unset
      /\ num["newyear"] = 0
      /\ \A i \in MailIds : mailMap[i] = Unmapped
      /\ \A a \in Accounts : pc[a] = "off" /\ known[a] = {} /\ call[a] = NoCall
      /\ pc["main"] = "sys" /\ call["main"] = NoCall /\ timeDue
  BY NamesAreTasks, OwnersSplit DEF Init, FreshNums, Names
<1>2. Unset \notin Nums /\ Unmapped \notin Nums
  BY NumbersAreInts
<1>3. \A o \in Owners : Holds(o) = {}
  <2>1. \A v \in Views : Holds(v) = {}
    BY <1>1, <1>2, ViewHolds
  <2>2. Holds("newyear") = {}
    BY <1>1, YearHolds
  <2>3. ASSUME NEW i \in MailIds PROVE Holds(i) = {}
    BY <1>1, <1>2, MailHolds DEF InCallback
  <2> QED
    BY <2>1, <2>2, <2>3 DEF Owners
<1>4. Holdings
  BY <1>1, <1>2, <1>3, OwnersSplit DEF Holdings, RestTaken, TimeTaken, ViewsAbove, Apart
<1>5. MainAt
  BY <1>1, <1>2, OwnersSplit
     DEF MainAt, TimeIsLast, TimeFirst, Greeting, LinkedMain, InCall, NoCall, AfterTimePc
<1>6. MailsAt
  BY <1>1 DEF MailsAt, Lone, Deals, MailAt, Callback, LinkedMail, InCall, NoCall
<1> QED
  BY <1>4, <1>5, <1>6 DEF SharingInv

\* Every step.
LEMMA NextShares ==
    ASSUME TypeInv, SysInv, CallInv, SharingInv, [Next]_vars
    PROVE  SharingInv'
<1> SUFFICES ASSUME Undisturbed' PROVE Holdings' /\ MainAt' /\ MailsAt'
  BY DEF SharingInv
<1>1. CASE Restart
  BY <1>1, RestartShares
<1>2. CASE ~Restart
  <2>1. Holdings /\ MainAt /\ MailsAt /\ ~raced' /\ ~wiped' /\ ~collided'
    BY <1>2, WasUndisturbed DEF SharingInv, Undisturbed
  <2>2. CASE MainStep \/ WifiUp
    BY <2>1, <2>2, MainStepShares
  <2>3. ASSUME NEW a \in Accounts, MailStep(a) PROVE Holdings' /\ MainAt' /\ MailsAt'
    BY <2>1, <2>3, MailSetShares, MailTestShares, MailDrawShares, MailEraseShares DEF MailStep
  <2>4. ASSUME NEW a \in Accounts, NEW i \in IdsOf[a], Appear(a, i)
        PROVE  Holdings' /\ MainAt' /\ MailsAt'
    BY <2>1, <2>4, AppearShares
  <2>5. ASSUME NEW a \in Accounts, NEW i \in MailIds, Disappear(a, i)
        PROVE  Holdings' /\ MainAt' /\ MailsAt'
    BY <2>1, <2>5, DisappearShares
  <2>6. ~SweepStep("console") /\ ~SweepStep("ota")
    BY <2>1 DEF SweepStep
  <2>7. ~(ConsoleReboot \/ AdminReboot \/ OtaEnd \/ Panic)
    BY <1>2 DEF ConsoleReboot, AdminReboot, OtaEnd, Panic
  <2>8. CASE \/ Tick \/ ConsoleLine \/ AdminReset \/ ExclusiveOn \/ ExclusiveOff \/ Leave
             \/ OtaStart \/ OtaError \/ OtaNotice \/ SetState("console") \/ SetState("ota")
             \/ UNCHANGED vars
    BY <2>1, <2>8, OtherShares
  <2> QED
    BY <2>2, <2>3, <2>4, <2>5, <2>6, <2>7, <2>8 DEF Next, ConsoleStep, OtaStep, Environment
<1> QED
  BY <1>1, <1>2

(***************************************************************************)
(* No two owners hold the same message, until a sweep, two calls at once   *)
(* or two mails of one number: although setup's views, the greeting and    *)
(* the mails of any number of accounts are given their numbers and hide,   *)
(* keep and give them back in any order, between the accesses of each      *)
(* other's calls, through exhaustion, aborts and restarts.                 *)
(***************************************************************************)
THEOREM NoSharingAlways == Spec => []NoSharing
<1>1. Init => TypeInv /\ SysInv /\ CallInv /\ SharingInv
  BY InitType, InitCalls, InitShares
<1>2. TypeInv /\ SysInv /\ CallInv /\ SharingInv /\ [Next]_vars
        => (TypeInv /\ SysInv /\ CallInv /\ SharingInv)'
  BY NextType, NextSys, NextCallInv, NextShares
<1>3. SharingInv => NoSharing
  BY DEF SharingInv, Holdings, Apart, NoSharing
<1> QED
  BY <1>1, <1>2, <1>3, PTL DEF Spec
===============================================================================
