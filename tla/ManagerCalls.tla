----------------------------- MODULE ManagerCalls -----------------------------
(***************************************************************************)
(* The operations of MessageManager (src/nje/message_mgr.cpp) as the tasks *)
(* of the firmware run them: nothing excludes two calls from each other,   *)
(* and each call is a sequence of accesses to the list of bits and to the  *)
(* board between which another task, on this core or the other, may run.   *)
(*                                                                         *)
(* The lists are std::bitset<99>, arrays of 32-bit words (BitWords): a     *)
(* change that another task makes to a word between its load and its store *)
(* is lost.                                                                *)
(*                                                                         *)
(* As long as calls have not overlapped, the manager is MessageManager.    *)
(***************************************************************************)
EXTENDS MessageNumbers, BitWords, FiniteSets

CONSTANTS Callers,      \* the tasks that call the manager
          Blank, Foreign

\* What a caller draws is its own.
ASSUME CallersAssumption == Callers \cap {Blank, Foreign} = {}

VARIABLES
    reserved,       \* the lists of bits, as in MessageManager
    board,          \* the board; a caller draws itself
    call,           \* where each caller is in the manager
    overlapped      \* whether two calls have been under way at once (auxiliary)

vars == <<reserved, board, call, overlapped>>

Atomic == INSTANCE MessageManager WITH Contents <- Callers

(***************************************************************************)
(* A call: the operation, the next statement to run, the message it is     *)
(* about (the loop variable in remove_all), the word it has loaded, and    *)
(* whether update itself has set the bit.                                  *)
(***************************************************************************)
Ops == {"reserve", "update", "hide", "remove", "removeAll"}
Statements == {"find", "test", "loadSet", "storeSet", "draw", "loop", "erase",
               "loadReset", "storeReset", "loadAgain", "storeAgain"}

Call == [op : Ops, at : Statements, kind : Kinds, num : Nums \cup {NoNum, MsgCount},
         word : SUBSET Nums, made : BOOLEAN]
NoCall == [op |-> "none"]

TypeOK ==
    /\ reserved \in [Kinds -> SUBSET Nums]
    /\ board \in [Kinds -> [HwNums -> Callers \cup {Blank, Foreign}]]
    /\ call \in [Callers -> Call \cup {NoCall}]
    /\ overlapped \in BOOLEAN

Init ==
    /\ Atomic!Init
    /\ call = [t \in Callers |-> NoCall]
    /\ overlapped = FALSE

InCall(t) == call[t] # NoCall
At(t, s) == InCall(t) /\ call[t].at = s

\* Mutated form: hide does not erase the message.
FirstHideResets(op) == CASE op = "reserve" -> "find"
               [] op = "update" -> "test"
               [] op = "hide" -> "loadReset"
               [] op = "remove" -> "erase"
               [] op = "removeAll" -> "loop"

First(op) == CASE op = "reserve" -> "find"
               [] op = "update" -> "test"
               [] op \in {"hide", "remove"} -> "erase"
               [] op = "removeAll" -> "loop"

\* The message a call starts with: its argument, or the first of the loop.
Numbers(op) == IF op \in {"reserve", "removeAll"} THEN {0} ELSE Nums

Enter(t, op, k, n) ==
    /\ ~InCall(t)
    /\ n \in Numbers(op)
    /\ call' = [call EXCEPT ![t] =
                  [op |-> op, at |-> First(op), kind |-> k, num |-> n,
                   word |-> {}, made |-> FALSE]]
    /\ overlapped' = (overlapped \/ \E u \in Callers \ {t} : InCall(u))
    /\ UNCHANGED <<reserved, board>>

Goto(t, s) == call' = [call EXCEPT ![t].at = s]
Return(t) == call' = [call EXCEPT ![t] = NoCall]

Find(t) ==
    LET next == FindNextFree(reserved[call[t].kind]) IN
    /\ At(t, "find")
    /\ IF next < 0
       THEN Return(t)
       ELSE call' = [call EXCEPT ![t].num = next, ![t].at = "loadSet"]
    /\ UNCHANGED <<reserved, board, overlapped>>

Test(t) ==
    /\ At(t, "test")
    /\ IF call[t].num \in reserved[call[t].kind]
       THEN Goto(t, "draw")
       ELSE call' = [call EXCEPT ![t].at = "loadSet", ![t].made = TRUE]
    /\ UNCHANGED <<reserved, board, overlapped>>

\* list->set(n)
LoadSet(t) ==
    LET n == call[t].num IN
    /\ At(t, "loadSet")
    /\ call' = [call EXCEPT ![t].at = "storeSet",
                  ![t].word = WordOf(reserved[call[t].kind], n) \cup {n}]
    /\ UNCHANGED <<reserved, board, overlapped>>

StoreSet(t) ==
    /\ At(t, "storeSet")
    /\ reserved' = [reserved EXCEPT ![call[t].kind] =
                      StoreWord(@, call[t].num, call[t].word)]
    /\ IF call[t].op = "reserve" THEN Return(t) ELSE Goto(t, "draw")
    /\ UNCHANGED <<board, overlapped>>

Draw(t) ==
    /\ At(t, "draw")
    /\ board' = Atomic!SetMessage(board, call[t].kind,
                                  InternalIdToHwId(call[t].num), t)
    /\ Return(t)
    /\ UNCHANGED <<reserved, overlapped>>

\* Mutated form: the loop ends one number early.
LoopEndsEarly(t) ==
    LET n == call[t].num IN
    /\ At(t, "loop")
    /\ IF n >= MsgCount - 1 THEN Return(t)
       ELSE IF n \in reserved[call[t].kind] THEN Goto(t, "erase")
       ELSE call' = [call EXCEPT ![t].num = n + 1]
    /\ UNCHANGED <<reserved, board, overlapped>>

\* for(i = 0; i < NJE_MSG_COUNT; i++) if(list->test(i)) remove(i)
Loop(t) ==
    LET n == call[t].num IN
    /\ At(t, "loop")
    /\ IF n >= MsgCount THEN Return(t)
       ELSE IF n \in reserved[call[t].kind] THEN Goto(t, "erase")
       ELSE call' = [call EXCEPT ![t].num = n + 1]
    /\ UNCHANGED <<reserved, board, overlapped>>

Erase(t) ==
    /\ At(t, "erase")
    /\ board' = Atomic!DeleteMessage(board, call[t].kind,
                                     InternalIdToHwId(call[t].num))
    /\ Goto(t, "loadReset")
    /\ UNCHANGED <<reserved, overlapped>>

\* list->reset(n), in hide and once more in remove
LoadReset(t) ==
    LET n == call[t].num
        word == WordOf(reserved[call[t].kind], n) \ {n} IN
    /\ \/ /\ At(t, "loadReset")
          /\ call' = [call EXCEPT ![t].at = "storeReset", ![t].word = word]
       \/ /\ At(t, "loadAgain")
          /\ call' = [call EXCEPT ![t].at = "storeAgain", ![t].word = word]
    /\ UNCHANGED <<reserved, board, overlapped>>

StoreReset(t) ==
    LET n == call[t].num IN
    /\ \/ /\ At(t, "storeReset")
          /\ IF call[t].op = "hide" THEN Return(t) ELSE Goto(t, "loadAgain")
       \/ /\ At(t, "storeAgain")
          /\ IF call[t].op = "remove" THEN Return(t)
             ELSE call' = [call EXCEPT ![t].at = "loop", ![t].num = n + 1]
    /\ reserved' = [reserved EXCEPT ![call[t].kind] =
                      StoreWord(@, n, call[t].word)]
    /\ UNCHANGED <<board, overlapped>>

Restart ==
    /\ Atomic!Restart
    /\ call' = [t \in Callers |-> NoCall]
    /\ overlapped' = FALSE

Step(t) ==
    \/ Find(t) \/ Test(t) \/ LoadSet(t) \/ StoreSet(t) \/ Draw(t)
    \/ Loop(t) \/ Erase(t) \/ LoadReset(t) \/ StoreReset(t)

Next ==
    \/ \E t \in Callers :
        \/ \E op \in Ops, k \in Kinds, n \in Nums : Enter(t, op, k, n)
        \/ Step(t)
    \/ Restart

Spec == Init /\ [][Next]_vars

-------------------------------------------------------------------------------
(***************************************************************************)
(* Until two calls overlap, each call takes effect at once: reserve when   *)
(* it stores the word, update when it draws, hide when it erases, and      *)
(* remove_all as a sequence of removes.                                    *)
(***************************************************************************)
Settled(k) ==
    reserved[k] \ {call[t].num : t \in {u \in Callers :
        /\ InCall(u)
        /\ call[u].kind = k
        /\ \/ call[u].at = "draw" /\ call[u].made
           \/ call[u].at \in {"loadReset", "storeReset"}}}

AtOnce == INSTANCE MessageManager WITH
            Contents <- Callers, reserved <- [k \in Kinds |-> Settled(k)]

LinearUntilOverlap ==
    AtOnce!Init /\ [][overlapped' \/ AtOnce!Next]_<<AtOnce!vars, overlapped>>

(***************************************************************************)
(* A sweep of remove_all that no other call overlapped leaves no bit set   *)
(* and nothing of this run on the board, although it looks at each number  *)
(* once and clears the messages while it walks over them.                  *)
(***************************************************************************)
SweepLeavesNothing ==
    [][\A t \in Callers :
        /\ At(t, "loop")
        /\ ~overlapped
        /\ call'[t] = NoCall /\ UNCHANGED <<reserved, board>>   \* not a restart
        => /\ reserved[call[t].kind] = {}
           /\ \A n \in Nums : ~Atomic!Ours(call[t].kind, n)]_vars
===============================================================================
