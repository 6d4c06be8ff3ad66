---------------------------- MODULE MessageManager ----------------------------
(***************************************************************************)
(* MessageManager (src/nje/message_mgr.cpp), called by one task at a time, *)
(* and the memory of the board it draws on.                                *)
(*                                                                         *)
(* Each operation of the class is one action; ManagerCalls takes the same  *)
(* operations apart into the steps of tasks that call them concurrently.   *)
(* The board is external: all the firmware relies on is that a "set" line  *)
(* stores a message under its number, that a "delete" line erases it, and  *)
(* that the board, which has its own power supply, keeps its memory when   *)
(* the ESP32 restarts.                                                     *)
(***************************************************************************)
EXTENDS MessageNumbers, FiniteSets

CONSTANTS Contents,     \* what this run of the firmware draws
          Blank,        \* an erased message
          Foreign       \* anything else: drawn by an earlier run of the
                        \* firmware, or by a line the operator typed

ASSUME ContentsAssumption ==
    /\ Blank # Foreign
    /\ Blank \notin Contents
    /\ Foreign \notin Contents

VARIABLES
    reserved,       \* reserved_nums_*: the set bits of the list of each kind
    board           \* the message the board holds, by kind and board number

vars == <<reserved, board>>

TypeOK ==
    /\ reserved \in [Kinds -> SUBSET Nums]
    /\ board \in [Kinds -> [HwNums -> Contents \cup {Blank, Foreign}]]

Init ==
    /\ reserved = [k \in Kinds |-> {}]
    /\ board \in [Kinds -> [HwNums -> {Blank, Foreign}]]

(***************************************************************************)
(* What the lines of Nje105 do to the board.                               *)
(***************************************************************************)
SetMessage(b, k, h, c) == [b EXCEPT ![k][h] = c]

DeleteMessage(b, k, h) == [b EXCEPT ![k][h] = Blank]

\* Mutated forms of the operations below: reserve without the test for -1,
\* remove_all that stops one number short, update without the set that makes up for
\* a missing reservation, hide that forgets to erase the message.
ReserveUnchecked(k, n) ==
    /\ n = FindNextFree(reserved[k])
    /\ reserved' = [reserved EXCEPT ![k] = @ \cup {n}]
    /\ UNCHANGED board

RemoveAllStopsShort(k) ==
    /\ reserved' = [reserved EXCEPT ![k] = @ \cap {MsgCount - 1}]
    /\ board' = [board EXCEPT ![k] =
                    [h \in HwNums |->
                        IF \E n \in reserved[k] \ {MsgCount - 1} :
                                h = InternalIdToHwId(n)
                        THEN Blank ELSE board[k][h]]]

UpdateWithoutSet(k, n, c) ==
    /\ n \in Nums
    /\ board' = SetMessage(board, k, InternalIdToHwId(n), c)
    /\ UNCHANGED reserved

HideWithoutErase(k, n) ==
    /\ n \in Nums
    /\ reserved' = [reserved EXCEPT ![k] = @ \ {n}]
    /\ UNCHANGED board

(***************************************************************************)
(* The operations.  bitset::test throws on a number out of range, so the   *)
(* operations on a message are enabled on a number of the bitset only.     *)
(***************************************************************************)
Reserve(k, n) ==
    /\ n = FindNextFree(reserved[k])
    /\ reserved' = IF n < 0 THEN reserved
                            ELSE [reserved EXCEPT ![k] = @ \cup {n}]
    /\ UNCHANGED board

Update(k, n, c) ==
    /\ n \in Nums
    /\ reserved' = [reserved EXCEPT ![k] = @ \cup {n}]
    /\ board' = SetMessage(board, k, InternalIdToHwId(n), c)

Hide(k, n) ==
    /\ n \in Nums
    /\ board' = DeleteMessage(board, k, InternalIdToHwId(n))
    /\ reserved' = [reserved EXCEPT ![k] = @ \ {n}]

Remove(k, n) == Hide(k, n)      \* remove resets once more the bit hide reset

RemoveAll(k) ==
    /\ reserved' = [reserved EXCEPT ![k] = {}]
    /\ board' = [board EXCEPT ![k] =
                    [h \in HwNums |->
                        IF \E n \in reserved[k] : h = InternalIdToHwId(n)
                        THEN Blank ELSE board[k][h]]]

(***************************************************************************)
(* The ESP32 restarts: the lists are built empty again, the board keeps    *)
(* what it shows, and nothing of it is known to the new run.               *)
(***************************************************************************)
Restart ==
    /\ reserved' = [k \in Kinds |-> {}]
    /\ board' = [k \in Kinds |-> [h \in HwNums |->
                    IF board[k][h] = Blank THEN Blank ELSE Foreign]]

\* A line sent past the manager: typed on the console, or "NJER".
RawLine ==
    /\ \/ \E k \in Kinds, h \in HwNums : board' = SetMessage(board, k, h, Foreign)
       \/ \E k \in Kinds, h \in HwNums : board' = DeleteMessage(board, k, h)
       \/ board' = [k \in Kinds |-> [h \in HwNums |-> Blank]]
    /\ UNCHANGED reserved

Next ==
    \/ \E k \in Kinds :
        \/ \E n \in Nums \cup {NoNum} : Reserve(k, n)
        \/ \E n \in Nums : \/ \E c \in Contents : Update(k, n, c)
                           \/ Hide(k, n)
                           \/ Remove(k, n)
        \/ RemoveAll(k)
    \/ Restart
    \/ RawLine

Spec == Init /\ [][Next]_vars
-------------------------------------------------------------------------------
\* Message n of kind k is one that this run of the firmware drew.
Ours(k, n) == board[k][InternalIdToHwId(n)] \in Contents

(***************************************************************************)
(* Whatever this run of the firmware has on the board has its bit set.     *)
(* remove_all clears the messages whose bit it finds set and no others, so *)
(* a message without its bit would survive "exclusive mode on" and the     *)
(* start of a firmware update.                                             *)
(***************************************************************************)
ShownIsReserved == \A k \in Kinds, n \in Nums : Ours(k, n) => n \in reserved[k]

(***************************************************************************)
(* reserve never hands out a number that is taken, nor one under which the *)
(* board still shows a message of this run: a new owner cannot draw over   *)
(* an older one.                                                           *)
(***************************************************************************)
GrantsAreNew ==
    [][\A k \in Kinds, n \in Nums :
        Reserve(k, n) => n \notin reserved[k] /\ ~Ours(k, n)]_vars

(***************************************************************************)
(* What callers see: slots that are granted, shown and withdrawn.          *)
(***************************************************************************)
ShownNow == [k \in Kinds |-> [n \in Nums |->
                IF Ours(k, n) THEN board[k][InternalIdToHwId(n)] ELSE Blank]]

Slots == INSTANCE MessageSlots WITH
            held <- reserved, shown <- ShownNow, Nothing <- Blank

\* The manager implements that view; remove_all in particular leaves nothing.
ImplementsSlots == Slots!Spec
===============================================================================
