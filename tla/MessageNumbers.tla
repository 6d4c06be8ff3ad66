---------------------------- MODULE MessageNumbers ----------------------------
(***************************************************************************)
(* The numbers of the messages of an NJE-105 board                         *)
(* (include/nje/attribute.h) and the two pure functions of MessageManager  *)
(* that compute with them.                                                 *)
(*                                                                         *)
(* The firmware counts the messages of a kind from 0 (a bit of a bitset),  *)
(* the board from 1, and downwards: internal number 0 is the highest       *)
(* number of the board.                                                    *)
(***************************************************************************)
EXTENDS Integers

CONSTANTS MsgCount,     \* NJE_MSG_COUNT: messages of one kind (99 in the code)
          Kinds         \* nje_msg_kind_t: the kinds in use, all three or fewer

\* A message number is an int8_t, and NJE_MAX_MSG_NUM is one more than the count.
ASSUME MsgCountAssumption == MsgCount \in 1 .. 126
ASSUME KindsAssumption == Kinds \subseteq {"NORMAL", "EMERGENCY", "COMMERCIAL"}

NJE_MIN_MSG_NUM == 1
NJE_MAX_MSG_NUM == MsgCount + NJE_MIN_MSG_NUM

Nums   == 0 .. MsgCount - 1                      \* internal numbers: bits
HwNums == NJE_MIN_MSG_NUM .. NJE_MAX_MSG_NUM - 1 \* numbers on the board

NoNum == -1             \* what reserve returns when it finds nothing

(***************************************************************************)
(* std::bitset::_Find_first: the lowest bit that is set, the size of the   *)
(* bitset if none is.                                                      *)
(***************************************************************************)
FindFirst(bits) ==
    IF bits = {} THEN MsgCount
                 ELSE CHOOSE n \in bits : \A m \in bits : n <= m

\* Mutated forms: the number above the first set bit; any free number.
FindNextFreeAbove(bits) == IF bits = {} THEN MsgCount - 1 ELSE FindFirst(bits) + 1

FindNextFreeAnywhere(bits) ==
    IF bits = Nums THEN NoNum ELSE CHOOSE n \in Nums \ bits : TRUE

FindNextFree(bits) == FindFirst(bits) - 1

InternalIdToHwId(id) ==
    IF id = NoNum THEN NoNum ELSE NJE_MAX_MSG_NUM - (id + NJE_MIN_MSG_NUM)
===============================================================================
