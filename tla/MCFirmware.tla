------------------------------ MODULE MCFirmware ------------------------------
(***************************************************************************)
(* TLC instances of Firmware.                                              *)
(***************************************************************************)
EXTENDS Firmware, TLC

CONSTANTS i1, i2, a1, a2

AllKinds == {"NORMAL", "EMERGENCY", "COMMERCIAL"}

TwoViews == <<"foo", "time">>
OneView == <<"time">>

\* Every mailbox counts from 1, so any number may be a mail of every account.
AnyMail == [a \in Accounts |-> MailIds]

\* "NJER" erases the board; the other line overwrites its first message.
TwoLines == {<<"NJER">>, <<"NORMAL", 1>>}

(***************************************************************************)
(* Where Foreign and Blank are given the same value, what is on the board  *)
(* without being this run's counts as erased: the firmware never reads the *)
(* board, so only the run with raw lines needs to tell the two apart.      *)
(***************************************************************************)

(***************************************************************************)
(* The use of message numbers: everything but the two changes of state.    *)
(* The run goes on until one of the exceptions of Undisturbed is met.      *)
(***************************************************************************)
NumbersNext ==
    \/ MainStep \/ WifiUp \/ Tick
    \/ \E a \in Accounts : \/ MailStep(a)
                           \/ \E i \in IdsOf[a] : Appear(a, i)
                           \/ \E i \in MailIds : Disappear(a, i)
    \/ AdminReboot \/ Panic

NumbersSpec == Init /\ [][NumbersNext]_vars

\* Accounts and mails are interchangeable: every mailbox may have every mail.
Alike == Permutations(Accounts) \cup Permutations(MailIds)

\* The run of the changes of state goes on until two calls of the manager overlap.
Solo == ~raced
===============================================================================
