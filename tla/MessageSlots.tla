----------------------------- MODULE MessageSlots -----------------------------
(***************************************************************************)
(* What the message manager promises to the code that draws on the board:  *)
(* slots that are granted to a caller, show one message each, and are      *)
(* withdrawn one by one or all at once.  Nothing is said here of bits, of  *)
(* the numbers of the board or of which free slot is granted.              *)
(***************************************************************************)
EXTENDS Integers

CONSTANTS Kinds,        \* the kinds of message
          Nums,         \* the slots of each kind
          Contents,     \* what a slot can show
          Nothing       \* a slot that shows nothing of the callers'

VARIABLES held,         \* the slots that are granted, by kind
          shown         \* what each slot shows, by kind and slot

vars == <<held, shown>>

NothingShown == [n \in Nums |-> Nothing]

Init ==
    /\ held = [k \in Kinds |-> {}]
    /\ shown = [k \in Kinds |-> NothingShown]

\* A slot that is granted is free and shows nothing.
Grant(k, n) ==
    /\ n \notin held[k]
    /\ shown[k][n] = Nothing
    /\ held' = [held EXCEPT ![k] = @ \cup {n}]
    /\ UNCHANGED shown

\* A caller may show a message in a slot it was never granted: it gets the slot.
Show(k, n, c) ==
    /\ held' = [held EXCEPT ![k] = @ \cup {n}]
    /\ shown' = [shown EXCEPT ![k][n] = c]

Withdraw(k, n) ==
    /\ held' = [held EXCEPT ![k] = @ \ {n}]
    /\ shown' = [shown EXCEPT ![k][n] = Nothing]

\* Afterwards the kind shows nothing, whichever slots were held.
WithdrawAll(k) ==
    /\ held' = [held EXCEPT ![k] = {}]
    /\ shown' = [shown EXCEPT ![k] = NothingShown]

Restart ==
    /\ held' = [k \in Kinds |-> {}]
    /\ shown' = [k \in Kinds |-> NothingShown]

\* The operator, not a caller, wrote to the board: messages may disappear.
Lose ==
    /\ shown' \in [Kinds -> [Nums -> Contents \cup {Nothing}]]
    /\ \A k \in Kinds, n \in Nums : shown'[k][n] \in {shown[k][n], Nothing}
    /\ UNCHANGED held

Next ==
    \/ \E k \in Kinds :
        \/ \E n \in Nums :
            \/ Grant(k, n)
            \/ \E c \in Contents : Show(k, n, c)
            \/ Withdraw(k, n)
        \/ WithdrawAll(k)
    \/ Restart
    \/ Lose

Spec == Init /\ [][Next]_vars
===============================================================================
