------------------------- MODULE MessageManagerProofs -------------------------
(***************************************************************************)
(* What the message manager guarantees for every number of messages, every *)
(* set of kinds and every set of contents.                                 *)
(***************************************************************************)
EXTENDS MessageManager, MessageNumbersProofs

(***************************************************************************)
(* The inductive invariant: types, and every message of this run on the    *)
(* board has its bit set.                                                  *)
(***************************************************************************)
Inv == TypeOK /\ ShownIsReserved

\* What drawing and erasing do to the messages seen by their internal numbers.
LEMMA BoardAfterUpdate ==
    ASSUME TypeOK, NEW k \in Kinds, NEW n \in Nums, NEW c,
           board' = SetMessage(board, k, InternalIdToHwId(n), c)
    PROVE  \A j \in Kinds, m \in Nums :
              board'[j][InternalIdToHwId(m)] =
                IF j = k /\ m = n THEN c ELSE board[j][InternalIdToHwId(m)]
  BY HwIdOfNum, HwIdInjective DEF TypeOK, SetMessage

LEMMA BoardAfterHide ==
    ASSUME TypeOK, NEW k \in Kinds, NEW n \in Nums,
           board' = DeleteMessage(board, k, InternalIdToHwId(n))
    PROVE  \A j \in Kinds, m \in Nums :
              board'[j][InternalIdToHwId(m)] =
                IF j = k /\ m = n THEN Blank ELSE board[j][InternalIdToHwId(m)]
  BY HwIdOfNum, HwIdInjective DEF TypeOK, DeleteMessage

LEMMA BoardAfterRemoveAll ==
    ASSUME TypeOK, NEW k \in Kinds, RemoveAll(k)
    PROVE  \A j \in Kinds, m \in Nums :
              board'[j][InternalIdToHwId(m)] =
                IF j = k /\ m \in reserved[k]
                THEN Blank ELSE board[j][InternalIdToHwId(m)]
<1> SUFFICES ASSUME NEW j \in Kinds, NEW m \in Nums
             PROVE  board'[j][InternalIdToHwId(m)] =
                      IF j = k /\ m \in reserved[k]
                      THEN Blank ELSE board[j][InternalIdToHwId(m)]
  OBVIOUS
<1> DEFINE h == InternalIdToHwId(m)
<1>1. h \in HwNums
  BY HwIdOfNum
<1>2. (\E n \in reserved[k] : h = InternalIdToHwId(n)) <=> m \in reserved[k]
  BY HwIdInjective DEF TypeOK
<1> HIDE DEF h
<1>3. board'[j][h] = IF j = k
                     THEN IF \E n \in reserved[k] : h = InternalIdToHwId(n)
                          THEN Blank ELSE board[k][h]
                     ELSE board[j][h]
  BY <1>1 DEF RemoveAll, TypeOK
<1> QED
  BY <1>2, <1>3 DEF h

(***************************************************************************)
(* Every step preserves the invariant.                                     *)
(***************************************************************************)
LEMMA InitInv == Init => Inv
  BY HwIdOfNum, ContentsAssumption DEF Init, Inv, TypeOK, ShownIsReserved, Ours

LEMMA ReserveInv ==
    ASSUME Inv, NEW k \in Kinds, NEW n \in Nums \cup {NoNum}, Reserve(k, n)
    PROVE  Inv'
<1>1. n < 0 \/ n \in Nums
  BY DEF NoNum
<1>2. TypeOK'
  BY <1>1 DEF Inv, TypeOK, Reserve
<1>3. \A j \in Kinds : reserved[j] \subseteq reserved'[j]
  BY DEF Inv, TypeOK, Reserve
<1> QED
  BY <1>2, <1>3 DEF Inv, ShownIsReserved, Ours, Reserve

LEMMA UpdateInv ==
    ASSUME Inv, NEW k \in Kinds, NEW n \in Nums, NEW c \in Contents,
           Update(k, n, c)
    PROVE  Inv'
<1>1. TypeOK'
  BY HwIdOfNum DEF Inv, TypeOK, Update, SetMessage
<1>2. reserved' = [reserved EXCEPT ![k] = @ \cup {n}]
  BY DEF Update
<1>3. \A j \in Kinds, m \in Nums :
        board'[j][InternalIdToHwId(m)] =
          IF j = k /\ m = n THEN c ELSE board[j][InternalIdToHwId(m)]
  BY BoardAfterUpdate DEF Inv, Update
<1> QED
  BY <1>1, <1>2, <1>3 DEF Inv, TypeOK, ShownIsReserved, Ours

LEMMA HideInv ==
    ASSUME Inv, NEW k \in Kinds, NEW n \in Nums, Hide(k, n)
    PROVE  Inv'
<1>1. TypeOK'
  BY HwIdOfNum DEF Inv, TypeOK, Hide, DeleteMessage
<1>2. reserved' = [reserved EXCEPT ![k] = @ \ {n}]
  BY DEF Hide
<1>3. \A j \in Kinds, m \in Nums :
        board'[j][InternalIdToHwId(m)] =
          IF j = k /\ m = n THEN Blank ELSE board[j][InternalIdToHwId(m)]
  BY BoardAfterHide DEF Inv, Hide
<1> QED
  BY <1>1, <1>2, <1>3, ContentsAssumption
     DEF Inv, TypeOK, ShownIsReserved, Ours

LEMMA RemoveAllInv ==
    ASSUME Inv, NEW k \in Kinds, RemoveAll(k)
    PROVE  Inv'
<1>1. TypeOK'
  BY DEF Inv, TypeOK, RemoveAll
<1>2. reserved' = [reserved EXCEPT ![k] = {}]
  BY DEF RemoveAll
<1>3. \A j \in Kinds, m \in Nums :
        board'[j][InternalIdToHwId(m)] =
          IF j = k /\ m \in reserved[k]
          THEN Blank ELSE board[j][InternalIdToHwId(m)]
  BY BoardAfterRemoveAll DEF Inv
<1> QED
  BY <1>1, <1>2, <1>3, ContentsAssumption
     DEF Inv, TypeOK, ShownIsReserved, Ours

LEMMA RestartInv == Inv /\ Restart => Inv'
  BY HwIdOfNum, ContentsAssumption
     DEF Inv, TypeOK, ShownIsReserved, Ours, Restart

LEMMA RawLineInv == Inv /\ RawLine => Inv'
<1> SUFFICES ASSUME Inv, RawLine PROVE Inv'
  OBVIOUS
<1>1. reserved' = reserved
  BY DEF RawLine
<1>2. CASE \E k \in Kinds, h \in HwNums : board' = SetMessage(board, k, h, Foreign)
  BY <1>1, <1>2, HwIdOfNum, ContentsAssumption
     DEF Inv, TypeOK, ShownIsReserved, Ours, SetMessage
<1>3. CASE \E k \in Kinds, h \in HwNums : board' = DeleteMessage(board, k, h)
  BY <1>1, <1>3, HwIdOfNum, ContentsAssumption
     DEF Inv, TypeOK, ShownIsReserved, Ours, DeleteMessage
<1>4. CASE board' = [k \in Kinds |-> [h \in HwNums |-> Blank]]
  BY <1>1, <1>4, HwIdOfNum, ContentsAssumption
     DEF Inv, TypeOK, ShownIsReserved, Ours
<1> QED
  BY <1>2, <1>3, <1>4 DEF RawLine

LEMMA NextInv == Inv /\ [Next]_vars => Inv'
<1> SUFFICES ASSUME Inv, [Next]_vars PROVE Inv'
  OBVIOUS
<1>1. CASE UNCHANGED vars
  BY <1>1 DEF Inv, TypeOK, ShownIsReserved, Ours, vars
<1>2. CASE Next
  BY <1>2, ReserveInv, UpdateInv, HideInv, RemoveAllInv, RestartInv, RawLineInv
     DEF Next, Remove
<1> QED
  BY <1>1, <1>2

LEMMA Invariance == Spec => []Inv
  BY InitInv, NextInv, PTL DEF Spec

\* The lists hold bits of the bitset, the board known contents.
THEOREM TypeCorrect == Spec => []TypeOK
  BY Invariance, PTL DEF Inv

\* Every message of this run on the board is one that remove_all will find.
THEOREM ShownIsReservedAlways == Spec => []ShownIsReserved
  BY Invariance, PTL DEF Inv

\* reserve hands out free numbers under which nothing of this run is shown.
THEOREM GrantsAreNewAlways == Spec => GrantsAreNew
<1>1. Inv /\ [Next]_vars =>
        [\A k \in Kinds, n \in Nums :
            Reserve(k, n) => n \notin reserved[k] /\ ~Ours(k, n)]_vars
  <2> SUFFICES ASSUME Inv, NEW k \in Kinds, NEW n \in Nums, Reserve(k, n)
               PROVE  n \notin reserved[k] /\ ~Ours(k, n)
    OBVIOUS
  <2>1. n = FindNextFree(reserved[k]) /\ reserved[k] \in SUBSET Nums
    BY DEF Reserve, Inv, TypeOK
  <2>2. \A m \in reserved[k] : n < m
    BY <2>1, FindNextFreeFacts
  <2>3. n \notin reserved[k]
    BY <2>2, MsgCountAssumption DEF Nums
  <2> QED
    BY <2>3 DEF Inv, ShownIsReserved
<1> QED
  BY <1>1, Invariance, PTL DEF Spec, GrantsAreNew

(***************************************************************************)
(* The manager implements MessageSlots: each of its steps is a step of     *)
(* that specification, on the lists of bits and the messages of this run.  *)
(***************************************************************************)
LEMMA ShownNowValue ==
    /\ \A k \in Kinds, n \in Nums :
          ShownNow[k][n] = IF Ours(k, n) THEN board[k][InternalIdToHwId(n)] ELSE Blank
    /\ \A k \in Kinds, n \in Nums :
          ShownNow'[k][n] =
            IF Ours(k, n)' THEN board'[k][InternalIdToHwId(n)] ELSE Blank
    /\ ShownNow = [k \in Kinds |-> [n \in Nums |-> ShownNow[k][n]]]
    /\ ShownNow' = [k \in Kinds |-> [n \in Nums |-> ShownNow'[k][n]]]
  BY DEF ShownNow

LEMMA InitSlots == Init => Slots!Init
  BY HwIdOfNum, ContentsAssumption
     DEF Init, Slots!Init, Slots!NothingShown, ShownNow, Ours

LEMMA ReserveSlots ==
    ASSUME Inv, NEW k \in Kinds, NEW n \in Nums \cup {NoNum}, Reserve(k, n)
    PROVE  [Slots!Next]_(Slots!vars)
<1>0. ShownNow' = ShownNow
  BY DEF ShownNow, Ours, Reserve
<1>1. CASE n < 0
  BY <1>0, <1>1 DEF Reserve, Slots!vars
<1>2. CASE ~ (n < 0)
  <2>1. n \in Nums
    BY <1>2 DEF NoNum
  <2>2. n = FindNextFree(reserved[k]) /\ reserved[k] \in SUBSET Nums
    BY DEF Reserve, Inv, TypeOK
  <2>3. \A m \in reserved[k] : n < m
    BY <2>2, FindNextFreeFacts
  <2>4. n \notin reserved[k]
    BY <2>1, <2>3, MsgCountAssumption DEF Nums
  <2>5. ShownNow[k][n] = Blank
    BY <2>1, <2>4, ShownNowValue DEF Inv, ShownIsReserved
  <2>6. Slots!Grant(k, n)
    BY <1>0, <1>2, <2>4, <2>5 DEF Reserve, Slots!Grant
  <2> QED
    BY <2>1, <2>6 DEF Slots!Next
<1> QED
  BY <1>1, <1>2

LEMMA UpdateSlots ==
    ASSUME Inv, NEW k \in Kinds, NEW n \in Nums, NEW c \in Contents,
           Update(k, n, c)
    PROVE  Slots!Show(k, n, c)
<1>1. \A j \in Kinds, m \in Nums :
        board'[j][InternalIdToHwId(m)] =
          IF j = k /\ m = n THEN c ELSE board[j][InternalIdToHwId(m)]
  BY BoardAfterUpdate DEF Inv, Update
<1>2. \A j \in Kinds, m \in Nums :
        ShownNow'[j][m] = IF j = k /\ m = n THEN c ELSE ShownNow[j][m]
  BY <1>1, ShownNowValue DEF Ours
<1>3. ShownNow' = [ShownNow EXCEPT ![k][n] = c]
  BY <1>2, ShownNowValue
<1> QED
  BY <1>3 DEF Update, Slots!Show

LEMMA HideSlots ==
    ASSUME Inv, NEW k \in Kinds, NEW n \in Nums, Hide(k, n)
    PROVE  Slots!Withdraw(k, n)
<1>1. \A j \in Kinds, m \in Nums :
        board'[j][InternalIdToHwId(m)] =
          IF j = k /\ m = n THEN Blank ELSE board[j][InternalIdToHwId(m)]
  BY BoardAfterHide DEF Inv, Hide
<1>2. \A j \in Kinds, m \in Nums :
        ShownNow'[j][m] = IF j = k /\ m = n THEN Blank ELSE ShownNow[j][m]
  BY <1>1, ShownNowValue, ContentsAssumption DEF Ours
<1>3. ShownNow' = [ShownNow EXCEPT ![k][n] = Blank]
  BY <1>2, ShownNowValue
<1> QED
  BY <1>3 DEF Hide, Slots!Withdraw

LEMMA RemoveAllSlots ==
    ASSUME Inv, NEW k \in Kinds, RemoveAll(k)
    PROVE  Slots!WithdrawAll(k)
<1>1. \A j \in Kinds, m \in Nums :
        board'[j][InternalIdToHwId(m)] =
          IF j = k /\ m \in reserved[k]
          THEN Blank ELSE board[j][InternalIdToHwId(m)]
  BY BoardAfterRemoveAll DEF Inv
<1>2. \A m \in Nums : ~Ours(k, m)'
  BY <1>1, ContentsAssumption DEF Inv, ShownIsReserved, Ours
<1>3. \A j \in Kinds, m \in Nums :
        ShownNow'[j][m] = IF j = k THEN Blank ELSE ShownNow[j][m]
  BY <1>1, <1>2, ShownNowValue DEF Ours
<1>4. ShownNow' = [ShownNow EXCEPT ![k] = Slots!NothingShown]
  BY <1>3, ShownNowValue DEF Slots!NothingShown
<1> QED
  BY <1>4 DEF RemoveAll, Slots!WithdrawAll

LEMMA RestartSlots == Restart => Slots!Restart
<1> SUFFICES ASSUME Restart PROVE Slots!Restart
  OBVIOUS
<1>1. \A k \in Kinds, n \in Nums : ShownNow'[k][n] = Blank
  BY HwIdOfNum, ShownNowValue, ContentsAssumption DEF Restart, Ours
<1>2. ShownNow' = [k \in Kinds |-> Slots!NothingShown]
  BY <1>1, ShownNowValue DEF Slots!NothingShown
<1> QED
  BY <1>2 DEF Restart, Slots!Restart

LEMMA RawLineSlots == Inv /\ RawLine => Slots!Lose
<1> SUFFICES ASSUME Inv, RawLine PROVE Slots!Lose
  OBVIOUS
<1>1. ASSUME NEW k \in Kinds, NEW n \in Nums
      PROVE  board'[k][InternalIdToHwId(n)]
                \in {board[k][InternalIdToHwId(n)], Foreign, Blank}
  BY HwIdOfNum DEF RawLine, SetMessage, DeleteMessage, Inv, TypeOK
<1>2. \A k \in Kinds, n \in Nums : ShownNow'[k][n] \in {ShownNow[k][n], Blank}
  BY <1>1, ShownNowValue, ContentsAssumption DEF Ours
<1>3. \A k \in Kinds, n \in Nums : ShownNow'[k][n] \in Contents \cup {Blank}
  BY ShownNowValue DEF Ours
<1>4. ShownNow' \in [Kinds -> [Nums -> Contents \cup {Blank}]]
  BY <1>3, ShownNowValue
<1> QED
  BY <1>2, <1>4 DEF RawLine, Slots!Lose

LEMMA NextSlots == Inv /\ [Next]_vars => [Slots!Next]_(Slots!vars)
<1> SUFFICES ASSUME Inv, [Next]_vars PROVE [Slots!Next]_(Slots!vars)
  OBVIOUS
<1>1. CASE UNCHANGED vars
  BY <1>1 DEF vars, Slots!vars, ShownNow, Ours
<1>2. CASE Next
  BY <1>2, ReserveSlots, UpdateSlots, HideSlots, RemoveAllSlots, RestartSlots,
     RawLineSlots
     DEF Next, Remove, Slots!Next
<1> QED
  BY <1>1, <1>2

\* What a caller sees of the manager is slots granted, shown and withdrawn.
THEOREM Refinement == Spec => ImplementsSlots
<1>1. Inv /\ [Next]_vars => [Slots!Next]_(Slots!vars)
  BY NextSlots
<1> QED
  BY <1>1, InitSlots, Invariance, PTL DEF Spec, ImplementsSlots, Slots!Spec
===============================================================================
