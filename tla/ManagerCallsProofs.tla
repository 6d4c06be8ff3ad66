--------------------------- MODULE ManagerCallsProofs ---------------------------
(***************************************************************************)
(* Calls of the message manager that do not overlap take effect at once,   *)
(* for any number of messages, tasks, kinds and bits of a word, though     *)
(* each call loads and stores words and remove_all is many calls.          *)
(***************************************************************************)
EXTENDS ManagerCalls, MessageNumbersProofs

(***************************************************************************)
(* Types.  A call draws or erases a number of the bitset: the loop of      *)
(* remove_all is the only place that can be beyond the last one.           *)
(***************************************************************************)
Setting(c) == c.at \in {"loadSet", "storeSet"}

CallOk(c) ==
    /\ c.at = "find" => c.op = "reserve"
    /\ c.at \in {"test", "draw"} => c.op = "update"
    /\ c.at = "test" => ~c.made
    /\ Setting(c) => c.op = "reserve" \/ (c.op = "update" /\ c.made)
    /\ c.at = "loop" => c.op = "removeAll" /\ c.num \in 0 .. MsgCount
    /\ c.at \in {"erase", "loadReset", "storeReset"} => c.op \in {"hide", "remove", "removeAll"}
    /\ c.at \in {"loadAgain", "storeAgain"} => c.op \in {"remove", "removeAll"}
    /\ c.at # "loop" => c.num \in Nums

TypeInv == TypeOK /\ \A t \in Callers : InCall(t) => CallOk(call[t])

(***************************************************************************)
(* As long as calls have not overlapped, one task at most is in a call     *)
(* (Alone), what it has loaded is what is there, what remove_all has       *)
(* passed is gone (InStep), and what is on the board is taken (Shown).     *)
(***************************************************************************)
Alone == \A t, u \in Callers : InCall(t) /\ InCall(u) => t = u

InStep(c, bits) ==
    /\ Setting(c) => c.num \notin bits /\ (c.op = "reserve" => c.num = FindNextFree(bits))
    /\ c.at = "draw" => c.num \in bits
    /\ c.at \in {"loadAgain", "storeAgain"} => c.num \notin bits
    /\ c.at = "storeSet" => c.word = WordOf(bits, c.num) \cup {c.num}
    /\ c.at \in {"storeReset", "storeAgain"} => c.word = WordOf(bits, c.num) \ {c.num}
    /\ c.op = "removeAll" => \A m \in bits : c.num <= m

InSteps == \A t \in Callers : InCall(t) => InStep(call[t], reserved[call[t].kind])

Shown == \A k \in Kinds, n \in Nums : Atomic!Ours(k, n) => n \in Settled(k)

SoloInv == ~overlapped => Alone /\ InSteps /\ Shown
-------------------------------------------------------------------------------
\* The numbers of a message are those of the manager called by one task at a time.
LEMMA SameNumbers ==
    /\ Atomic!HwNums = HwNums /\ Atomic!Nums = Nums
    /\ AtOnce!HwNums = HwNums /\ AtOnce!Nums = Nums /\ AtOnce!NoNum = NoNum
    /\ \A n : /\ Atomic!InternalIdToHwId(n) = InternalIdToHwId(n)
              /\ AtOnce!InternalIdToHwId(n) = InternalIdToHwId(n)
    /\ \A bits : AtOnce!FindNextFree(bits) = FindNextFree(bits)
  BY DEF Atomic!HwNums, Atomic!Nums, Atomic!NJE_MIN_MSG_NUM, Atomic!NJE_MAX_MSG_NUM,
         Atomic!InternalIdToHwId, Atomic!NoNum, AtOnce!HwNums, AtOnce!Nums,
         AtOnce!NJE_MIN_MSG_NUM, AtOnce!NJE_MAX_MSG_NUM, AtOnce!InternalIdToHwId, AtOnce!NoNum,
         AtOnce!FindNextFree, AtOnce!FindFirst, FindNextFree, FindFirst,
         HwNums, Nums, NJE_MIN_MSG_NUM, NJE_MAX_MSG_NUM, InternalIdToHwId, NoNum

(***************************************************************************)
(* Calls as records.                                                       *)
(***************************************************************************)
Rec(o, a, k, n, w, m) ==
    [op |-> o, at |-> a, kind |-> k, num |-> n, word |-> w, made |-> m]

Moves(t, d) == call' = [u \in Callers |-> IF u = t THEN d ELSE call[u]]

LEMMA NoCallIsNone == NoCall \notin Call
<1>1. NoCall.op = "none"
  BY DEF NoCall
<1>2. \A c \in Call : c.op # "none"
  BY DEF Call, Ops
<1> QED
  BY <1>1, <1>2

\* A record of the right fields is a call.
LEMMA RecIsCall ==
    ASSUME NEW o \in Ops, NEW a \in Statements, NEW k \in Kinds,
           NEW n \in Nums \cup {NoNum, MsgCount}, NEW w \in SUBSET Nums, NEW m \in BOOLEAN
    PROVE  /\ Rec(o, a, k, n, w, m) \in Call
           /\ Rec(o, a, k, n, w, m).op = o /\ Rec(o, a, k, n, w, m).at = a
           /\ Rec(o, a, k, n, w, m).kind = k /\ Rec(o, a, k, n, w, m).num = n
           /\ Rec(o, a, k, n, w, m).word = w /\ Rec(o, a, k, n, w, m).made = m
  BY DEF Rec, Call

LEMMA CallFields ==
    ASSUME NEW c \in Call
    PROVE  /\ c.op \in Ops /\ c.at \in Statements /\ c.kind \in Kinds
           /\ c.num \in Nums \cup {NoNum, MsgCount} /\ c.word \in SUBSET Nums /\ c.made \in BOOLEAN
  BY DEF Call

\* What the statements change of a call.
LEMMA Changed ==
    ASSUME NEW c \in Call, NEW a, NEW n, NEW w
    PROVE  /\ [c EXCEPT !.at = a] = Rec(c.op, a, c.kind, c.num, c.word, c.made)
           /\ [c EXCEPT !.num = n] = Rec(c.op, c.at, c.kind, n, c.word, c.made)
           /\ [c EXCEPT !.num = n, !.at = a] = Rec(c.op, a, c.kind, n, c.word, c.made)
           /\ [c EXCEPT !.at = a, !.num = n] = Rec(c.op, a, c.kind, n, c.word, c.made)
           /\ [c EXCEPT !.at = a, !.made = TRUE] = Rec(c.op, a, c.kind, c.num, c.word, TRUE)
           /\ [c EXCEPT !.at = a, !.word = w] = Rec(c.op, a, c.kind, c.num, w, c.made)
<1>1. PICK o \in Ops, s \in Statements, k \in Kinds, m \in Nums \cup {NoNum, MsgCount},
           v \in SUBSET Nums, x \in BOOLEAN :
         c = [op |-> o, at |-> s, kind |-> k, num |-> m, word |-> v, made |-> x]
  BY DEF Call
<1>2. [c EXCEPT !.at = a] = Rec(c.op, a, c.kind, c.num, c.word, c.made)
  BY <1>1 DEF Rec
<1>3. [c EXCEPT !.num = n] = Rec(c.op, c.at, c.kind, n, c.word, c.made)
  BY <1>1 DEF Rec
<1>4. [c EXCEPT !.num = n, !.at = a] = Rec(c.op, a, c.kind, n, c.word, c.made)
  <2>1. PICK d : d = [c EXCEPT !.num = n]
    OBVIOUS
  <2>2. d = [op |-> o, at |-> s, kind |-> k, num |-> n, word |-> v, made |-> x]
    BY <2>1, <1>1
  <2>3. [d EXCEPT !.at = a] = Rec(c.op, a, c.kind, n, c.word, c.made)
    BY ONLY <2>2, <1>1 DEF Rec
  <2>4. [c EXCEPT !.num = n, !.at = a] = [[c EXCEPT !.num = n] EXCEPT !.at = a]
    BY <1>1
  <2> QED
    BY <2>1, <2>3, <2>4
<1>5. [c EXCEPT !.at = a, !.num = n] = Rec(c.op, a, c.kind, n, c.word, c.made)
  <2>1. PICK d : d = [c EXCEPT !.at = a]
    OBVIOUS
  <2>2. d = [op |-> o, at |-> a, kind |-> k, num |-> m, word |-> v, made |-> x]
    BY <2>1, <1>1
  <2>3. [d EXCEPT !.num = n] = Rec(c.op, a, c.kind, n, c.word, c.made)
    BY ONLY <2>2, <1>1 DEF Rec
  <2>4. [c EXCEPT !.at = a, !.num = n] = [[c EXCEPT !.at = a] EXCEPT !.num = n]
    BY <1>1
  <2> QED
    BY <2>1, <2>3, <2>4
<1>6. [c EXCEPT !.at = a, !.made = TRUE] = Rec(c.op, a, c.kind, c.num, c.word, TRUE)
  <2>1. PICK d : d = [c EXCEPT !.at = a]
    OBVIOUS
  <2>2. d = [op |-> o, at |-> a, kind |-> k, num |-> m, word |-> v, made |-> x]
    BY <2>1, <1>1
  <2>3. \A y : [d EXCEPT !.made = y] = Rec(c.op, a, c.kind, c.num, c.word, y)
    BY ONLY <2>2, <1>1 DEF Rec
  <2>4. [c EXCEPT !.at = a, !.made = TRUE] = [[c EXCEPT !.at = a] EXCEPT !.made = TRUE]
    BY <1>1
  <2> QED
    BY <2>1, <2>3, <2>4
<1>7. [c EXCEPT !.at = a, !.word = w] = Rec(c.op, a, c.kind, c.num, w, c.made)
  <2>1. PICK d : d = [c EXCEPT !.at = a]
    OBVIOUS
  <2>2. d = [op |-> o, at |-> a, kind |-> k, num |-> m, word |-> v, made |-> x]
    BY <2>1, <1>1
  <2>3. [d EXCEPT !.word = w] = Rec(c.op, a, c.kind, c.num, w, c.made)
    BY ONLY <2>2, <1>1 DEF Rec
  <2>4. [c EXCEPT !.at = a, !.word = w] = [[c EXCEPT !.at = a] EXCEPT !.word = w]
    BY <1>1
  <2> QED
    BY <2>1, <2>3, <2>4
<1> QED
  BY <1>2, <1>3, <1>4, <1>5, <1>6, <1>7

\* The task that runs is in a call.
LEMMA RunningIsCall ==
    ASSUME TypeOK, NEW t \in Callers, InCall(t)
    PROVE  call[t] \in Call /\ reserved[call[t].kind] \in SUBSET Nums
<1>1. call[t] \in Call
  BY DEF TypeOK, InCall
<1> QED
  BY <1>1, CallFields DEF TypeOK

\* What each form of statement does to the call of its task.
LEMMA Moved ==
    ASSUME TypeOK, NEW t \in Callers, InCall(t), NEW c, c = call[t]
    PROVE  /\ \A a : Goto(t, a) => Moves(t, Rec(c.op, a, c.kind, c.num, c.word, c.made))
           /\ Return(t) => Moves(t, NoCall)
           /\ \A n, a : call' = [call EXCEPT ![t].num = n, ![t].at = a] =>
                        Moves(t, Rec(c.op, a, c.kind, n, c.word, c.made))
           /\ \A n, a : call' = [call EXCEPT ![t].at = a, ![t].num = n] =>
                        Moves(t, Rec(c.op, a, c.kind, n, c.word, c.made))
           /\ \A n : call' = [call EXCEPT ![t].num = n] =>
                        Moves(t, Rec(c.op, c.at, c.kind, n, c.word, c.made))
           /\ \A a : call' = [call EXCEPT ![t].at = a, ![t].made = TRUE] =>
                        Moves(t, Rec(c.op, a, c.kind, c.num, c.word, TRUE))
           /\ \A a, w : call' = [call EXCEPT ![t].at = a, ![t].word = w] =>
                        Moves(t, Rec(c.op, a, c.kind, c.num, w, c.made))
<1>1. c \in Call /\ DOMAIN call = Callers
  BY RunningIsCall DEF TypeOK
<1>2. ASSUME NEW a, Goto(t, a) PROVE Moves(t, Rec(c.op, a, c.kind, c.num, c.word, c.made))
  <2>1. Moves(t, [c EXCEPT !.at = a])
    BY <1>1, <1>2 DEF Goto, Moves
  <2> QED
    BY <2>1, <1>1, Changed
<1>3. Return(t) => Moves(t, NoCall)
  BY <1>1 DEF Return, Moves, TypeOK
<1>4. ASSUME NEW n, NEW a, call' = [call EXCEPT ![t].num = n, ![t].at = a]
      PROVE  Moves(t, Rec(c.op, a, c.kind, n, c.word, c.made))
  <2>1. Moves(t, [c EXCEPT !.num = n, !.at = a])
    BY <1>1, <1>4 DEF Moves
  <2> QED
    BY <2>1, <1>1, Changed
<1>5. ASSUME NEW n, NEW a, call' = [call EXCEPT ![t].at = a, ![t].num = n]
      PROVE  Moves(t, Rec(c.op, a, c.kind, n, c.word, c.made))
  <2>1. Moves(t, [c EXCEPT !.at = a, !.num = n])
    BY <1>1, <1>5 DEF Moves
  <2> QED
    BY <2>1, <1>1, Changed
<1>6. ASSUME NEW n, call' = [call EXCEPT ![t].num = n]
      PROVE  Moves(t, Rec(c.op, c.at, c.kind, n, c.word, c.made))
  <2>1. Moves(t, [c EXCEPT !.num = n])
    BY <1>1, <1>6 DEF Moves
  <2> QED
    BY <2>1, <1>1, Changed
<1>7. ASSUME NEW a, call' = [call EXCEPT ![t].at = a, ![t].made = TRUE]
      PROVE  Moves(t, Rec(c.op, a, c.kind, c.num, c.word, TRUE))
  <2>1. Moves(t, [c EXCEPT !.at = a, !.made = TRUE])
    BY <1>1, <1>7 DEF Moves
  <2> QED
    BY <2>1, <1>1, Changed
<1>8. ASSUME NEW a, NEW w, call' = [call EXCEPT ![t].at = a, ![t].word = w]
      PROVE  Moves(t, Rec(c.op, a, c.kind, c.num, w, c.made))
  <2>1. Moves(t, [c EXCEPT !.at = a, !.word = w])
    BY <1>1, <1>8 DEF Moves
  <2> QED
    BY <2>1, <1>1, Changed
<1> QED
  BY <1>2, <1>3, <1>4, <1>5, <1>6, <1>7, <1>8
-------------------------------------------------------------------------------
(***************************************************************************)
(* Storing a word that was loaded with or without n, while nobody else     *)
(* changed the list, adds or removes n.                                    *)
(***************************************************************************)
LEMMA WordStored ==
    ASSUME NEW bits, NEW n
    PROVE  /\ StoreWord(bits, n, WordOf(bits, n) \cup {n}) = bits \cup {n}
           /\ StoreWord(bits, n, WordOf(bits, n) \ {n}) = bits \ {n}
  BY DEF StoreWord, WordOf

\* Loaded and stored words are sets of bits.
LEMMA WordsAreBits ==
    ASSUME NEW bits \in SUBSET Nums, NEW n \in Nums, NEW w \in SUBSET Nums
    PROVE  /\ StoreWord(bits, n, w) \in SUBSET Nums
           /\ WordOf(bits, n) \cup {n} \in SUBSET Nums
           /\ WordOf(bits, n) \ {n} \in SUBSET Nums
  BY DEF StoreWord, WordOf

\* The statements that leave the lists as they are.
LEMMA SameLists ==
    ASSUME TypeOK, NEW t \in Callers, InCall(t), UNCHANGED reserved
    PROVE  /\ reserved' \in [Kinds -> SUBSET Nums]
           /\ \A j \in Kinds : j # call[t].kind => reserved'[j] = reserved[j]
           /\ reserved'[call[t].kind] = reserved[call[t].kind]
  BY DEF TypeOK

\* The statements that store a word.
LEMMA OneList ==
    ASSUME TypeOK, NEW t \in Callers, InCall(t), NEW bits \in SUBSET Nums,
           reserved' = [reserved EXCEPT ![call[t].kind] = bits]
    PROVE  /\ reserved' \in [Kinds -> SUBSET Nums]
           /\ \A j \in Kinds : j # call[t].kind => reserved'[j] = reserved[j]
           /\ reserved'[call[t].kind] = bits
<1>1. call[t].kind \in Kinds
  BY RunningIsCall, CallFields
<1> QED
  BY <1>1 DEF TypeOK
-------------------------------------------------------------------------------
(***************************************************************************)
(* One statement of a call: it moves its task to d, which is a call of the *)
(* same kind or none (Passes), and, if the call was in step with the list, *)
(* it still is (Keeps).  Left is the list as far as the call has taken     *)
(* effect.                                                                 *)
(***************************************************************************)
Unsettled(c) ==
    \/ c.at = "draw" /\ c.made
    \/ c.at \in {"loadReset", "storeReset"}

Left(c, bits) == IF c # NoCall /\ Unsettled(c) THEN bits \ {c.num} ELSE bits

Passes(t, d) ==
    /\ d \in Call \cup {NoCall}
    /\ Moves(t, d)
    /\ d # NoCall => CallOk(d) /\ d.kind = call[t].kind
    /\ reserved' \in [Kinds -> SUBSET Nums]
    /\ \A j \in Kinds : j # call[t].kind => reserved'[j] = reserved[j]
    /\ overlapped' = overlapped

Bits(t) == reserved[call[t].kind]
BitsNext(t) == reserved'[call[t].kind]

Keeps(t, d) == d # NoCall => InStep(d, BitsNext(t))

\* A statement that changes nothing of what has taken effect.
Silent(t, d) ==
    /\ board' = board
    /\ InStep(call[t], Bits(t)) => Keeps(t, d) /\ Left(d, BitsNext(t)) = Left(call[t], Bits(t))

LEMMA FindPasses ==
    ASSUME TypeInv, NEW t \in Callers, Find(t)
    PROVE  \E d : Passes(t, d) /\ Silent(t, d)
<1> DEFINE c == call[t]
<1> DEFINE n == FindNextFree(reserved[c.kind])
<1>1. InCall(t) /\ c.at = "find" /\ c.op = "reserve" /\ TypeOK /\ UNCHANGED <<reserved, board, overlapped>>
  BY DEF Find, At, TypeInv, CallOk
<1>2. c \in Call /\ reserved[c.kind] \in SUBSET Nums
  BY <1>1, RunningIsCall
<1>3. /\ reserved' \in [Kinds -> SUBSET Nums]
      /\ \A j \in Kinds : j # c.kind => reserved'[j] = reserved[j]
      /\ reserved'[c.kind] = reserved[c.kind]
  BY <1>1, SameLists
<1>4. Left(c, Bits(t)) = Bits(t)
  BY <1>1 DEF Left, Unsettled
<1>5. CASE n < 0
  <2>1. Moves(t, NoCall)
    BY <1>1, <1>5, Moved DEF Find
  <2> QED
    BY <2>1, <1>1, <1>3, <1>4 DEF Passes, Silent, Keeps, Left, Bits, BitsNext
<1>6. CASE ~ (n < 0)
  <2> DEFINE d == Rec("reserve", "loadSet", c.kind, n, c.word, c.made)
  <2>1. n \in Nums /\ n \notin Bits(t)
    BY <1>2, <1>6, FindNextFreeFacts, MsgCountAssumption DEF Nums, NoNum, Bits
  <2>2. Moves(t, d)
    <3>1. call' = [call EXCEPT ![t].num = n, ![t].at = "loadSet"]
      BY <1>6 DEF Find
    <3> QED
      BY <3>1, <1>1, Moved
  <2>3. /\ d \in Call /\ d.op = "reserve" /\ d.at = "loadSet" /\ d.kind = c.kind
        /\ d.num = n /\ d # NoCall
    BY <1>2, <2>1, CallFields, RecIsCall, NoCallIsNone DEF Ops, Statements
  <2> HIDE DEF d
  <2>4. Left(d, BitsNext(t)) = Left(c, Bits(t))
    BY <2>3, <1>3, <1>4 DEF Left, Unsettled, Bits, BitsNext
  <2>5. CallOk(d) /\ InStep(d, BitsNext(t))
    BY <2>1, <2>3, <1>3 DEF CallOk, Setting, InStep, Bits, BitsNext
  <2> QED
    BY <1>1, <1>3, <2>2, <2>3, <2>4, <2>5 DEF Passes, Silent, Keeps
<1> QED
  BY <1>5, <1>6

\* What a statement that leaves the list and the board alone has to show.
LEMMA StandsStill ==
    ASSUME TypeInv, NEW t \in Callers, InCall(t), UNCHANGED <<reserved, board, overlapped>>,
           NEW d \in Call, Moves(t, d), d.kind = call[t].kind, CallOk(d),
           InStep(call[t], Bits(t)) =>
              /\ InStep(d, Bits(t))
              /\ Unsettled(d) <=> Unsettled(call[t])
              /\ Unsettled(d) => d.num = call[t].num
    PROVE  Passes(t, d) /\ Silent(t, d)
<1>1. d # NoCall /\ call[t] # NoCall
  BY NoCallIsNone DEF InCall
<1>2. /\ reserved' \in [Kinds -> SUBSET Nums]
      /\ \A j \in Kinds : j # call[t].kind => reserved'[j] = reserved[j]
      /\ BitsNext(t) = Bits(t)
  BY SameLists DEF TypeInv, Bits, BitsNext
<1>3. Passes(t, d)
  BY <1>1, <1>2 DEF Passes
<1>4. Silent(t, d)
  BY <1>1, <1>2 DEF Silent, Keeps, Left
<1> QED
  BY <1>3, <1>4

LEMMA TestPasses ==
    ASSUME TypeInv, NEW t \in Callers, Test(t)
    PROVE  \E d : Passes(t, d) /\ Silent(t, d)
<1> DEFINE c == call[t]
<1>1. InCall(t) /\ c.at = "test" /\ TypeOK /\ CallOk(c) /\ UNCHANGED <<reserved, board, overlapped>>
  BY DEF Test, At, TypeInv
<1>2. c.op = "update" /\ ~c.made /\ c.num \in Nums
  BY <1>1 DEF CallOk
<1>3. c \in Call
  BY <1>1, RunningIsCall
<1>4. CASE c.num \in Bits(t)
  <2> DEFINE d == Rec("update", "draw", c.kind, c.num, c.word, c.made)
  <2>1. Moves(t, d)
    BY <1>1, <1>2, <1>4, Moved DEF Test, Bits
  <2>2. /\ d \in Call /\ d.op = "update" /\ d.at = "draw" /\ d.kind = c.kind
        /\ d.num = c.num /\ d.made = c.made
    BY <1>2, <1>3, CallFields, RecIsCall DEF Ops, Statements
  <2> HIDE DEF d
  <2>3. CallOk(d) /\ InStep(d, Bits(t)) /\ ~Unsettled(d) /\ ~Unsettled(c)
    BY <1>1, <1>2, <1>4, <2>2 DEF CallOk, Setting, InStep, Unsettled
  <2> QED
    BY <1>1, <2>1, <2>2, <2>3, StandsStill
<1>5. CASE c.num \notin Bits(t)
  <2> DEFINE d == Rec("update", "loadSet", c.kind, c.num, c.word, TRUE)
  <2>1. Moves(t, d)
    <3>1. call' = [call EXCEPT ![t].at = "loadSet", ![t].made = TRUE]
      BY <1>5 DEF Test, Bits
    <3> QED
      BY <3>1, <1>1, <1>2, Moved
  <2>2. /\ d \in Call /\ d.op = "update" /\ d.at = "loadSet" /\ d.kind = c.kind
        /\ d.num = c.num /\ d.made
    <3>1. /\ "update" \in Ops /\ "loadSet" \in Statements /\ c.kind \in Kinds
          /\ c.num \in Nums \cup {NoNum, MsgCount} /\ c.word \in SUBSET Nums /\ TRUE \in BOOLEAN
      BY <1>3, CallFields DEF Ops, Statements
    <3>2. d \in Call /\ d.op = "update" /\ d.at = "loadSet" /\ d.kind = c.kind /\ d.num = c.num
      BY ONLY <3>1 DEF Rec, Call
    <3>3. d.made
      BY DEF Rec
    <3> QED
      BY <3>2, <3>3
  <2> HIDE DEF d
  <2>3. CallOk(d) /\ InStep(d, Bits(t)) /\ ~Unsettled(d) /\ ~Unsettled(c)
    BY <1>1, <1>2, <1>5, <2>2 DEF CallOk, Setting, InStep, Unsettled
  <2> QED
    BY <1>1, <2>1, <2>2, <2>3, StandsStill
<1> QED
  BY <1>4, <1>5

LEMMA LoadSetPasses ==
    ASSUME TypeInv, NEW t \in Callers, LoadSet(t)
    PROVE  \E d : Passes(t, d) /\ Silent(t, d)
<1> DEFINE c == call[t]
<1> DEFINE w == WordOf(Bits(t), c.num) \cup {c.num}
<1> DEFINE d == Rec(c.op, "storeSet", c.kind, c.num, w, c.made)
<1>1. InCall(t) /\ c.at = "loadSet" /\ TypeOK /\ CallOk(c) /\ UNCHANGED <<reserved, board, overlapped>>
  BY DEF LoadSet, At, TypeInv
<1>2. (c.op = "reserve" \/ (c.op = "update" /\ c.made)) /\ c.num \in Nums
  BY <1>1 DEF CallOk, Setting
<1>3. c \in Call /\ Bits(t) \in SUBSET Nums
  BY <1>1, RunningIsCall DEF Bits
<1>4. w \in SUBSET Nums
  BY <1>2, <1>3, WordsAreBits
<1>5. Moves(t, d)
  <2>1. call' = [call EXCEPT ![t].at = "storeSet", ![t].word = w]
    BY DEF LoadSet, Bits
  <2> HIDE DEF w
  <2> QED
    BY <2>1, <1>1, Moved
<1>6. /\ d \in Call /\ d.op = c.op /\ d.at = "storeSet" /\ d.kind = c.kind
      /\ d.num = c.num /\ d.made = c.made /\ d.word = w
  <2> HIDE DEF w
  <2> QED
    BY <1>2, <1>3, <1>4, CallFields, RecIsCall DEF Statements
<1> HIDE DEF d
<1>7. CallOk(d) /\ ~Unsettled(d) /\ ~Unsettled(c)
  BY <1>1, <1>2, <1>6 DEF CallOk, Setting, Unsettled
<1>8. InStep(c, Bits(t)) => InStep(d, Bits(t))
  BY <1>1, <1>2, <1>6 DEF InStep, Setting
<1> QED
  BY <1>1, <1>5, <1>6, <1>7, <1>8, StandsStill

LEMMA LoopPasses ==
    ASSUME TypeInv, NEW t \in Callers, Loop(t)
    PROVE  \E d : Passes(t, d) /\ Silent(t, d)
<1> DEFINE c == call[t]
<1>1. InCall(t) /\ c.at = "loop" /\ TypeOK /\ CallOk(c) /\ UNCHANGED <<reserved, board, overlapped>>
  BY DEF Loop, At, TypeInv
<1>2. c.op = "removeAll" /\ c.num \in 0 .. MsgCount
  BY <1>1 DEF CallOk
<1>3. c \in Call /\ Bits(t) \in SUBSET Nums
  BY <1>1, RunningIsCall DEF Bits
<1>4. CASE c.num >= MsgCount
  <2>1. Moves(t, NoCall)
    BY <1>1, <1>4, Moved DEF Loop
  <2>2. Left(c, Bits(t)) = Bits(t)
    BY <1>1 DEF Left, Unsettled
  <2>3. /\ reserved' \in [Kinds -> SUBSET Nums]
        /\ \A j \in Kinds : j # c.kind => reserved'[j] = reserved[j]
        /\ reserved'[c.kind] = reserved[c.kind]
    BY <1>1, SameLists
  <2> QED
    BY <2>1, <1>1, <2>2, <2>3 DEF Passes, Silent, Keeps, Left, Bits, BitsNext
<1>5. CASE ~ (c.num >= MsgCount) /\ c.num \in Bits(t)
  <2> DEFINE d == Rec("removeAll", "erase", c.kind, c.num, c.word, c.made)
  <2>1. Moves(t, d)
    BY <1>1, <1>2, <1>5, Moved DEF Loop, Bits
  <2>2. /\ d \in Call /\ d.op = "removeAll" /\ d.at = "erase" /\ d.kind = c.kind
        /\ d.num = c.num
    <3>1. /\ "removeAll" \in Ops /\ "erase" \in Statements /\ c.kind \in Kinds
          /\ c.num \in Nums \cup {NoNum, MsgCount} /\ c.word \in SUBSET Nums /\ c.made \in BOOLEAN
      BY <1>3, CallFields DEF Ops, Statements
    <3> QED
      BY ONLY <3>1, RecIsCall
  <2>3. c.num \in Nums
    BY <1>3, <1>5
  <2> HIDE DEF d
  <2>4. CallOk(d) /\ ~Unsettled(d) /\ ~Unsettled(c)
    BY <1>1, <2>2, <2>3 DEF CallOk, Setting, Unsettled
  <2>5. InStep(c, Bits(t)) => InStep(d, Bits(t))
    BY <1>1, <1>2, <2>2 DEF InStep, Setting
  <2> QED
    BY <1>1, <2>1, <2>2, <2>4, <2>5, StandsStill
<1>6. CASE ~ (c.num >= MsgCount) /\ c.num \notin Bits(t)
  <2> DEFINE d == Rec("removeAll", "loop", c.kind, c.num + 1, c.word, c.made)
  <2>1. Moves(t, d)
    <3>1. call' = [call EXCEPT ![t].num = c.num + 1]
      BY <1>6 DEF Loop, Bits
    <3> QED
      BY <3>1, <1>1, <1>2, Moved
  <2>2. c.num + 1 \in Nums \cup {NoNum, MsgCount} /\ c.num + 1 \in 0 .. MsgCount
    BY <1>2, <1>6, MsgCountAssumption DEF Nums
  <2>3. /\ d \in Call /\ d.op = "removeAll" /\ d.at = "loop" /\ d.kind = c.kind
        /\ d.num = c.num + 1
    <3>1. /\ "removeAll" \in Ops /\ "loop" \in Statements /\ c.kind \in Kinds
          /\ c.word \in SUBSET Nums /\ c.made \in BOOLEAN
      BY <1>3, CallFields DEF Ops, Statements
    <3> QED
      BY <2>2, <3>1, RecIsCall
  <2> HIDE DEF d
  <2>4. CallOk(d) /\ ~Unsettled(d) /\ ~Unsettled(c)
    BY <1>1, <2>2, <2>3 DEF CallOk, Setting, Unsettled
  <2>5. InStep(c, Bits(t)) => InStep(d, Bits(t))
    <3> SUFFICES ASSUME InStep(c, Bits(t)), NEW m \in Bits(t) PROVE d.num <= m
      BY <1>1, <1>2, <2>3 DEF InStep, Setting
    <3>1. c.num <= m /\ c.num # m /\ m \in Nums
      BY <1>2, <1>3, <1>6 DEF InStep
    <3> QED
      BY <3>1, <1>2, <2>3, MsgCountAssumption DEF Nums
  <2> QED
    BY <1>1, <2>1, <2>3, <2>4, <2>5, StandsStill
<1> QED
  BY <1>4, <1>5, <1>6

LEMMA LoadResetPasses ==
    ASSUME TypeInv, NEW t \in Callers, LoadReset(t)
    PROVE  \E d : Passes(t, d) /\ Silent(t, d)
<1> DEFINE c == call[t]
<1> DEFINE w == WordOf(Bits(t), c.num) \ {c.num}
<1>1. InCall(t) /\ c.at \in {"loadReset", "loadAgain"} /\ TypeOK /\ CallOk(c)
  BY DEF LoadReset, At, TypeInv
<1>2. UNCHANGED <<reserved, board, overlapped>>
  BY DEF LoadReset
<1>3. c.op \in {"hide", "remove", "removeAll"} /\ c.num \in Nums
  BY <1>1 DEF CallOk
<1>4. c \in Call /\ Bits(t) \in SUBSET Nums
  BY <1>1, RunningIsCall DEF Bits
<1>5. w \in SUBSET Nums
  BY <1>3, <1>4, WordsAreBits
<1>6. CASE c.at = "loadReset"
  <2> DEFINE d == Rec(c.op, "storeReset", c.kind, c.num, w, c.made)
  <2>1. Moves(t, d)
    <3>1. call' = [call EXCEPT ![t].at = "storeReset", ![t].word = w]
      BY <1>6 DEF LoadReset, At, Bits
    <3> HIDE DEF w
    <3> QED
      BY <3>1, <1>1, Moved
  <2>2. /\ d \in Call /\ d.op = c.op /\ d.at = "storeReset" /\ d.kind = c.kind
        /\ d.num = c.num /\ d.word = w
    <3> HIDE DEF w
    <3> QED
      BY <1>3, <1>4, <1>5, CallFields, RecIsCall DEF Statements
  <2> HIDE DEF d
  <2>3. CallOk(d) /\ Unsettled(d) /\ Unsettled(c)
    BY <1>3, <1>6, <2>2 DEF CallOk, Setting, Unsettled
  <2>4. InStep(c, Bits(t)) => InStep(d, Bits(t))
    BY <1>6, <2>2 DEF InStep, Setting
  <2> QED
    BY <1>1, <1>2, <2>1, <2>2, <2>3, <2>4, StandsStill
<1>7. CASE c.at = "loadAgain"
  <2> DEFINE d == Rec(c.op, "storeAgain", c.kind, c.num, w, c.made)
  <2>1. Moves(t, d)
    <3>1. call' = [call EXCEPT ![t].at = "storeAgain", ![t].word = w]
      BY <1>7 DEF LoadReset, At, Bits
    <3> HIDE DEF w
    <3> QED
      BY <3>1, <1>1, Moved
  <2>2. /\ d \in Call /\ d.op = c.op /\ d.at = "storeAgain" /\ d.kind = c.kind
        /\ d.num = c.num /\ d.word = w
    <3> HIDE DEF w
    <3> QED
      BY <1>3, <1>4, <1>5, CallFields, RecIsCall DEF Statements
  <2> HIDE DEF d
  <2>3. CallOk(d) /\ ~Unsettled(d) /\ ~Unsettled(c)
    BY <1>1, <1>3, <1>7, <2>2 DEF CallOk, Setting, Unsettled
  <2>4. InStep(c, Bits(t)) => InStep(d, Bits(t))
    BY <1>7, <2>2 DEF InStep, Setting
  <2> QED
    BY <1>1, <1>2, <2>1, <2>2, <2>3, <2>4, StandsStill
<1> QED
  BY <1>1, <1>6, <1>7

(***************************************************************************)
(* The three statements with which a call takes effect: reserve stores the *)
(* word, update draws, and hide erases.                                    *)
(***************************************************************************)
Reserves(t, d) ==
    /\ board' = board
    /\ call[t].num \in Nums
    /\ InStep(call[t], Bits(t)) =>
          /\ Keeps(t, d)
          /\ call[t].num = FindNextFree(Left(call[t], Bits(t)))
          /\ Left(d, BitsNext(t)) = Left(call[t], Bits(t)) \cup {call[t].num}

Draws(t, d) ==
    /\ call[t].num \in Nums
    /\ board' = Atomic!SetMessage(board, call[t].kind, InternalIdToHwId(call[t].num), t)
    /\ InStep(call[t], Bits(t)) =>
          /\ Keeps(t, d)
          /\ Left(d, BitsNext(t)) = Left(call[t], Bits(t)) \cup {call[t].num}

Erases(t, d) ==
    /\ call[t].num \in Nums
    /\ board' = Atomic!DeleteMessage(board, call[t].kind, InternalIdToHwId(call[t].num))
    /\ InStep(call[t], Bits(t)) =>
          /\ Keeps(t, d)
          /\ Left(d, BitsNext(t)) = Left(call[t], Bits(t)) \ {call[t].num}

LEMMA StoreSetPasses ==
    ASSUME TypeInv, NEW t \in Callers, StoreSet(t)
    PROVE  \E d : Passes(t, d) /\ (Silent(t, d) \/ Reserves(t, d))
<1> DEFINE c == call[t]
<1> DEFINE stored == StoreWord(Bits(t), c.num, c.word)
<1>1. InCall(t) /\ c.at = "storeSet" /\ TypeOK /\ CallOk(c)
  BY DEF StoreSet, At, TypeInv
<1>2. UNCHANGED <<board, overlapped>>
  BY DEF StoreSet
<1>3. (c.op = "reserve" \/ (c.op = "update" /\ c.made)) /\ c.num \in Nums
  BY <1>1 DEF CallOk, Setting
<1>4. c \in Call /\ Bits(t) \in SUBSET Nums
  BY <1>1, RunningIsCall DEF Bits
<1>5. c.kind \in Kinds /\ c.word \in SUBSET Nums
  BY <1>4, CallFields
<1>6. stored \in SUBSET Nums
  BY <1>3, <1>4, <1>5, WordsAreBits
<1>7. reserved' = [reserved EXCEPT ![c.kind] = stored]
  BY DEF StoreSet, Bits
<1>8. /\ reserved' \in [Kinds -> SUBSET Nums]
      /\ \A j \in Kinds : j # c.kind => reserved'[j] = reserved[j]
      /\ BitsNext(t) = stored
  <2> HIDE DEF stored
  <2>1. TypeOK /\ InCall(t)
    BY <1>1
  <2> QED
    BY <2>1, <1>6, <1>7, OneList DEF BitsNext
<1>9. InStep(c, Bits(t)) => stored = Bits(t) \cup {c.num} /\ c.num \notin Bits(t)
  BY <1>1, WordStored DEF InStep, Setting
<1>10. Left(c, Bits(t)) = Bits(t)
  BY <1>1 DEF Left, Unsettled
<1> HIDE DEF stored
<1>11. CASE c.op = "reserve"
  <2>1. Moves(t, NoCall)
    BY <1>1, <1>11, Moved DEF StoreSet
  <2>2. Passes(t, NoCall)
    BY <1>2, <1>8, <2>1 DEF Passes
  <2>3. InStep(c, Bits(t)) => c.num = FindNextFree(Bits(t))
    BY <1>1, <1>11 DEF InStep, Setting
  <2>4. Left(NoCall, BitsNext(t)) = stored
    BY <1>8 DEF Left
  <2>5. Reserves(t, NoCall)
    BY <1>2, <1>3, <1>9, <1>10, <2>3, <2>4 DEF Reserves, Keeps
  <2> QED
    BY <2>2, <2>5
<1>12. CASE c.op # "reserve"
  <2> DEFINE d == Rec(c.op, "draw", c.kind, c.num, c.word, c.made)
  <2>1. Moves(t, d)
    BY <1>1, <1>12, Moved DEF StoreSet
  <2>2. /\ d \in Call /\ d.op = c.op /\ d.at = "draw" /\ d.kind = c.kind
        /\ d.num = c.num /\ d.made = c.made
    BY <1>3, <1>4, CallFields, RecIsCall DEF Statements
  <2> HIDE DEF d
  <2>3. d # NoCall /\ CallOk(d) /\ Unsettled(d)
    BY <1>3, <1>12, <2>2, NoCallIsNone DEF CallOk, Setting, Unsettled
  <2>4. InStep(c, Bits(t)) => InStep(d, BitsNext(t))
    BY <1>3, <1>8, <1>9, <1>12, <2>2 DEF InStep, Setting
  <2>5. Left(d, BitsNext(t)) = stored \ {c.num}
    BY <1>8, <2>2, <2>3 DEF Left
  <2>6. Silent(t, d)
    BY <1>2, <1>9, <1>10, <2>4, <2>5 DEF Silent, Keeps
  <2>7. Passes(t, d)
    BY <1>2, <1>8, <2>1, <2>2, <2>3 DEF Passes
  <2> QED
    BY <2>6, <2>7
<1> QED
  BY <1>11, <1>12

LEMMA DrawPasses ==
    ASSUME TypeInv, NEW t \in Callers, Draw(t)
    PROVE  \E d : Passes(t, d) /\ Draws(t, d)
<1> DEFINE c == call[t]
<1>1. InCall(t) /\ c.at = "draw" /\ TypeOK /\ CallOk(c) /\ UNCHANGED <<reserved, overlapped>>
  BY DEF Draw, At, TypeInv
<1>2. c.num \in Nums
  BY <1>1 DEF CallOk
<1>3. Moves(t, NoCall)
  BY <1>1, Moved DEF Draw
<1>4. /\ reserved' \in [Kinds -> SUBSET Nums]
      /\ \A j \in Kinds : j # c.kind => reserved'[j] = reserved[j]
      /\ BitsNext(t) = Bits(t)
  BY <1>1, SameLists DEF Bits, BitsNext
<1>5. Passes(t, NoCall)
  BY <1>1, <1>3, <1>4 DEF Passes
<1>6. InStep(c, Bits(t)) => c.num \in Bits(t)
  BY <1>1 DEF InStep
<1>7. InStep(c, Bits(t)) => Bits(t) = Left(c, Bits(t)) \cup {c.num}
  BY <1>6 DEF Left
<1>8. Left(NoCall, BitsNext(t)) = Bits(t)
  BY <1>4 DEF Left
<1>9. Draws(t, NoCall)
  BY <1>2, <1>7, <1>8 DEF Draw, Draws, Keeps
<1> QED
  BY <1>5, <1>9

LEMMA ErasePasses ==
    ASSUME TypeInv, NEW t \in Callers, Erase(t)
    PROVE  \E d : Passes(t, d) /\ Erases(t, d)
<1> DEFINE c == call[t]
<1> DEFINE d == Rec(c.op, "loadReset", c.kind, c.num, c.word, c.made)
<1>1. InCall(t) /\ c.at = "erase" /\ TypeOK /\ CallOk(c) /\ UNCHANGED <<reserved, overlapped>>
  BY DEF Erase, At, TypeInv
<1>2. c.num \in Nums /\ c.op \in {"hide", "remove", "removeAll"}
  BY <1>1 DEF CallOk
<1>3. c \in Call
  BY <1>1, RunningIsCall
<1>4. Moves(t, d)
  BY <1>1, Moved DEF Erase
<1>5. /\ d \in Call /\ d.op = c.op /\ d.at = "loadReset" /\ d.kind = c.kind
      /\ d.num = c.num
  BY <1>2, <1>3, CallFields, RecIsCall DEF Statements
<1> HIDE DEF d
<1>6. /\ reserved' \in [Kinds -> SUBSET Nums]
      /\ \A j \in Kinds : j # c.kind => reserved'[j] = reserved[j]
      /\ BitsNext(t) = Bits(t)
  BY <1>1, SameLists DEF Bits, BitsNext
<1>7. d # NoCall /\ CallOk(d) /\ Unsettled(d) /\ ~Unsettled(c)
  BY <1>1, <1>2, <1>5, NoCallIsNone DEF CallOk, Setting, Unsettled
<1>8. InStep(c, Bits(t)) => InStep(d, BitsNext(t))
  BY <1>5, <1>6 DEF InStep, Setting
<1>9. Left(c, Bits(t)) = Bits(t) /\ Left(d, BitsNext(t)) = Bits(t) \ {c.num}
  BY <1>5, <1>6, <1>7 DEF Left
<1>10. Erases(t, d)
  BY <1>2, <1>8, <1>9 DEF Erase, Erases, Keeps
<1>11. Passes(t, d)
  BY <1>1, <1>4, <1>5, <1>6, <1>7 DEF Passes
<1> QED
  BY <1>10, <1>11

LEMMA StoreResetPasses ==
    ASSUME TypeInv, NEW t \in Callers, StoreReset(t)
    PROVE  \E d : Passes(t, d) /\ Silent(t, d)
<1> DEFINE c == call[t]
<1> DEFINE stored == StoreWord(Bits(t), c.num, c.word)
<1>1. InCall(t) /\ c.at \in {"storeReset", "storeAgain"} /\ TypeOK /\ CallOk(c)
  BY DEF StoreReset, At, TypeInv
<1>2. UNCHANGED <<board, overlapped>>
  BY DEF StoreReset
<1>3. c.op \in {"hide", "remove", "removeAll"} /\ c.num \in Nums
  BY <1>1 DEF CallOk
<1>4. c \in Call /\ Bits(t) \in SUBSET Nums
  BY <1>1, RunningIsCall DEF Bits
<1>5. c.kind \in Kinds /\ c.word \in SUBSET Nums
  BY <1>4, CallFields
<1>6. stored \in SUBSET Nums
  BY <1>3, <1>4, <1>5, WordsAreBits
<1>7. reserved' = [reserved EXCEPT ![c.kind] = stored]
  BY DEF StoreReset, Bits
<1>8. /\ reserved' \in [Kinds -> SUBSET Nums]
      /\ \A j \in Kinds : j # c.kind => reserved'[j] = reserved[j]
      /\ BitsNext(t) = stored
  <2> HIDE DEF stored
  <2>1. TypeOK /\ InCall(t)
    BY <1>1
  <2> QED
    BY <2>1, <1>6, <1>7, OneList DEF BitsNext
<1>9. InStep(c, Bits(t)) => stored = Bits(t) \ {c.num}
  BY <1>1, WordStored DEF InStep
<1>10. InStep(c, Bits(t)) => Left(c, Bits(t)) = Bits(t) \ {c.num}
  <2>1. CASE c.at = "storeReset"
    BY <1>1, <2>1 DEF Left, Unsettled, InCall
  <2>2. CASE c.at = "storeAgain"
    <3>1. Left(c, Bits(t)) = Bits(t)
      BY <2>2 DEF Left, Unsettled
    <3> QED
      BY <2>2, <3>1 DEF InStep
  <2> QED
    BY <1>1, <2>1, <2>2
<1> HIDE DEF stored
<1>11. ASSUME Moves(t, NoCall) PROVE Passes(t, NoCall) /\ Silent(t, NoCall)
  <2>1. Passes(t, NoCall)
    BY <1>2, <1>8, <1>11 DEF Passes
  <2>2. Left(NoCall, BitsNext(t)) = stored
    BY <1>8 DEF Left
  <2> QED
    BY <1>2, <1>9, <1>10, <2>1, <2>2 DEF Silent, Keeps
<1>12. CASE c.at = "storeReset" /\ c.op = "hide"
  BY <1>1, <1>11, <1>12, Moved DEF StoreReset, At
<1>13. CASE c.at = "storeReset" /\ c.op # "hide"
  <2> DEFINE d == Rec(c.op, "loadAgain", c.kind, c.num, c.word, c.made)
  <2>1. Moves(t, d)
    BY <1>1, <1>13, Moved DEF StoreReset, At
  <2>2. /\ d \in Call /\ d.op = c.op /\ d.at = "loadAgain" /\ d.kind = c.kind
        /\ d.num = c.num
    BY <1>3, <1>4, CallFields, RecIsCall DEF Statements
  <2> HIDE DEF d
  <2>3. d # NoCall /\ CallOk(d) /\ ~Unsettled(d)
    BY <1>3, <1>13, <2>2, NoCallIsNone DEF CallOk, Setting, Unsettled
  <2>4. InStep(c, Bits(t)) => InStep(d, BitsNext(t))
    BY <1>8, <1>9, <2>2 DEF InStep, Setting
  <2>5. Left(d, BitsNext(t)) = stored
    BY <1>8, <2>3 DEF Left
  <2>6. Silent(t, d)
    BY <1>2, <1>9, <1>10, <2>4, <2>5 DEF Silent, Keeps
  <2>7. Passes(t, d)
    BY <1>2, <1>8, <2>1, <2>2, <2>3 DEF Passes
  <2> QED
    BY <2>6, <2>7
<1>14. CASE c.at = "storeAgain" /\ c.op = "remove"
  BY <1>1, <1>11, <1>14, Moved DEF StoreReset, At
<1>15. CASE c.at = "storeAgain" /\ c.op # "remove"
  <2> DEFINE d == Rec(c.op, "loop", c.kind, c.num + 1, c.word, c.made)
  <2>1. Moves(t, d)
    <3>1. call' = [call EXCEPT ![t].at = "loop", ![t].num = c.num + 1]
      BY <1>15 DEF StoreReset, At
    <3> QED
      BY <3>1, <1>1, Moved
  <2>2. c.num + 1 \in Nums \cup {NoNum, MsgCount} /\ c.num + 1 \in 0 .. MsgCount
    BY <1>3, MsgCountAssumption DEF Nums
  <2>3. /\ d \in Call /\ d.op = c.op /\ d.at = "loop" /\ d.kind = c.kind
        /\ d.num = c.num + 1
    <3>1. /\ c.op \in Ops /\ "loop" \in Statements /\ c.word \in SUBSET Nums /\ c.made \in BOOLEAN
      BY <1>4, CallFields DEF Statements
    <3> QED
      BY ONLY <1>5, <2>2, <3>1 DEF Rec, Call
  <2> HIDE DEF d
  <2>4. c.op = "removeAll"
    BY <1>1, <1>15 DEF CallOk
  <2>5. d # NoCall /\ CallOk(d) /\ ~Unsettled(d)
    BY <2>2, <2>3, <2>4, NoCallIsNone DEF CallOk, Setting, Unsettled
  <2>6. InStep(c, Bits(t)) => InStep(d, BitsNext(t))
    <3> SUFFICES ASSUME InStep(c, Bits(t)), NEW m \in BitsNext(t) PROVE d.num <= m
      BY <2>3, <2>4 DEF InStep, Setting
    <3>1. m \in Bits(t) \ {c.num}
      BY <1>8, <1>9
    <3>2. c.num <= m /\ c.num # m /\ m \in Nums
      BY <3>1, <1>4, <2>4 DEF InStep
    <3> QED
      BY <3>2, <1>3, <2>3, MsgCountAssumption DEF Nums
  <2>7. Left(d, BitsNext(t)) = stored
    BY <1>8, <2>5 DEF Left
  <2>8. Silent(t, d)
    BY <1>2, <1>9, <1>10, <2>6, <2>7 DEF Silent, Keeps
  <2>9. Passes(t, d)
    BY <1>2, <1>8, <2>1, <2>3, <2>5 DEF Passes
  <2> QED
    BY <2>8, <2>9
<1> QED
  BY <1>1, <1>12, <1>13, <1>14, <1>15
-------------------------------------------------------------------------------
(***************************************************************************)
(* Types.                                                                  *)
(***************************************************************************)
LEMMA StepPasses ==
    ASSUME TypeInv, NEW t \in Callers, Step(t)
    PROVE  \E d : Passes(t, d) /\ (Silent(t, d) \/ Reserves(t, d) \/ Draws(t, d) \/ Erases(t, d))
  BY FindPasses, TestPasses, LoadSetPasses, StoreSetPasses, DrawPasses, LoopPasses, ErasePasses,
     LoadResetPasses, StoreResetPasses DEF Step

LEMMA StepInCall ==
    ASSUME NEW t \in Callers, Step(t)
    PROVE  InCall(t)
  BY DEF Step, Find, Test, LoadSet, StoreSet, Draw, Loop, Erase, LoadReset, StoreReset, At

\* A task moves to a call or to none, the others stay where they are.
LEMMA MovesCall ==
    ASSUME TypeInv, NEW t \in Callers, NEW d \in Call \cup {NoCall}, Moves(t, d),
           d # NoCall => CallOk(d)
    PROVE  /\ call' \in [Callers -> Call \cup {NoCall}]
           /\ call'[t] = d /\ \A u \in Callers : u # t => call'[u] = call[u]
           /\ \A u \in Callers : InCall(u)' => CallOk(call'[u])
<1>1. /\ call' \in [Callers -> Call \cup {NoCall}]
      /\ call'[t] = d /\ \A u \in Callers : u # t => call'[u] = call[u]
  BY DEF Moves, TypeInv, TypeOK
<1>2. ASSUME NEW u \in Callers, InCall(u)' PROVE CallOk(call'[u])
  <2>1. CASE u = t
    BY <1>1, <1>2, <2>1 DEF InCall
  <2>2. CASE u # t
    BY <1>1, <1>2, <2>2 DEF InCall, TypeInv
  <2> QED
    BY <2>1, <2>2
<1> QED
  BY <1>1, <1>2

LEMMA BoardType ==
    ASSUME TypeInv, NEW t \in Callers, InCall(t), NEW d,
           Silent(t, d) \/ Reserves(t, d) \/ Draws(t, d) \/ Erases(t, d)
    PROVE  board' \in [Kinds -> [HwNums -> Callers \cup {Blank, Foreign}]]
<1> DEFINE k == call[t].kind
           h == InternalIdToHwId(call[t].num)
<1>1. k \in Kinds
  BY RunningIsCall, CallFields DEF TypeInv
<1>2. board \in [Kinds -> [HwNums -> Callers \cup {Blank, Foreign}]]
  BY DEF TypeInv, TypeOK
<1>3. CASE Silent(t, d) \/ Reserves(t, d)
  BY <1>2, <1>3 DEF Silent, Reserves
<1>4. CASE Draws(t, d)
  <2>1. h \in HwNums
    BY <1>4, HwIdOfNum DEF Draws
  <2> QED
    BY <1>1, <1>2, <1>4, <2>1 DEF Draws, Atomic!SetMessage
<1>5. CASE Erases(t, d)
  <2>1. h \in HwNums
    BY <1>5, HwIdOfNum DEF Erases
  <2> QED
    BY <1>1, <1>2, <1>5, <2>1 DEF Erases, Atomic!DeleteMessage
<1> QED
  BY <1>3, <1>4, <1>5

LEMMA StepType ==
    ASSUME TypeInv, NEW t \in Callers, Step(t)
    PROVE  TypeInv'
<1>1. PICK d : Passes(t, d) /\ (Silent(t, d) \/ Reserves(t, d) \/ Draws(t, d) \/ Erases(t, d))
  BY StepPasses
<1>2. board' \in [Kinds -> [HwNums -> Callers \cup {Blank, Foreign}]]
  BY <1>1, StepInCall, BoardType
<1>3. /\ call' \in [Callers -> Call \cup {NoCall}]
      /\ \A u \in Callers : InCall(u)' => CallOk(call'[u])
  BY <1>1, MovesCall DEF Passes
<1>4. reserved' \in [Kinds -> SUBSET Nums] /\ overlapped' \in BOOLEAN
  BY <1>1 DEF Passes, TypeInv, TypeOK
<1> QED
  BY <1>2, <1>3, <1>4 DEF TypeInv, TypeOK

\* A call that begins has changed nothing and is in step with any list.
LEMMA EnterPasses ==
    ASSUME TypeInv, NEW t \in Callers, NEW op \in Ops, NEW k \in Kinds, NEW n \in Nums,
           Enter(t, op, k, n)
    PROVE  \E d \in Call :
              /\ Moves(t, d) /\ CallOk(d) /\ ~Unsettled(d) /\ d.kind = k
              /\ InStep(d, reserved[k])
<1> DEFINE d == Rec(op, First(op), k, n, {}, FALSE)
<1>1. n \in Numbers(op) /\ Moves(t, d)
  BY DEF Enter, Rec, Moves, TypeInv, TypeOK
<1>2. First(op) \in Statements
  BY DEF Ops, First, Statements
<1>3. d \in Call /\ d.op = op /\ d.at = First(op) /\ d.kind = k /\ d.num = n
  BY <1>2 DEF Rec, Call
<1>4. ~d.made
  BY DEF Rec
<1> HIDE DEF d
<1>5. n \in 0 .. MsgCount
  BY MsgCountAssumption DEF Nums
<1>6. op = "removeAll" => \A m \in reserved[k] : d.num <= m
  <2> SUFFICES ASSUME op = "removeAll", NEW m \in reserved[k] PROVE d.num <= m
    OBVIOUS
  <2>1. m \in Nums
    BY DEF TypeInv, TypeOK
  <2>2. d.num = 0
    BY <1>1, <1>3 DEF Numbers
  <2> QED
    BY <2>1, <2>2, MsgCountAssumption DEF Nums
<1>7. \/ op = "reserve" /\ d.at = "find"
      \/ op = "update" /\ d.at = "test"
      \/ op \in {"hide", "remove"} /\ d.at = "erase"
      \/ op = "removeAll" /\ d.at = "loop"
  BY <1>3 DEF Ops, First
<1>8. CallOk(d) /\ ~Unsettled(d)
  BY <1>3, <1>4, <1>5, <1>7 DEF CallOk, Setting, Unsettled
<1>9. InStep(d, reserved[k])
  BY <1>3, <1>6, <1>7 DEF InStep, Setting
<1> QED
  BY <1>1, <1>3, <1>8, <1>9

LEMMA EnterType ==
    ASSUME TypeInv, NEW t \in Callers, NEW op \in Ops, NEW k \in Kinds, NEW n \in Nums,
           Enter(t, op, k, n)
    PROVE  TypeInv'
<1>1. PICK d \in Call : Moves(t, d) /\ CallOk(d)
  BY EnterPasses
<1>2. /\ call' \in [Callers -> Call \cup {NoCall}]
      /\ \A u \in Callers : InCall(u)' => CallOk(call'[u])
  BY <1>1, MovesCall
<1>3. UNCHANGED <<reserved, board>> /\ overlapped' \in BOOLEAN
  BY DEF Enter, TypeInv, TypeOK
<1> QED
  BY <1>2, <1>3 DEF TypeInv, TypeOK

LEMMA NoCalls ==
    ASSUME call' = [t \in Callers |-> NoCall]
    PROVE  \A t \in Callers : ~InCall(t)'
  BY DEF InCall

LEMMA RestartType ==
    ASSUME TypeInv, Restart
    PROVE  TypeInv'
<1>1. call' \in [Callers -> Call \cup {NoCall}] /\ \A t \in Callers : ~InCall(t)'
  BY NoCalls DEF Restart
<1>2. reserved' \in [Kinds -> SUBSET Nums]
  BY DEF Restart, Atomic!Restart
<1>3. board' \in [Kinds -> [HwNums -> Callers \cup {Blank, Foreign}]]
  BY SameNumbers DEF Restart, Atomic!Restart, TypeInv, TypeOK
<1>4. overlapped' \in BOOLEAN
  BY DEF Restart
<1> QED
  BY <1>1, <1>2, <1>3, <1>4 DEF TypeInv, TypeOK

LEMMA InitType == Init => TypeInv
<1> SUFFICES ASSUME Init PROVE TypeInv
  OBVIOUS
<1>1. call \in [Callers -> Call \cup {NoCall}] /\ \A t \in Callers : ~InCall(t)
  BY DEF Init, InCall
<1>2. reserved \in [Kinds -> SUBSET Nums]
  BY DEF Init, Atomic!Init
<1>3. board \in [Kinds -> [HwNums -> Callers \cup {Blank, Foreign}]]
  <2>1. board \in [Kinds -> [HwNums -> {Blank, Foreign}]]
    BY SameNumbers DEF Init, Atomic!Init
  <2>2. \A k \in Kinds : board[k] \in [HwNums -> Callers \cup {Blank, Foreign}]
    BY <2>1
  <2> QED
    BY <2>1, <2>2
<1>4. overlapped \in BOOLEAN
  BY DEF Init
<1> QED
  BY <1>1, <1>2, <1>3, <1>4 DEF TypeInv, TypeOK

LEMMA NextType == TypeInv /\ [Next]_vars => TypeInv'
<1> SUFFICES ASSUME TypeInv, [Next]_vars PROVE TypeInv'
  OBVIOUS
<1>1. CASE UNCHANGED vars
  BY <1>1 DEF vars, TypeInv, TypeOK, InCall
<1>2. CASE Next
  BY <1>2, EnterType, StepType, RestartType DEF Next
<1> QED
  BY <1>1, <1>2

LEMMA TypeInvariance == Spec => []TypeInv
  BY InitType, NextType, PTL DEF Spec

\* Every call is at a statement of its operation, with a number of the bitset.
THEOREM TypeCorrect == Spec => []TypeOK
  BY TypeInvariance, PTL DEF TypeInv
-------------------------------------------------------------------------------
(***************************************************************************)
(* One call at a time.  What has taken effect is then the list, as far as  *)
(* the one call that is under way has taken effect on it.                  *)
(***************************************************************************)
LEMMA SettledAlone ==
    ASSUME NEW t \in Callers, \A u \in Callers : InCall(u) => u = t, NEW k \in Kinds
    PROVE  Settled(k) = IF call[t].kind = k THEN Left(call[t], reserved[k]) ELSE reserved[k]
  BY DEF Settled, Left, Unsettled, InCall

LEMMA SettledAloneNext ==
    ASSUME NEW t \in Callers, \A u \in Callers : InCall(u)' => u = t, NEW k \in Kinds
    PROVE  Settled(k)' = IF call'[t].kind = k THEN Left(call'[t], reserved'[k]) ELSE reserved'[k]
  BY DEF Settled, Left, Unsettled, InCall

\* How a statement of the only call under way changes what has taken effect.
LEMMA SoloStep ==
    ASSUME TypeInv, SoloInv, ~overlapped, NEW t \in Callers, InCall(t), NEW d, Passes(t, d),
           Keeps(t, d), NEW k \in Kinds, k = call[t].kind
    PROVE  /\ Alone' /\ InSteps'
           /\ \A j \in Kinds : j # k => Settled(j)' = Settled(j)
           /\ Settled(k) = Left(call[t], Bits(t))
           /\ Settled(k)' = Left(d, BitsNext(t))
<1>1. /\ call'[t] = d /\ \A u \in Callers : u # t => call'[u] = call[u]
  BY MovesCall DEF Passes
<1>2. \A u \in Callers : InCall(u) => u = t
  BY DEF SoloInv, Alone
<1>3. \A u \in Callers : InCall(u)' => u = t
  BY <1>1, <1>2 DEF InCall
<1>4. d # NoCall => d.kind = k /\ InStep(d, reserved'[k])
  BY DEF Passes, Keeps, BitsNext
<1>5. Alone' /\ InSteps'
  BY <1>1, <1>3, <1>4 DEF Alone, InSteps, InCall
<1>6. \A j \in Kinds : j # k => reserved'[j] = reserved[j]
  BY DEF Passes
<1>7. \A j \in Kinds : Settled(j) = IF k = j THEN Left(call[t], reserved[j]) ELSE reserved[j]
  BY <1>2, SettledAlone
<1>8. \A j \in Kinds : Settled(j)' = IF k = j THEN Left(d, reserved'[j]) ELSE reserved'[j]
  <2>1. \A j \in Kinds :
            Settled(j)' = IF call'[t].kind = j THEN Left(d, reserved'[j]) ELSE reserved'[j]
    BY <1>1, <1>3, SettledAloneNext
  <2>2. CASE d = NoCall
    BY <2>1, <2>2 DEF Left
  <2>3. CASE d # NoCall
    BY <1>1, <1>4, <2>1, <2>3
  <2> QED
    BY <2>2, <2>3
<1>9. \A j \in Kinds : j # k => Settled(j)' = Settled(j)
  BY <1>6, <1>7, <1>8
<1>10. Settled(k) = Left(call[t], Bits(t)) /\ Settled(k)' = Left(d, BitsNext(t))
  BY <1>7, <1>8 DEF Bits, BitsNext
<1> QED
  BY <1>5, <1>9, <1>10

LEMMA SilentEffect ==
    ASSUME Shown, UNCHANGED board, \A k \in Kinds : Settled(k)' = Settled(k)
    PROVE  Shown' /\ UNCHANGED AtOnce!vars
<1>1. Shown'
  BY DEF Shown, Atomic!Ours
<1>2. UNCHANGED AtOnce!vars
  BY DEF AtOnce!vars
<1> QED
  BY <1>1, <1>2

LEMMA ReserveEffect ==
    ASSUME Shown, UNCHANGED board, NEW k \in Kinds, NEW n \in Nums, n = FindNextFree(Settled(k)),
           Settled(k)' = Settled(k) \cup {n}, \A j \in Kinds : j # k => Settled(j)' = Settled(j)
    PROVE  Shown' /\ AtOnce!Next
<1>1. Shown'
  BY DEF Shown, Atomic!Ours
<1>2. ~ (n < 0)
  BY MsgCountAssumption DEF Nums
<1>3. AtOnce!Reserve(k, n)
  BY <1>2, SameNumbers DEF AtOnce!Reserve
<1>4. AtOnce!Next
  BY <1>3, SameNumbers DEF AtOnce!Next
<1> QED
  BY <1>1, <1>4

LEMMA DrawEffect ==
    ASSUME TypeInv, Shown, NEW k \in Kinds, NEW n \in Nums, NEW t \in Callers,
           board' = Atomic!SetMessage(board, k, InternalIdToHwId(n), t),
           Settled(k)' = Settled(k) \cup {n}, \A j \in Kinds : j # k => Settled(j)' = Settled(j)
    PROVE  Shown' /\ AtOnce!Next
<1>1. \A j \in Kinds, m \in Nums :
          board'[j][InternalIdToHwId(m)] =
              IF j = k /\ m = n THEN t ELSE board[j][InternalIdToHwId(m)]
  BY HwIdOfNum, HwIdInjective DEF TypeInv, TypeOK, Atomic!SetMessage
<1>2. Shown'
  BY <1>1, SameNumbers DEF Shown, Atomic!Ours
<1>3. AtOnce!Update(k, n, t)
  BY SameNumbers DEF AtOnce!Update, AtOnce!SetMessage, Atomic!SetMessage
<1>4. AtOnce!Next
  BY <1>3, SameNumbers DEF AtOnce!Next
<1> QED
  BY <1>2, <1>4

LEMMA EraseEffect ==
    ASSUME TypeInv, Shown, NEW k \in Kinds, NEW n \in Nums,
           board' = Atomic!DeleteMessage(board, k, InternalIdToHwId(n)),
           Settled(k)' = Settled(k) \ {n}, \A j \in Kinds : j # k => Settled(j)' = Settled(j)
    PROVE  Shown' /\ AtOnce!Next
<1>1. \A j \in Kinds, m \in Nums :
          board'[j][InternalIdToHwId(m)] =
              IF j = k /\ m = n THEN Blank ELSE board[j][InternalIdToHwId(m)]
  BY HwIdOfNum, HwIdInjective DEF TypeInv, TypeOK, Atomic!DeleteMessage
<1>2. Blank \notin Callers
  BY CallersAssumption
<1>3. Shown'
  BY <1>1, <1>2, SameNumbers DEF Shown, Atomic!Ours
<1>4. AtOnce!Hide(k, n)
  BY SameNumbers DEF AtOnce!Hide, AtOnce!DeleteMessage, Atomic!DeleteMessage
<1>5. AtOnce!Next
  BY <1>4, SameNumbers DEF AtOnce!Next
<1> QED
  BY <1>3, <1>5

LEMMA StepSolo ==
    ASSUME TypeInv, SoloInv, NEW t \in Callers, Step(t), ~overlapped'
    PROVE  SoloInv' /\ (AtOnce!Next \/ UNCHANGED AtOnce!vars)
<1>1. InCall(t)
  BY StepInCall
<1>2. PICK d : Passes(t, d) /\ (Silent(t, d) \/ Reserves(t, d) \/ Draws(t, d) \/ Erases(t, d))
  BY StepPasses
<1>3. ~overlapped
  BY <1>2 DEF Passes
<1>4. InStep(call[t], Bits(t)) /\ Shown
  BY <1>1, <1>3 DEF SoloInv, InSteps, Bits
<1>5. Keeps(t, d)
  BY <1>2, <1>4 DEF Silent, Reserves, Draws, Erases
<1>6. call[t].kind \in Kinds
  BY <1>1, RunningIsCall, CallFields DEF TypeInv
<1>7. PICK k \in Kinds : k = call[t].kind
  BY <1>6
<1>8. PICK n : n = call[t].num
  OBVIOUS
<1>9. /\ Alone' /\ InSteps'
      /\ \A j \in Kinds : j # k => Settled(j)' = Settled(j)
      /\ Settled(k) = Left(call[t], Bits(t))
      /\ Settled(k)' = Left(d, BitsNext(t))
  BY <1>1, <1>2, <1>3, <1>5, <1>7, SoloStep
<1>10. Shown' /\ (AtOnce!Next \/ UNCHANGED AtOnce!vars)
  <2>1. CASE Silent(t, d)
    <3>1. UNCHANGED board /\ Settled(k)' = Settled(k)
      BY <1>4, <1>9, <2>1 DEF Silent
    <3>2. \A j \in Kinds : Settled(j)' = Settled(j)
      BY <1>9, <3>1
    <3> QED
      BY <1>4, <3>1, <3>2, SilentEffect
  <2>2. CASE Reserves(t, d)
    <3>1. UNCHANGED board /\ n \in Nums
      BY <1>8, <2>2 DEF Reserves
    <3>2. n = FindNextFree(Settled(k)) /\ Settled(k)' = Settled(k) \cup {n}
      BY <1>4, <1>8, <1>9, <2>2 DEF Reserves
    <3> QED
      BY <1>4, <1>9, <3>1, <3>2, ReserveEffect
  <2>3. CASE Draws(t, d)
    <3>1. n \in Nums /\ board' = Atomic!SetMessage(board, k, InternalIdToHwId(n), t)
      BY <1>7, <1>8, <2>3 DEF Draws
    <3>2. Settled(k)' = Settled(k) \cup {n}
      BY <1>4, <1>8, <1>9, <2>3 DEF Draws
    <3> QED
      BY <1>4, <1>9, <3>1, <3>2, DrawEffect
  <2>4. CASE Erases(t, d)
    <3>1. n \in Nums /\ board' = Atomic!DeleteMessage(board, k, InternalIdToHwId(n))
      BY <1>7, <1>8, <2>4 DEF Erases
    <3>2. Settled(k)' = Settled(k) \ {n}
      BY <1>4, <1>8, <1>9, <2>4 DEF Erases
    <3> QED
      BY <1>4, <1>9, <3>1, <3>2, EraseEffect
  <2> QED
    BY <1>2, <2>1, <2>2, <2>3, <2>4
<1> QED
  BY <1>9, <1>10 DEF SoloInv

LEMMA EnterSolo ==
    ASSUME TypeInv, SoloInv, NEW t \in Callers, NEW op \in Ops, NEW k \in Kinds, NEW n \in Nums,
           Enter(t, op, k, n), ~overlapped'
    PROVE  SoloInv' /\ UNCHANGED AtOnce!vars
<1>1. PICK d \in Call :
          Moves(t, d) /\ CallOk(d) /\ ~Unsettled(d) /\ d.kind = k /\ InStep(d, reserved[k])
  BY EnterPasses
<1>2. call'[t] = d /\ \A u \in Callers : u # t => call'[u] = call[u]
  BY <1>1, MovesCall
<1>3. ~overlapped /\ UNCHANGED <<reserved, board>> /\ ~InCall(t)
  BY DEF Enter
<1>4. \A u \in Callers : ~InCall(u)
  BY <1>3 DEF Enter
<1>5. \A u \in Callers : InCall(u)' => u = t
  BY <1>2, <1>4 DEF InCall
<1>6. Alone' /\ InSteps'
  BY <1>1, <1>2, <1>3, <1>5 DEF Alone, InSteps
<1>7. \A j \in Kinds : Settled(j) = reserved[j]
  BY <1>4 DEF Settled
<1>8. \A j \in Kinds : Settled(j)' = reserved'[j]
  BY <1>1, <1>2, <1>5, SettledAloneNext DEF Left
<1>9. \A j \in Kinds : Settled(j)' = Settled(j)
  BY <1>3, <1>7, <1>8
<1>10. Shown' /\ UNCHANGED AtOnce!vars
  BY <1>3, <1>9, SilentEffect DEF SoloInv
<1> QED
  BY <1>6, <1>10 DEF SoloInv

LEMMA RestartSolo ==
    ASSUME TypeInv, Restart
    PROVE  SoloInv' /\ AtOnce!Next
<1>1. \A t \in Callers : ~InCall(t)'
  BY NoCalls DEF Restart
<1>2. \A k \in Kinds : Settled(k)' = {}
  BY <1>1 DEF Settled, Restart, Atomic!Restart
<1>3. ASSUME NEW k \in Kinds, NEW n \in Nums PROVE ~Atomic!Ours(k, n)'
  <2>1. board'[k][InternalIdToHwId(n)] \in {Blank, Foreign}
    BY HwIdOfNum, SameNumbers DEF Restart, Atomic!Restart
  <2> QED
    BY <2>1, SameNumbers, CallersAssumption DEF Atomic!Ours
<1>4. SoloInv'
  BY <1>1, <1>3 DEF SoloInv, Alone, InSteps, Shown
<1>5. AtOnce!Restart
  BY <1>2, SameNumbers DEF AtOnce!Restart, Restart, Atomic!Restart
<1>6. AtOnce!Next
  BY <1>5 DEF AtOnce!Next
<1> QED
  BY <1>4, <1>6

LEMMA InitSolo == Init => SoloInv /\ AtOnce!Init
<1> SUFFICES ASSUME Init PROVE SoloInv /\ AtOnce!Init
  OBVIOUS
<1>1. \A t \in Callers : ~InCall(t)
  BY DEF Init, InCall
<1>2. \A k \in Kinds : Settled(k) = {}
  BY <1>1 DEF Settled, Init, Atomic!Init
<1>3. ASSUME NEW k \in Kinds, NEW n \in Nums PROVE ~Atomic!Ours(k, n)
  <2>1. board[k][InternalIdToHwId(n)] \in {Blank, Foreign}
    BY HwIdOfNum, SameNumbers DEF Init, Atomic!Init
  <2> QED
    BY <2>1, SameNumbers, CallersAssumption DEF Atomic!Ours
<1>4. SoloInv
  BY <1>1, <1>3 DEF SoloInv, Alone, InSteps, Shown
<1>5. AtOnce!Init
  BY <1>2, SameNumbers DEF AtOnce!Init, Init, Atomic!Init
<1> QED
  BY <1>4, <1>5

LEMMA NextSolo ==
    ASSUME TypeInv, SoloInv, [Next]_vars
    PROVE  SoloInv' /\ [overlapped' \/ AtOnce!Next]_<<AtOnce!vars, overlapped>>
<1>1. CASE UNCHANGED vars
  <2>1. \A k \in Kinds : Settled(k)' = Settled(k)
    BY <1>1 DEF vars, Settled, InCall
  <2>2. UNCHANGED <<AtOnce!vars, overlapped>>
    BY <1>1, <2>1 DEF vars, AtOnce!vars
  <2>3. SoloInv'
    BY <1>1, <2>1 DEF vars, SoloInv, Alone, InSteps, Shown, InCall, Atomic!Ours
  <2> QED
    BY <2>2, <2>3
<1>2. ASSUME NEW t \in Callers, Step(t)
      PROVE  SoloInv' /\ [overlapped' \/ AtOnce!Next]_<<AtOnce!vars, overlapped>>
  <2>1. overlapped' = overlapped
    BY <1>2, StepPasses DEF Passes
  <2>2. CASE overlapped'
    BY <2>2 DEF SoloInv
  <2>3. CASE ~overlapped'
    BY <1>2, <2>1, <2>3, StepSolo
  <2> QED
    BY <2>2, <2>3
<1>3. ASSUME NEW t \in Callers, NEW op \in Ops, NEW k \in Kinds, NEW n \in Nums, Enter(t, op, k, n)
      PROVE  SoloInv' /\ [overlapped' \/ AtOnce!Next]_<<AtOnce!vars, overlapped>>
  <2>1. CASE overlapped'
    BY <2>1 DEF SoloInv
  <2>2. CASE ~overlapped'
    <3>1. overlapped' = overlapped
      BY <1>3, <2>2, NextType DEF Enter, TypeInv, TypeOK, Next
    <3> QED
      BY <1>3, <2>2, <3>1, EnterSolo
  <2> QED
    BY <2>1, <2>2
<1>4. CASE Restart
  BY <1>4, RestartSolo
<1> QED
  BY <1>1, <1>2, <1>3, <1>4 DEF Next

LEMMA SoloInvariance == Spec => [](TypeInv /\ SoloInv)
<1>1. Init => TypeInv /\ SoloInv
  BY InitType, InitSolo
<1>2. TypeInv /\ SoloInv /\ [Next]_vars => (TypeInv /\ SoloInv)'
  BY NextType, NextSolo
<1> QED
  BY <1>1, <1>2, PTL DEF Spec

(***************************************************************************)
(* As long as no two calls have been under way at once, the manager is the *)
(* one MessageManager describes: each call takes effect in one step.       *)
(***************************************************************************)
THEOREM LinearUntilOverlapAlways == Spec => LinearUntilOverlap
<1>1. Init => AtOnce!Init
  BY InitSolo
<1>2. TypeInv /\ SoloInv /\ [Next]_vars =>
        [overlapped' \/ AtOnce!Next]_<<AtOnce!vars, overlapped>>
  BY NextSolo
<1> QED
  BY <1>1, <1>2, SoloInvariance, PTL DEF Spec, LinearUntilOverlap

\* The statement with which remove_all returns has passed every number.
LEMMA LastOfTheLoop ==
    ASSUME TypeInv, SoloInv, ~overlapped, NEW t \in Callers, At(t, "loop"), Loop(t),
           call'[t] = NoCall
    PROVE  reserved[call[t].kind] = {}
<1> DEFINE c == call[t]
<1>1. InCall(t) /\ c.op = "removeAll" /\ c.num \in 0 .. MsgCount /\ TypeOK
  BY DEF At, TypeInv, CallOk
<1>2. c \in Call /\ Bits(t) \in SUBSET Nums
  BY <1>1, RunningIsCall DEF Bits
<1>3. c.num >= MsgCount
  <2> SUFFICES ASSUME ~ (c.num >= MsgCount) PROVE FALSE
    OBVIOUS
  <2>1. call'[t].op = "removeAll"
    <3>1. \/ call' = [call EXCEPT ![t].at = "erase"]
          \/ call' = [call EXCEPT ![t].num = c.num + 1]
      BY DEF Loop, Goto
    <3> QED
      BY <1>1, <1>2, <3>1 DEF TypeOK, Call
  <2> QED
    BY <2>1 DEF NoCall
<1>4. \A m \in Bits(t) : c.num <= m
  BY <1>1 DEF SoloInv, InSteps, InStep, Bits
<1>5. \A m \in Bits(t) : FALSE
  BY <1>1, <1>2, <1>3, <1>4, MsgCountAssumption DEF Nums
<1> QED
  BY <1>5 DEF Bits

\* remove_all, left alone, leaves no bit set and nothing of this run on the board.
LEMMA SweptClean ==
    ASSUME TypeInv, SoloInv, [Next]_vars, NEW t \in Callers, At(t, "loop"), ~overlapped,
           call'[t] = NoCall, UNCHANGED <<reserved, board>>
    PROVE  /\ reserved[call[t].kind] = {}
           /\ \A n \in Nums : ~Atomic!Ours(call[t].kind, n)
<1>1. call[t] # NoCall /\ InCall(t)
  BY DEF At, InCall
<1>2. CASE Restart
  <2>1. call[t].kind \in Kinds
    BY <1>1, RunningIsCall, CallFields DEF TypeInv
  <2>2. \A k \in Kinds : reserved[k] = {}
    BY <1>2 DEF Restart, Atomic!Restart
  <2>3. ASSUME NEW k \in Kinds, NEW n \in Nums PROVE ~Atomic!Ours(k, n)
    <3>1. board[k][InternalIdToHwId(n)] \in {Blank, Foreign}
      BY <1>2, HwIdOfNum, SameNumbers DEF Restart, Atomic!Restart
    <3> QED
      BY <3>1, SameNumbers, CallersAssumption DEF Atomic!Ours
  <2> QED
    BY <2>1, <2>2, <2>3
<1>3. CASE Loop(t)
  <2>1. reserved[call[t].kind] = {}
    BY <1>3, LastOfTheLoop
  <2>2. call[t].kind \in Kinds
    BY <1>1, RunningIsCall, CallFields DEF TypeInv
  <2>3. Settled(call[t].kind) = {}
    BY <2>1 DEF Settled
  <2> QED
    BY <2>1, <2>2, <2>3 DEF SoloInv, Shown
<1>4. ASSUME NEW u \in Callers, NEW op \in Ops, NEW k \in Kinds, NEW n \in Nums, Enter(u, op, k, n)
      PROVE  FALSE
  <2>1. u # t
    BY <1>1, <1>4 DEF Enter
  <2>2. PICK d \in Call : Moves(u, d)
    BY <1>4, EnterPasses
  <2> QED
    BY <1>1, <2>1, <2>2 DEF Moves
<1>5. ASSUME NEW u \in Callers, u # t, Step(u) PROVE FALSE
  <2>1. PICK d : Moves(u, d)
    BY <1>5, StepPasses DEF Passes
  <2> QED
    BY <1>1, <1>5, <2>1 DEF Moves
<1>6. Step(t) => Loop(t)
  BY DEF At, Step, Find, Test, LoadSet, StoreSet, Draw, Erase, LoadReset, StoreReset
<1>7. ~UNCHANGED vars
  BY <1>1 DEF vars
<1> QED
  BY <1>2, <1>3, <1>4, <1>5, <1>6, <1>7 DEF Next

(***************************************************************************)
(* A sweep that nothing overlapped leaves nothing behind, for any number   *)
(* of messages and any width of a word.                                    *)
(***************************************************************************)
THEOREM SweepLeavesNothingAlways == Spec => SweepLeavesNothing
<1>1. TypeInv /\ SoloInv /\ [Next]_vars =>
        [\A t \in Callers :
            /\ At(t, "loop")
            /\ ~overlapped
            /\ call'[t] = NoCall /\ UNCHANGED <<reserved, board>>
            => /\ reserved[call[t].kind] = {}
               /\ \A n \in Nums : ~Atomic!Ours(call[t].kind, n)]_vars
  BY SweptClean
<1> QED
  BY <1>1, SoloInvariance, PTL DEF Spec, SweepLeavesNothing
===============================================================================
