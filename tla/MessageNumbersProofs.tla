------------------------- MODULE MessageNumbersProofs -------------------------
(***************************************************************************)
(* Facts about message numbers that the proofs about the manager and about *)
(* the firmware rest on.                                                   *)
(***************************************************************************)
EXTENDS MessageNumbers, WellFoundedInduction, TLAPS

\* The two kinds of number correspond one to one; -1 is the image of -1 only.
LEMMA HwIdOfNum ==
    ASSUME NEW n \in Nums
    PROVE  /\ InternalIdToHwId(n) = MsgCount - n
           /\ InternalIdToHwId(n) \in HwNums
  BY MsgCountAssumption
     DEF InternalIdToHwId, Nums, HwNums, NoNum, NJE_MIN_MSG_NUM, NJE_MAX_MSG_NUM

LEMMA HwIdInjective ==
    ASSUME NEW m \in Nums, NEW n \in Nums,
           InternalIdToHwId(m) = InternalIdToHwId(n)
    PROVE  m = n
  BY HwIdOfNum, MsgCountAssumption DEF Nums

\* A nonempty set of numbers has a least element.
LEMMA LeastExists ==
    ASSUME NEW bits \in SUBSET Nums, bits # {}
    PROVE  \E n \in bits : \A m \in bits : n <= m
<1> DEFINE Less == OpToRel(<, Nat)
<1>1. bits \subseteq Nat
  BY MsgCountAssumption DEF Nums
<1>2. PICK n \in bits : \A m \in bits : ~ (<<m, n>> \in Less)
  BY <1>1, NatLessThanWellFounded, WFMin
<1>3. \A m \in bits : ~ (m < n)
  BY <1>1, <1>2 DEF OpToRel
<1> QED
  BY <1>1, <1>3

\* _Find_first returns that element, or the size of the bitset.
LEMMA FindFirstIsLeast ==
    ASSUME NEW bits \in SUBSET Nums
    PROVE  /\ bits = {} => FindFirst(bits) = MsgCount
           /\ bits # {} => /\ FindFirst(bits) \in bits
                          /\ \A m \in bits : FindFirst(bits) <= m
  BY LeastExists DEF FindFirst

\* What find_next_free returns lies just below every number that is taken.
LEMMA FindNextFreeFacts ==
    ASSUME NEW bits \in SUBSET Nums
    PROVE  /\ FindNextFree(bits) \in Nums \cup {NoNum}
           /\ \A m \in bits : FindNextFree(bits) < m
           /\ FindNextFree(bits) = NoNum => 0 \in bits
<1>1. CASE bits = {}
  BY <1>1, FindFirstIsLeast, MsgCountAssumption DEF FindNextFree, Nums, NoNum
<1>2. CASE bits # {}
  <2> DEFINE f == FindFirst(bits)
  <2>1. f \in bits /\ \A m \in bits : f <= m
    BY <1>2, FindFirstIsLeast
  <2>2. FindNextFree(bits) = f - 1
    BY DEF FindNextFree
  <2> HIDE DEF f
  <2>3. bits \subseteq 0 .. MsgCount - 1 /\ MsgCount \in Nat
    BY MsgCountAssumption DEF Nums
  <2>4. f \in 0 .. MsgCount - 1
    BY <2>1, <2>3
  <2>5. \A m \in bits : f - 1 < m
    BY <2>1, <2>3, <2>4
  <2> QED
    BY <2>1, <2>2, <2>3, <2>4, <2>5 DEF Nums, NoNum
<1> QED
  BY <1>1, <1>2
===============================================================================
