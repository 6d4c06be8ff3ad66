------------------------------- MODULE BitWords -------------------------------
(***************************************************************************)
(* A bitset is an array of words, and a bit is set or reset by loading its *)
(* word and storing it back: what another task has changed in the word in  *)
(* between is lost.  A set of bits stands for the bitset.                  *)
(***************************************************************************)
EXTENDS Integers

CONSTANT WordBits       \* bits of a word (32 in the code)

ASSUME WordBitsAssumption == WordBits \in Nat \ {0}

WordOf(bits, n) == {m \in bits : m \div WordBits = n \div WordBits}

\* The list in which the word of n has been overwritten.
StoreWord(bits, n, word) == (bits \ WordOf(bits, n)) \cup word
===============================================================================
