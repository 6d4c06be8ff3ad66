------------------------------ MODULE MCImapHeaders ------------------------------
(* The texts it is tried on: some of one encoded word, of all lengths about a    *)
(* group of base 64 and with characters the encodings treat differently, and     *)
(* some of up to three chunks.                                                   *)
EXTENDS ImapHeaders

Plain == {[enc |-> "none", text |-> t] : t \in {<<32>>, <<32, 65, 32>>}}
Coded == {[enc |-> e, text |-> t] : e \in {"Q", "B"}, t \in {<<>>, <<32>>, <<65, 195, 129>>}}

\* A text between two words is more than space, which would have no meaning.
Mixed == {s \in BoundedSeq(Plain \cup Coded, 3) :
              /\ \A i \in 2 .. Len(s) : s[i - 1] \in Coded \/ s[i] \in Coded
              /\ \A i \in 2 .. Len(s) - 1 : s[i] \in Coded \/ s[i].text # <<32>>}
Alone == {<<[enc |-> e, text |-> t]>> :
              e \in {"Q", "B"}, t \in BoundedSeq({32, 255}, 4) \cup {<<61, 65, 95, 63>>, <<195, 61, 240, 95, 129>>}}

MCTexts == Mixed \cup Alone
===============================================================================
