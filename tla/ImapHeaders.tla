------------------------------- MODULE ImapHeaders -------------------------------
(***************************************************************************)
(* The notifier with the headers it downloads: the reply to a FETCH holds  *)
(* what a sender wrote as an RFC 2047 header, download_one takes its       *)
(* encoded words apart, and the callback is given the text.  What is done  *)
(* with a sender's name is done with the subject, too; one mail's is       *)
(* enough, and it is forgotten when the callback has been called.          *)
(***************************************************************************)
EXTENDS ImapNotifier, Rfc2047

CONSTANTS Texts,        \* what senders write, each a sequence of chunks
          Sizes         \* sizes of the destination, 64 in the code

ASSUME HeadersAssumption == Sizes \subseteq Nat \ {0} /\ \A t \in Texts : IsText(t)

VARIABLE subject        \* what the sender of the mail just announced wrote

headerVars == <<vars, subject>>

HeadersInit == Init /\ subject = <<>>

Announces(m) == m \notin Range(shown) /\ m \in Range(shown')

HeadersNext == Next /\ subject' \in IF Announces(1) THEN Texts ELSE {<<>>}

HeadersSpec == HeadersInit /\ [][HeadersNext]_headerVars /\ Fairness

(***************************************************************************)
(* A mail is announced with what its sender wrote, cut to the room there   *)
(* is, in either encoding and in any number of words: no character more    *)
(* or less at a padded group, an escape, a space between words or the end  *)
(* of the buffer.                                                          *)
(***************************************************************************)
DecodesBack ==
    \A size \in Sizes :
        rfc2047_decode(Header(subject), size) = FirstOf(Meaning(subject), size - 1)
===============================================================================
