--------------------------------- MODULE Rfc2047 ---------------------------------
(***************************************************************************)
(* The decoder of mail headers (src/service/imap/rfc2047.cpp).  A header   *)
(* is ASCII; what is not stands in encoded words, =?charset?Q?...?= or     *)
(* =?charset?B?...?=.                                                      *)
(*                                                                         *)
(* Characters are their codes, 1 to 255, since a NUL ends a string.  A     *)
(* header is a sequence of parts, each an encoded word or the plain text   *)
(* up to the next one; that the delimiters of a word are found is taken    *)
(* for granted.  The caller has zeroed the destination, as download_one    *)
(* (src/service/imap/client.cpp) does.                                     *)
(***************************************************************************)
EXTENDS Integers, SequencesExt

Space == 32
Digits64 == [i \in 0 .. 63 |->
    CASE i \in 0 .. 25 -> 65 + i [] i \in 26 .. 51 -> 71 + i [] i \in 52 .. 61 -> i - 4
      [] i = 62 -> 43 [] i = 63 -> 47]
Digits16 == [i \in 0 .. 15 |-> IF i < 10 THEN 48 + i ELSE 55 + i]
Pad == 61

base64val(c) == CHOOSE i \in 0 .. 63 : Digits64[i] = c
hexval(c) == CHOOSE i \in 0 .. 15 : Digits16[i] = IF c >= 97 THEN c - 32 ELSE c

IsPrint(c) == c \in 32 .. 126 \/ c >= 160

FirstOf(s, n) == SubSeq(s, 1, IF n < Len(s) THEN n ELSE Len(s))
-------------------------------------------------------------------------------
(***************************************************************************)
(* What a loop over s has written in the end.  A round takes the position  *)
(* in s and what has been written to the next ones; behind the end of s it *)
(* changes nothing.                                                        *)
(***************************************************************************)
Written(s, Round(_, _)) ==
    LET after[n \in Nat] == IF n = 0 THEN <<1, <<>>>> ELSE Round(s, after[n - 1])
    IN  after[Len(s)][2]

\* One character of a Q word: _ is a space, = is followed by two hex digits.
Unquote(s, at) ==
    LET i == at[1]   out == at[2] IN
    IF i > Len(s) THEN at
    ELSE IF s[i] = 95 THEN <<i + 1, Append(out, Space)>>
    ELSE IF s[i] = 61 THEN <<i + 3, Append(out, hexval(s[i + 1]) * 16 + hexval(s[i + 2]))>>
    ELSE <<i + 1, Append(out, s[i])>>

\* Four digits of a B word: they are three characters, two or one if padded.
FromBase64(s, at) ==
    LET i == at[1]   out == at[2]
        one == ((base64val(s[i]) * 4) % 256) + ((base64val(s[i + 1]) \div 16) % 4)
        two == ((base64val(s[i + 1]) % 16) * 16) + ((base64val(s[i + 2]) \div 4) % 16)
        three == ((base64val(s[i + 2]) % 4) * 64) + base64val(s[i + 3])
    IN  IF i > Len(s) THEN at
        ELSE IF s[i + 2] = Pad THEN <<Len(s) + 1, out \o <<one>>>>
        ELSE IF s[i + 3] = Pad THEN <<Len(s) + 1, out \o <<one, two>>>>
        ELSE <<i + 4, out \o <<one, two, three>>>>

\* One word, cut to dlen characters.  A word of another encoding leaves the
\* destination as it is, empty; one of another charset is filtered.
rfc2047DecodeWord(w, dlen) ==
    LET all == CASE w.enc = "Q" -> Written(w.text, Unquote)
                 [] w.enc = "B" -> Written(w.text, FromBase64)
                 [] OTHER -> <<>>
        cut == FirstOf(all, dlen)
    IN  IF w.charset = "utf-8" \/ w.enc \notin {"Q", "B"} THEN cut
        ELSE [i \in DOMAIN cut |-> IF IsPrint(cut[i]) THEN cut[i] ELSE 63]

\* Mutated form: space is given up before any word.
IgnoredBeforeAny(text, found) == \A i \in DOMAIN text : text[i] \in {32, 9, 13, 10}

\* Space between words is given up.
Ignored(text, found) == found /\ \A i \in DOMAIN text : text[i] \in {32, 9, 13, 10}

\* A round of rfc2047_decode, with room for so many characters in all.
DecodePart(parts, at, room) ==
    LET i == at[1]   out == at[2]   left == room - Len(out)
        text == IF Ignored(parts[i].text, i > 1) THEN <<>> ELSE FirstOf(parts[i].text, left)
    IN  IF i > Len(parts) \/ left = 0 THEN at
        ELSE IF \A j \in i .. Len(parts) : parts[j].enc = "none"    \* no encoded words
        THEN <<Len(parts) + 1, out \o FirstOf(parts[i].text, left)>>
        ELSE IF parts[i].enc = "none"
        THEN <<i + 2, out \o text \o rfc2047DecodeWord(parts[i + 1], left - Len(text))>>
        ELSE <<i + 1, out \o rfc2047DecodeWord(parts[i], left)>>

\* One character of the destination is for the terminal NUL.
rfc2047_decode(parts, size) ==
    Written(parts, LAMBDA p, at : DecodePart(p, at, size - 1))
-------------------------------------------------------------------------------
(* What a sender does: RFC 2047, and RFC 4648 for base 64. *)

\* A character of a Q word.
Escaped(c) == IF c = Space THEN <<95>>
              ELSE IF c \in 33 .. 126 \ {61, 63, 95} THEN <<c>>
              ELSE <<61, Digits16[c \div 16], Digits16[c % 16]>>

Quoted(s) == FlattenSeq([i \in DOMAIN s |-> Escaped(s[i])])

\* Three characters are four digits; what is missing of the last three is padded.
ToBase64(s) ==
    LET at(i) == IF i <= Len(s) THEN s[i] ELSE 0
        digit(g, r) ==
            CASE r = 0 -> Digits64[at(3 * g + 1) \div 4]
              [] r = 1 -> Digits64[(at(3 * g + 1) % 4) * 16 + at(3 * g + 2) \div 16]
              [] r = 2 -> IF 3 * g + 2 > Len(s) THEN Pad
                          ELSE Digits64[(at(3 * g + 2) % 16) * 4 + at(3 * g + 3) \div 64]
              [] r = 3 -> IF 3 * g + 3 > Len(s) THEN Pad ELSE Digits64[at(3 * g + 3) % 64]
    IN  [i \in 1 .. 4 * ((Len(s) + 2) \div 3) |-> digit((i - 1) \div 4, (i - 1) % 4)]

\* A chunk of a text, sent as it is or in a word.
Sent(c) == [enc |-> c.enc, charset |-> "utf-8",
            text |-> CASE c.enc = "Q" -> Quoted(c.text) [] c.enc = "B" -> ToBase64(c.text)
                       [] OTHER -> c.text]

\* Words are separated by space, from each other and, as a part of it, from text.
Gap == [enc |-> "none", charset |-> "utf-8", text |-> <<Space, Space, Space>>]

Block(chunks, i) ==
    IF i > 1 /\ chunks[i - 1].enc # "none" /\ chunks[i].enc # "none"
    THEN <<Gap, Sent(chunks[i])>> ELSE <<Sent(chunks[i])>>

Header(chunks) == FlattenSeq([i \in DOMAIN chunks |-> Block(chunks, i)])

Meaning(chunks) == FlattenSeq([i \in DOMAIN chunks |-> chunks[i].text])

\* What is not sent in a word is one chunk up to the next word, and between words
\* it is more than space, which would have no meaning.
IsText(chunks) ==
    /\ chunks \in Seq([enc : {"none", "Q", "B"}, text : Seq(1 .. 255)])
    /\ \A i \in 2 .. Len(chunks) : chunks[i - 1].enc # "none" \/ chunks[i].enc # "none"
    /\ \A i \in 2 .. Len(chunks) - 1 : chunks[i].enc = "none" => ~ Ignored(chunks[i].text, TRUE)
===============================================================================
