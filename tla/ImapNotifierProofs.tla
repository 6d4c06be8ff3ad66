--------------------------- MODULE ImapNotifierProofs ---------------------------
(***************************************************************************)
(* The notifier and the server, for any number of mails, any loss of       *)
(* connections and any lines that arrive in parts: each reply is taken for *)
(* the command it answers, IDLE is ended before another command, and when  *)
(* nothing is under way exactly the unread mails are announced.            *)
(*                                                                         *)
(* The second part is about the headers it downloads, for any texts, words *)
(* and sizes: what the decoder makes of what a sender wrote is the text.   *)
(***************************************************************************)
EXTENDS ImapHeaders, FiniteSetTheorems, SequenceTheorems, WellFoundedInduction, TLAPS

(***************************************************************************)
(* TypeOK is not inductive by itself.  The numbers that the server reports *)
(* are below MailCount because no mail has two numbers.                    *)
(***************************************************************************)
Distinct(s) == \A i, j \in 1 .. Len(s) : s[i] = s[j] => i = j

Places ==
    /\ state \in States /\ task \in {"none", "running", "deleted"}
    /\ expunged \in BOOLEAN /\ idleSupported \in BOOLEAN /\ leftover \subseteq {"queue", "line"}
    /\ rx \in {"empty", "part", "junk", "junk tag", "junk capability"}
    /\ conn \in {"none", "open", "reset", "closed"} /\ net \in BOOLEAN
    /\ drops \in 0 .. Drops /\ idling \in BOOLEAN

Downloads ==
    /\ queue \in Seq(Numbers) /\ fetching \in Numbers \cup {None}
    /\ fetching # None => state = "CHECKING"

Told == known \subseteq Numbers /\ shown \in [Numbers -> Mails \cup {None}]

Wires == toServer \in Seq(Commands) /\ toClient \in Seq(Lines)

Mailbox == arrived \in 0 .. MailCount /\ box \subseteq 1 .. arrived /\ unread \subseteq box

Viewed == view \in Seq(Mails) /\ Distinct(view) /\ told \subseteq Mails

Started == task = "none" => state = "DISCONNECT"

TypeInv == Places /\ Downloads /\ Told /\ Wires /\ Mailbox /\ Viewed /\ Started

(***************************************************************************)
(* What is under way on an open connection, in each state.                 *)
(***************************************************************************)
AnswersOnly(s, C) == \A i \in 1 .. Len(s) : IsTagged(s[i]) => s[i].of \in C

No(c) == Tagged("no", c, None)
Capability == [k |-> "capability"]
Exists == [k |-> "exists"]
Joined == "line" \in leftover
Junky == rx \notin {"empty", "part"}

\* Replies that the notifier takes no notice of while it waits for that to SEARCH.
Stale == IF Joined THEN {"IDLE", "SELECT"} ELSE {"IDLE"}

\* The reply to SEARCH has come, and is the last line.
EndsInSearch(s, C) ==
    /\ s # <<>> /\ IsTagged(s[Len(s)]) /\ s[Len(s)].of = "SEARCH"
    /\ \A i \in 1 .. Len(s) - 1 : IsTagged(s[i]) => s[i].of \in C

OnConnect ==
    /\ state = "CONNECT" /\ ~idling /\ fetching = None
    /\ toServer = <<>> /\ toClient = <<>>

OnLogin ==
    /\ state = "AUTHING" /\ ~idling /\ fetching = None
    /\ \/ toServer = <<Command("LOGIN")>> /\ toClient = <<>>
       \/ toServer = <<>> /\ toClient \in {<<Capability, Ok("LOGIN")>>, <<No("LOGIN")>>}
       \/ toServer = <<>> /\ toClient = <<Ok("LOGIN")>> /\ ~Junky
       \/ toServer = <<>> /\ toClient = <<>> /\ Joined

OnSelect ==
    /\ state = "SELECTING" /\ ~idling /\ fetching = None /\ ~Junky
    /\ \/ toServer = <<Command("SELECT")>> /\ toClient = <<>>
       \/ /\ toServer = <<>>
          /\ toClient \in {<<Exists, Ok("SELECT")>>, <<Ok("SELECT")>>, <<No("SELECT")>>}
       \/ Joined /\ toServer = <<Command("SELECT")>> /\ toClient = <<Ok("LOGIN")>>
       \/ /\ Joined /\ toServer = <<>>
          /\ toClient \in {<<Ok("LOGIN"), Exists, Ok("SELECT")>>, <<Ok("LOGIN"), No("SELECT")>>}

OnCheck ==
    /\ state = "CHECKING" /\ fetching = None /\ ~Junky
    /\ \/ /\ toServer = <<Command("DONE"), Command("SEARCH")>> /\ idling
          /\ AnswersOnly(toClient, {})
       \/ /\ toServer = <<Command("SEARCH")>> /\ ~idling
          /\ AnswersOnly(toClient, Stale)
       \/ /\ toServer = <<Command("SELECT"), Command("SEARCH")>> /\ ~idling
          /\ toClient = <<>> /\ Joined
       \/ toServer = <<>> /\ ~idling /\ EndsInSearch(toClient, Stale)

OnFetch ==
    /\ state = "CHECKING" /\ fetching # None /\ ~idling /\ ~Junky
    /\ \/ toServer = <<Fetch(fetching)>> /\ toClient = <<>>
       \/ /\ toServer = <<>> /\ Len(toClient) = 1
          /\ IsTagged(toClient[1]) /\ toClient[1].of = "FETCH"

OnIdle ==
    /\ state = "IDLE" /\ fetching = None /\ ~Junky
    /\ \/ idling /\ toServer = <<>> /\ AnswersOnly(toClient, {})
       \/ ~idling /\ toServer \in {<<>>, <<Command("IDLE")>>} /\ toClient = <<>>

Dialogue == OnConnect \/ OnLogin \/ OnSelect \/ OnCheck \/ OnFetch \/ OnIdle

Lost ==
    /\ conn = "open" => task = "running"
    /\ conn # "open" => toServer = <<>>
    /\ conn \in {"reset", "closed"} => toClient = <<>>
    /\ task # "deleted" /\ conn = "none" => state = "DISCONNECT" /\ toClient = <<>>
    /\ task # "deleted" /\ state = "DISCONNECT" => conn = "none"

DialogueInv == Lost /\ (conn = "open" => Dialogue)
-------------------------------------------------------------------------------
(***************************************************************************)
(* Short sequences.                                                        *)
(***************************************************************************)
LEMMA Short ==
    /\ \A a : Len(<<a>>) = 1 /\ Head(<<a>>) = a /\ Tail(<<a>>) = <<>> /\ <<a>> # <<>> /\ <<a>>[1] = a
    /\ \A a, b : /\ Len(<<a, b>>) = 2 /\ Head(<<a, b>>) = a /\ Tail(<<a, b>>) = <<b>>
                 /\ <<a, b>> # <<>>
    /\ \A a, b, c : /\ Len(<<a, b, c>>) = 3 /\ Head(<<a, b, c>>) = a /\ Tail(<<a, b, c>>) = <<b, c>>
                    /\ <<a, b, c>> # <<>>
  OBVIOUS

\* One behind another.
LEMMA Joins ==
    ASSUME NEW a, NEW b, NEW c
    PROVE  /\ <<>> \o <<a>> = <<a>> /\ <<>> \o <<a, b>> = <<a, b>> /\ <<a>> \o <<>> = <<a>>
           /\ <<>> \o <<>> = <<>>
           /\ <<a>> \o <<b>> = <<a, b>> /\ <<a>> \o <<b, c>> = <<a, b, c>>
<1> DEFINE S == {a, b, c}
<1>1. /\ <<>> \in Seq(S) /\ <<a>> \in Seq(S) /\ <<b>> \in Seq(S) /\ <<a, b>> \in Seq(S)
      /\ <<b, c>> \in Seq(S) /\ <<a, b, c>> \in Seq(S)
  OBVIOUS
<1>2. Len(<<a>>) = 1 /\ Len(<<b>>) = 1 /\ <<a>>[1] = a /\ <<b>>[1] = b
  OBVIOUS
<1>3. /\ Len(<<a, b>>) = 2 /\ <<a, b>>[1] = a /\ <<a, b>>[2] = b
      /\ Len(<<b, c>>) = 2 /\ <<b, c>>[1] = b /\ <<b, c>>[2] = c
  OBVIOUS
<1>4. Len(<<a, b, c>>) = 3 /\ <<a, b, c>>[1] = a /\ <<a, b, c>>[2] = b /\ <<a, b, c>>[3] = c
  OBVIOUS
<1>5. /\ <<>> \o <<a>> = <<a>> /\ <<>> \o <<a, b>> = <<a, b>> /\ <<a>> \o <<>> = <<a>>
      /\ <<>> \o <<>> = <<>>
  BY <1>1, ConcatEmptySeq
<1>6. <<a>> \o <<b>> = <<a, b>>
  <2> DEFINE s == <<a>> \o <<b>>
             t == <<a, b>>
  <2>1. /\ s \in Seq(S) /\ Len(s) = 1 + 1
        /\ \A i \in 1 .. 1 + 1 : s[i] = IF i <= 1 THEN <<a>>[i] ELSE <<b>>[i - 1]
    BY <1>1, <1>2, ConcatProperties
  <2>2. s[1] = a /\ s[2] = b /\ Len(s) = 2
    BY <1>2, <2>1
  <2>3. t \in Seq(S) /\ Len(t) = 2 /\ t[1] = a /\ t[2] = b
    BY <1>1, <1>3
  <2> HIDE DEF s, t
  <2>4. \A i \in 1 .. Len(s) : s[i] = t[i]
    BY <2>2, <2>3
  <2>5. s = t
    BY ONLY <2>1, <2>2, <2>3, <2>4, SeqEqual
  <2> QED
    BY <2>5 DEF s, t
<1>7. <<a>> \o <<b, c>> = <<a, b, c>>
  <2> DEFINE s == <<a>> \o <<b, c>>
             t == <<a, b, c>>
  <2>1. /\ s \in Seq(S) /\ Len(s) = 1 + 2
        /\ \A i \in 1 .. 1 + 2 : s[i] = IF i <= 1 THEN <<a>>[i] ELSE <<b, c>>[i - 1]
    BY <1>1, <1>2, <1>3, ConcatProperties
  <2>2. s[1] = a /\ s[2] = b /\ s[3] = c /\ Len(s) = 3
    BY <1>2, <1>3, <2>1
  <2>3. t \in Seq(S) /\ Len(t) = 3 /\ t[1] = a /\ t[2] = b /\ t[3] = c
    BY <1>1, <1>4
  <2> HIDE DEF s, t
  <2>4. \A i \in 1 .. Len(s) : s[i] = t[i]
    BY <2>2, <2>3
  <2>5. s = t
    BY ONLY <2>1, <2>2, <2>3, <2>4, SeqEqual
  <2> QED
    BY <2>5 DEF s, t
<1> QED
  BY <1>5, <1>6, <1>7

\* A sequence without its last element.
LEMMA FrontFacts ==
    ASSUME NEW S, NEW s \in Seq(S), s # <<>>
    PROVE  Last(s) \in S /\ Front(s) \in Seq(S)
<1>1. Len(s) \in Nat \ {0} /\ \A i \in 1 .. Len(s) : s[i] \in S
  BY EmptySeq, ElementOfSeq
<1>2. Last(s) \in S
  BY <1>1 DEF Last
<1>3. 1 \in Int /\ Len(s) - 1 \in Int /\ \A i \in 1 .. Len(s) - 1 : s[i] \in S
  BY <1>1
<1>4. SubSeq(s, 1, Len(s) - 1) \in Seq(S)
  BY <1>3, SubSeqProperties
<1> QED
  BY <1>2, <1>4 DEF Front

\* One without its first element, or without one in the middle.
LEMMA TailFacts ==
    ASSUME NEW S, NEW s \in Seq(S), s # <<>>
    PROVE  /\ Head(s) \in S /\ Head(s) = s[1] /\ Tail(s) \in Seq(S)
           /\ Len(s) \in Nat \ {0} /\ Len(Tail(s)) = Len(s) - 1
           /\ \A i \in 1 .. Len(Tail(s)) : Tail(s)[i] = s[i + 1]
<1>1. Len(s) \in Nat \ {0} /\ Head(s) = s[1]
  BY EmptySeq
<1> QED
  BY <1>1, HeadTailProperties

\* What is left has no repetitions either, and nothing new.
LEMMA RemoveFacts ==
    ASSUME NEW S, NEW s \in Seq(S), NEW i \in 1 .. Len(s), Distinct(s)
    PROVE  RemoveAt(s, i) \in Seq(S) /\ Distinct(RemoveAt(s, i)) /\ 
           \A j \in 1 .. Len(RemoveAt(s, i)) : RemoveAt(s, i)[j] \in Range(s)
<1> DEFINE n == Len(s)
           a == SubSeq(s, 1, i - 1)
           b == SubSeq(s, i + 1, n)
<1>1. n \in Nat /\ i \in 1 .. n /\ \A j \in 1 .. n : s[j] \in S
  BY LenProperties, ElementOfSeq
<1>2. a \in Seq(S) /\ Len(a) = i - 1 /\ \A j \in 1 .. i - 1 : a[j] = s[j]
  <2>1. \A j \in 1 .. i - 1 : s[j] \in S
    BY <1>1
  <2>2. i - 1 \in Int /\ 1 \in Int
    BY <1>1
  <2>3. /\ a \in Seq(S) /\ Len(a) = IF 1 <= i - 1 THEN i - 1 - 1 + 1 ELSE 0
        /\ \A j \in 1 .. i - 1 - 1 + 1 : a[j] = s[1 + j - 1]
    BY <2>1, <2>2, SubSeqProperties
  <2> HIDE DEF a
  <2> QED
    BY <1>1, <2>3
<1>3. b \in Seq(S) /\ Len(b) = n - i /\ \A j \in 1 .. n - i : b[j] = s[i + j]
  <2>1. \A j \in i + 1 .. n : s[j] \in S
    BY <1>1
  <2>2. i + 1 \in Int /\ n \in Int
    BY <1>1
  <2>3. /\ b \in Seq(S) /\ Len(b) = IF i + 1 <= n THEN n - (i + 1) + 1 ELSE 0
        /\ \A j \in 1 .. n - (i + 1) + 1 : b[j] = s[i + 1 + j - 1]
    BY <2>1, <2>2, SubSeqProperties
  <2> HIDE DEF b, n
  <2>4. \A j \in 1 .. n - i : i + 1 + j - 1 = i + j /\ j \in 1 .. n - (i + 1) + 1
    BY <1>1
  <2> QED
    BY <1>1, <2>3, <2>4
<1> DEFINE r == a \o b
<1>4. /\ r \in Seq(S) /\ Len(r) = (i - 1) + (n - i)
      /\ \A j \in 1 .. (i - 1) + (n - i) : r[j] = IF j <= i - 1 THEN a[j] ELSE b[j - (i - 1)]
  <2>1. /\ r \in Seq(S) /\ Len(r) = Len(a) + Len(b)
        /\ \A j \in 1 .. Len(a) + Len(b) : r[j] = IF j <= Len(a) THEN a[j] ELSE b[j - Len(a)]
    BY ONLY <1>2, <1>3, ConcatProperties
  <2> HIDE DEF a, b, r, n
  <2> QED
    BY <1>2, <1>3, <2>1
<1> HIDE DEF a, b, r, n
<1>5. Len(r) = n - 1 /\ \A j \in 1 .. n - 1 : r[j] = s[IF j < i THEN j ELSE j + 1]
  <2>1. Len(r) = n - 1
    BY <1>1, <1>4
  <2>2. ASSUME NEW j \in 1 .. n - 1, j < i PROVE r[j] = s[j]
    BY <1>1, <1>2, <1>4, <2>2
  <2>3. ASSUME NEW j \in 1 .. n - 1, ~(j < i) PROVE r[j] = s[j + 1]
    <3>1. j - (i - 1) \in 1 .. n - i /\ i + (j - (i - 1)) = j + 1
      BY <1>1, <2>3
    <3>2. r[j] = b[j - (i - 1)]
      BY <1>1, <1>4, <2>3
    <3> QED
      BY <1>3, <3>1, <3>2
  <2> QED
    BY <2>1, <2>2, <2>3
<1>6. \A j \in 1 .. n - 1 : (IF j < i THEN j ELSE j + 1) \in 1 .. n
  BY <1>1
<1>7. Distinct(r)
  <2> SUFFICES ASSUME NEW j \in 1 .. n - 1, NEW k \in 1 .. n - 1, r[j] = r[k] PROVE j = k
    BY <1>5 DEF Distinct
  <2>1. (IF j < i THEN j ELSE j + 1) = (IF k < i THEN k ELSE k + 1)
    BY <1>5, <1>6 DEF Distinct, n
  <2> QED
    BY <1>1, <2>1
<1>8. \A j \in 1 .. Len(r) : r[j] \in Range(s)
  BY <1>1, <1>5, <1>6, LenProperties DEF Range, n
<1> QED
  BY <1>4, <1>7, <1>8 DEF RemoveAt, r, a, b, n

\* One that is appended, of what is not yet in the sequence.
LEMMA AppendFacts ==
    ASSUME NEW S, NEW s \in Seq(S), NEW t \in Seq(S), Distinct(s), Distinct(t),
           \A i \in 1 .. Len(s), j \in 1 .. Len(t) : s[i] # t[j]
    PROVE  s \o t \in Seq(S) /\ Distinct(s \o t)
<1> DEFINE r == s \o t
<1>1. Len(s) \in Nat /\ Len(t) \in Nat
  BY LenProperties
<1>2. /\ r \in Seq(S) /\ Len(r) = Len(s) + Len(t)
      /\ \A j \in 1 .. Len(s) + Len(t) : r[j] = IF j <= Len(s) THEN s[j] ELSE t[j - Len(s)]
  BY ONLY ConcatProperties
<1> HIDE DEF r
<1>3. ASSUME NEW i \in 1 .. Len(r), NEW j \in 1 .. Len(r), r[i] = r[j] PROVE i = j
  <2>1. CASE i <= Len(s) /\ j <= Len(s)
    BY <1>1, <1>2, <1>3, <2>1 DEF Distinct
  <2>2. CASE i > Len(s) /\ j > Len(s)
    <3>1. i - Len(s) \in 1 .. Len(t) /\ j - Len(s) \in 1 .. Len(t)
      BY <1>1, <1>2, <2>2
    <3>2. t[i - Len(s)] = t[j - Len(s)]
      BY <1>1, <1>2, <1>3, <2>2
    <3>3. i - Len(s) = j - Len(s)
      BY <3>1, <3>2 DEF Distinct
    <3>4. i \in Int /\ j \in Int /\ Len(s) \in Int
      BY <1>1
    <3> QED
      BY ONLY <3>3, <3>4
  <2>3. CASE i <= Len(s) /\ j > Len(s)
    <3>1. j - Len(s) \in 1 .. Len(t) /\ i \in 1 .. Len(s)
      BY <1>1, <1>2, <2>3
    <3>2. r[i] = s[i] /\ r[j] = t[j - Len(s)]
      BY <1>1, <1>2, <2>3
    <3> QED
      BY <1>3, <3>1, <3>2
  <2>4. CASE i > Len(s) /\ j <= Len(s)
    <3>1. i - Len(s) \in 1 .. Len(t) /\ j \in 1 .. Len(s)
      BY <1>1, <1>2, <2>4
    <3>2. r[j] = s[j] /\ r[i] = t[i - Len(s)]
      BY <1>1, <1>2, <2>4
    <3> QED
      BY <1>3, <3>1, <3>2
  <2> QED
    BY <1>1, <1>2, <2>1, <2>2, <2>3, <2>4
<1> QED
  BY <1>2, <1>3 DEF r, Distinct

\* A sequence without repetitions of mails is no longer than there are mails.
LEMMA DistinctIsShort ==
    ASSUME NEW s \in Seq(Mails), Distinct(s)
    PROVE  Len(s) \in 0 .. MailCount
<1>1. Len(s) \in Nat /\ MailCount \in Nat /\ s \in [1 .. Len(s) -> Mails]
  BY LenProperties, ImapAssumption
<1>2. IsFiniteSet(Mails) /\ Cardinality(Mails) = MailCount
  <2>1. Cardinality(1 .. MailCount) = IF 1 > MailCount THEN 0 ELSE MailCount - 1 + 1
    BY <1>1, FS_Interval
  <2> QED
    BY <1>1, <2>1, FS_Interval DEF Mails
<1>3. s \in Injection(1 .. Len(s), Mails)
  BY <1>1 DEF Distinct, Injection, IsInjective
<1>4. Cardinality(1 .. Len(s)) <= Cardinality(Mails)
  BY <1>2, <1>3, FS_Injection
<1>5. Cardinality(1 .. Len(s)) = Len(s)
  <2>1. Cardinality(1 .. Len(s)) = IF 1 > Len(s) THEN 0 ELSE Len(s) - 1 + 1
    BY <1>1, FS_Interval
  <2> QED
    BY <1>1, <2>1
<1> QED
  BY <1>1, <1>2, <1>4, <1>5

\* The numbers of a set of mails or of numbers, in order.
LEMMA AscendingFacts ==
    ASSUME NEW S \in SUBSET (1 .. MailCount), NEW s \in Ascending(S)
    PROVE  s \in Seq(S) /\ Distinct(s) /\ \A i \in 1 .. Len(s) : s[i] \in S
<1>1. MailCount \in Nat
  BY ImapAssumption
<1>2. IsFiniteSet(S) /\ Cardinality(S) \in Nat
  <2>1. IsFiniteSet(1 .. MailCount)
    BY <1>1, FS_Interval
  <2>2. IsFiniteSet(S)
    BY <2>1, FS_Subset
  <2> QED
    BY <2>2, FS_CardinalityType
<1>3. s \in [1 .. Cardinality(S) -> S] /\ \A i, j \in 1 .. Cardinality(S) : i < j => s[i] < s[j]
  BY DEF Ascending
<1>4. s \in Seq(S) /\ Len(s) = Cardinality(S)
  BY <1>2, <1>3
<1>5. \A i \in 1 .. Cardinality(S) : s[i] \in S /\ s[i] \in Int
  <2>1. \A m \in S : m \in Int
    BY <1>1
  <2> QED
    BY <1>3, <2>1
<1>6. Distinct(s)
  <2> SUFFICES ASSUME NEW i \in 1 .. Cardinality(S), NEW j \in 1 .. Cardinality(S), s[i] = s[j], i < j
               PROVE  FALSE
    BY <1>2, <1>4 DEF Distinct
  <2> QED
    BY <1>3, <1>5
<1> QED
  BY <1>4, <1>5, <1>6

\* Lines and commands.
LEMMA LineTypes ==
    /\ \A c \in {"LOGIN", "SELECT", "SEARCH", "IDLE"} : Ok(c) \in Lines /\ Tagged("no", c, None) \in Lines
    /\ \A k \in {"no", "bad"} : Tagged(k, "FETCH", None) \in Lines
    /\ \A m \in Mails : Tagged("ok", "FETCH", m) \in Lines
    /\ [k |-> "capability"] \in Lines /\ [k |-> "exists"] \in Lines
    /\ \A i \in Numbers : [k |-> "seen", n |-> i] \in Lines /\ [k |-> "expunge", n |-> i] \in Lines
    /\ \A s \in SUBSET Numbers : [k |-> "search", ids |-> s] \in Lines
<1>1. None \in 0 .. MailCount /\ Mails \subseteq 0 .. MailCount
  BY ImapAssumption DEF None, Mails
<1>2. \A k \in {"ok", "no", "bad"}, c \in {"LOGIN", "SELECT", "SEARCH", "FETCH", "IDLE"},
        m \in 0 .. MailCount : Tagged(k, c, m) \in Lines
  BY DEF Tagged, Lines
<1>3. [k |-> "capability"] \in Lines /\ [k |-> "exists"] \in Lines
  BY DEF Lines
<1>4. \A i \in Numbers : [k |-> "seen", n |-> i] \in Lines /\ [k |-> "expunge", n |-> i] \in Lines
  BY DEF Lines
<1>5. \A s \in SUBSET Numbers : [k |-> "search", ids |-> s] \in Lines
  BY DEF Lines
<1> QED
  BY <1>1, <1>2, <1>3, <1>4, <1>5 DEF Ok

\* What a line carries.
LEMMA LineFields ==
    ASSUME NEW l \in Lines
    PROVE  /\ IsTagged(l) => l.m \in Mails \cup {None}
           /\ l.k \in {"seen", "expunge"} => l.n \in Numbers
           /\ l.k = "search" => l.ids \in SUBSET Numbers
<1>1. 0 .. MailCount = Mails \cup {None}
  BY ImapAssumption DEF Mails, None
<1> QED
  BY <1>1 DEF Lines, IsTagged

\* The commands.
LEMMA CommandTypes ==
    /\ \A c \in {"LOGIN", "SELECT", "SEARCH", "IDLE", "DONE"} : Command(c) \in Commands
    /\ \A n \in Numbers : Fetch(n) \in Commands
  BY DEF Commands

\* Types are sequences.
LEMMA SomeSequences ==
    ASSUME NEW S
    PROVE  /\ <<>> \in Seq(S) /\ \A a \in S : <<a>> \in Seq(S) /\ \A b \in S : <<a, b>> \in Seq(S)
           /\ \A s, t \in Seq(S) : s \o t \in Seq(S)
<1>1. \A s, t \in Seq(S) : s \o t \in Seq(S)
  BY ConcatProperties
<1> QED
  BY <1>1
-------------------------------------------------------------------------------
(***************************************************************************)
(* Type correctness.                                                       *)
(***************************************************************************)
LEMMA TransmitType ==
    ASSUME Wires, NEW cs \in Seq(Commands), Transmit(cs)
    PROVE  toServer' \in Seq(Commands)
  BY SomeSequences DEF Wires, Transmit

\* The next number is one that was found.
LEMMA DownloadNextType ==
    ASSUME TypeInv, state = "CHECKING", DownloadNext
    PROVE  Downloads' /\ toServer' \in Seq(Commands) /\ state' \in States
<1>1. CASE queue # <<>>
  <2>1. Last(queue) \in Numbers /\ Front(queue) \in Seq(Numbers)
    BY <1>1, FrontFacts DEF TypeInv, Downloads
  <2>2. <<Fetch(Last(queue))>> \in Seq(Commands)
    BY <2>1, CommandTypes, SomeSequences
  <2>3. toServer' \in Seq(Commands)
    BY <1>1, <2>2, TransmitType DEF DownloadNext, TypeInv
  <2> QED
    BY <1>1, <2>1, <2>3 DEF DownloadNext, Downloads, TypeInv, Places
<1>2. CASE queue = <<>>
  <2> DEFINE cs == IF idleSupported THEN <<Command("IDLE")>> ELSE <<>>
  <2>1. cs \in Seq(Commands)
    BY CommandTypes, SomeSequences
  <2>2. Transmit(cs)
    BY <1>2 DEF DownloadNext
  <2>3. toServer' \in Seq(Commands)
    BY <2>1, <2>2, TransmitType DEF TypeInv
  <2> HIDE DEF cs
  <2> QED
    BY <1>2, <2>3 DEF DownloadNext, Downloads, TypeInv, Places, States
<1> QED
  BY <1>1, <1>2

\* Nothing is known any more, and a search is sent.
LEMMA ManualCheckType ==
    ASSUME TypeInv, NEW before \in Seq(Commands), ManualCheck(before)
    PROVE  Told' /\ toServer' \in Seq(Commands) /\ state' \in States
<1>1. before \o <<Command("SEARCH")>> \in Seq(Commands)
  BY CommandTypes, SomeSequences
<1>2. toServer' \in Seq(Commands)
  BY <1>1, TransmitType DEF ManualCheck, TypeInv
<1> QED
  BY <1>2 DEF ManualCheck, Withdrawn, Told, TypeInv, States

\* What process_line may change.
Processed ==
    /\ state' \in States /\ task' \in {"none", "running", "deleted"}
    /\ conn' \in {"none", "open", "reset", "closed"}
    /\ expunged' \in BOOLEAN /\ idleSupported' \in BOOLEAN /\ leftover' \subseteq {"queue", "line"}
    /\ Downloads' /\ Told' /\ toServer' \in Seq(Commands)

\* A reply.
LEMMA ReplyType ==
    ASSUME TypeInv, Listening, NEW l \in Lines, Reply(l)
    PROVE  Processed
<1> USE DEF TypeInv, Places
<1>1. CASE /\ state = "AUTHING" /\ Transmit(<<Command("SELECT")>>) /\ state' = "SELECTING"
           /\ UNCHANGED <<others, notes, conn>>
  <2>1. toServer' \in Seq(Commands)
    BY <1>1, TransmitType, CommandTypes, SomeSequences
  <2> QED
    BY <1>1, <2>1 DEF Processed, States, Downloads, Told, others, notes, Listening
<1>2. CASE state = "SELECTING" /\ ManualCheck(<<>>) /\ UNCHANGED <<others, expunged, leftover, conn>>
  <2>1. Told' /\ toServer' \in Seq(Commands) /\ state' \in States
    BY <1>2, ManualCheckType, SomeSequences
  <2> QED
    BY <1>2, <2>1 DEF Processed, Downloads, others, Listening
<1>3. CASE state = "CHECKING" /\ DownloadNext /\ UNCHANGED <<task, idleSupported, notes, conn>>
  <2>1. Downloads' /\ toServer' \in Seq(Commands) /\ state' \in States
    BY <1>3, DownloadNextType
  <2> QED
    BY <1>3, <2>1 DEF Processed, Told, notes
<1>4. CASE Deinit /\ UNCHANGED notes
  <2>1. toServer' \in Seq(Commands)
    BY <1>4, SomeSequences DEF Deinit
  <2> QED
    BY <1>4, <2>1 DEF Deinit, Processed, Downloads, Told, notes
<1>5. CASE UNCHANGED <<progress, notes, conn, toServer>>
  BY <1>5 DEF Processed, Downloads, Told, Wires, progress, others, notes
<1> QED
  BY <1>1, <1>2, <1>3, <1>4, <1>5 DEF Reply

\* Another line.
LEMMA UntaggedType ==
    ASSUME TypeInv, Listening, NEW l \in Lines, Untagged(l), UNCHANGED conn
    PROVE  Processed
<1> USE DEF TypeInv, Places
<1>1. CASE UNCHANGED <<state, task, queue, fetching, notes, toServer>> /\ idleSupported' = TRUE
  BY <1>1 DEF Processed, Downloads, Told, Wires, notes
<1>2. CASE /\ l.k = "search"
           /\ IF state = "CHECKING" /\ Cardinality(l.ids) <= LineIds
              THEN \E found \in Found(l.ids) : queue' = queue \o found
              ELSE UNCHANGED queue
           /\ UNCHANGED <<state, task, fetching, idleSupported, notes, toServer>>
  <2>1. l.ids \in SUBSET (1 .. MailCount)
    BY <1>2, LineFields DEF Numbers
  <2>2. \A found \in Found(l.ids) : queue \o found \in Seq(Numbers)
    <3> SUFFICES ASSUME NEW found \in Found(l.ids) PROVE queue \o found \in Seq(Numbers)
      OBVIOUS
    <3>1. found \in Seq(l.ids)
      BY <2>1, AscendingFacts DEF Found
    <3>2. found \in Seq(Numbers)
      BY <2>1, <3>1, SeqMonotonic DEF Numbers
    <3> QED
      BY <3>2, SomeSequences DEF Downloads
  <2>3. queue' \in Seq(Numbers)
    BY <1>2, <2>2 DEF Downloads
  <2> QED
    BY <1>2, <2>3 DEF Processed, Downloads, Told, Wires, notes
<1>3. CASE UNCHANGED <<progress, notes, toServer>>
  BY <1>3 DEF Processed, Downloads, Told, Wires, progress, others, notes
<1>4. CASE expunged' = FALSE /\ UNCHANGED <<progress, known, shown, leftover, toServer>>
  BY <1>4 DEF Processed, Downloads, Told, Wires, progress, others
<1>5. CASE ManualCheck(<<Command("DONE")>>) /\ UNCHANGED <<others, expunged, leftover>>
  <2>1. Told' /\ toServer' \in Seq(Commands) /\ state' \in States
    BY <1>5, ManualCheckType, CommandTypes, SomeSequences
  <2> QED
    BY <1>5, <2>1 DEF Processed, Downloads, others, Listening
<1>6. CASE /\ shown' = Withdrawn({l.n}) /\ known' = known \ {l.n}
           /\ expunged' = (expunged \/ l.k = "expunge")
           /\ UNCHANGED <<progress, leftover, toServer>>
  <2>1. Told'
    BY <1>6 DEF Told, Withdrawn
  <2> QED
    BY <1>6, <2>1 DEF Processed, Downloads, Wires, progress, others
<1> QED
  BY <1>1, <1>2, <1>3, <1>4, <1>5, <1>6 DEF Untagged

\* The notifier reads.
LEMMA ReadingType ==
    ASSUME TypeInv, ReadPart \/ ReadLine \/ ReadJoined
    PROVE  TypeInv'
<1>0. Started'
  BY DEF ReadPart, ReadLine, ReadJoined, Reply, Untagged, Deinit, Listening, progress, others, Started
<1>1. CASE ReadPart
  BY <1>0, <1>1 DEF ReadPart, TypeInv, Places, Downloads, Told, Wires, Mailbox, Viewed, progress, others,
              notes, line, mailbox, session, Distinct
<1>2. ASSUME Listening, toClient # <<>>
      PROVE  Head(toClient) \in Lines /\ Tail(toClient) \in Seq(Lines)
  BY <1>2, TailFacts DEF TypeInv, Wires
<1>3. CASE ReadLine
  <2>1. Processed
    BY <1>2, <1>3, ReplyType, UntaggedType DEF ReadLine
  <2>2. Tail(toClient) \in Seq(Lines)
    BY <1>2, <1>3 DEF ReadLine
  <2>3. rx' = "empty" /\ toClient' = Tail(toClient) /\ UNCHANGED <<net, drops, mailbox, session>>
    BY <1>3 DEF ReadLine
  <2> QED
    BY <1>0, <2>1, <2>2, <2>3 DEF Processed, TypeInv, Places, Wires, Mailbox, Viewed, mailbox, session, Distinct
<1>4. CASE ReadJoined
  <2>1. Tail(toClient) \in Seq(Lines)
    BY <1>2, <1>4 DEF ReadJoined
  <2>2. /\ rx' = "empty" /\ toClient' = Tail(toClient) /\ leftover' = leftover \cup {"line"}
        /\ UNCHANGED <<known, shown, expunged, net, drops, mailbox, session>>
    BY <1>4 DEF ReadJoined
  <2>3. \/ UNCHANGED <<progress, conn, toServer>>
        \/ idleSupported' = TRUE /\ UNCHANGED <<state, task, queue, fetching, conn, toServer>>
        \/ /\ Transmit(<<Command("SELECT")>>) /\ state' = "SELECTING" /\ fetching = None
           /\ UNCHANGED <<others, conn>>
        \/ Deinit
    BY <1>4 DEF ReadJoined, Listening
  <2>4. toServer' \in Seq(Commands)
    BY <2>3, TransmitType, CommandTypes, SomeSequences DEF Deinit, TypeInv, Wires
  <2>5. /\ state' \in States /\ task' \in {"none", "running", "deleted"}
        /\ conn' \in {"none", "open", "reset", "closed"} /\ idleSupported' \in BOOLEAN /\ Downloads'
    BY <2>3 DEF Deinit, TypeInv, Places, Downloads, progress, others, States
  <2> QED
    BY <1>0, <2>1, <2>2, <2>4, <2>5
       DEF TypeInv, Places, Told, Wires, Mailbox, Viewed, mailbox, session, Distinct
<1> QED
  BY <1>0, <1>1, <1>3, <1>4

\* It connects, and gives a connection up.
LEMMA ConnectingType ==
    ASSUME TypeInv, Construct \/ Connect \/ Login \/ LoseConnection
    PROVE  TypeInv'
<1> USE DEF TypeInv, Places
<1>0. \A S : <<>> \in Seq(S)
  BY EmptySeq
<1>7. Started'
  BY DEF Construct, Connect, Connected, Deinit, Login, LoseConnection, Listening, others, Started
<1>1. Connected => Wires' /\ view' = <<>> /\ told' = {} /\ idling' = FALSE
  BY <1>0 DEF Connected, Wires
<1>2. view' = <<>> /\ told' = {} => Viewed'
  <2> SUFFICES ASSUME view' = <<>>, told' = {} PROVE Viewed'
    OBVIOUS
  <2>1. Len(view') = 0 /\ view' \in Seq(Mails)
    BY <1>0, EmptySeq
  <2>2. \A i \in 1 .. Len(view') : FALSE
    BY ONLY <2>1
  <2>3. Distinct(view')
    BY <2>2 DEF Distinct
  <2> QED
    BY <2>1, <2>3 DEF Viewed, Distinct
<1>3. CASE Construct
  <2>1. \/ net /\ Connected
        \/ UNCHANGED <<state, conn, toServer, toClient, session>>
    BY <1>3 DEF Construct
  <2>2. Wires' /\ Viewed' /\ idling' \in BOOLEAN
    BY <1>1, <1>2, <2>1 DEF Wires, Viewed, Distinct, session
  <2>3. state' \in States /\ conn' \in {"none", "open", "reset", "closed"}
    BY <2>1 DEF Connected, States
  <2>4. state' # state => fetching = None
    BY <1>3 DEF Construct, Downloads, Started
  <2> QED
    BY <1>3, <1>7, <2>2, <2>3, <2>4 DEF Construct, Downloads, Told, Mailbox, notes, mailbox
<1>4. CASE Connect
  <2>1. fetching = None
    BY <1>4 DEF Connect, Downloads
  <2>2. \/ Connected /\ UNCHANGED others
        \/ Deinit /\ UNCHANGED <<toClient, session>>
    BY <1>4 DEF Connect
  <2>3. Wires' /\ Viewed' /\ idling' \in BOOLEAN
    <3>1. CASE Connected
      BY <1>1, <1>2, <3>1
    <3>2. CASE Deinit /\ UNCHANGED <<toClient, session>>
      BY <1>0, <3>2 DEF Deinit, Wires, Viewed, Distinct, session
    <3> QED
      BY <2>2, <3>1, <3>2
  <2>4. /\ state' \in States /\ conn' \in {"none", "open", "reset", "closed"}
        /\ task' \in {"none", "running", "deleted"} /\ UNCHANGED <<queue, fetching, idleSupported>>
    BY <2>2 DEF Connected, Deinit, States, others
  <2> QED
    BY <1>4, <1>7, <2>1, <2>3, <2>4 DEF Connect, Downloads, Told, Mailbox, notes, mailbox
<1>5. CASE Login
  <2>1. toServer' \in Seq(Commands)
    BY <1>5, TransmitType, CommandTypes, SomeSequences DEF Login
  <2> QED
    BY <1>5, <1>7, <2>1
       DEF Login, States, Downloads, Told, Wires, Mailbox, Viewed, Distinct, others, notes, line,
           mailbox, session
<1>6. CASE LoseConnection
  BY <1>6, <1>7
     DEF LoseConnection, Listening, States, Downloads, Told, Wires, Mailbox, Viewed, Distinct,
         others, mailbox, session
<1> QED
  BY <1>3, <1>4, <1>5, <1>6

\* Of the replies that end a download there is a first one.
LEMMA FirstReplyFacts ==
    ASSUME toClient \in Seq(Lines), FirstReply # 0
    PROVE  FirstReply \in 1 .. Len(toClient) /\ IsTagged(toClient[FirstReply])
           /\ EndsDownload(toClient[FirstReply])
<1> DEFINE I == {i \in 1 .. Len(toClient) : EndsDownload(toClient[i])}
<1>1. FirstReply = IF I # {} THEN Min(I) ELSE 0
  BY DEF FirstReply, SelectInSeq
<1>2. I # {} /\ I \subseteq Nat /\ Len(toClient) \in Nat
  BY <1>1, LenProperties
<1> DEFINE Less == OpToRel(<, Nat)
<1>3. PICK n \in I : \A m \in I : ~ (<<m, n>> \in Less)
  BY <1>2, NatLessThanWellFounded, WFMin
<1> HIDE DEF I
<1>6. \A m \in I : ~ (m < n)
  BY <1>2, <1>3 DEF OpToRel
<1>4. \A m \in I : n <= m
  BY <1>2, <1>6
<1>5. Min(I) \in I
  BY <1>4 DEF Min
<1> QED
  BY <1>1, <1>2, <1>5 DEF I, EndsDownload, IsTagged

\* A header has been downloaded, or not.
LEMMA DownloadedType ==
    ASSUME TypeInv, DownloadReply \/ DownloadBroken
    PROVE  TypeInv'
<1>0. Started'
  BY DEF DownloadReply, DownloadBroken, DownloadNext, Restart, Started
<1>1. CASE DownloadReply
  <2>1. /\ FirstReply \in 1 .. Len(toClient) /\ IsTagged(toClient[FirstReply])
        /\ fetching \in Numbers /\ state = "CHECKING"
    BY <1>1, FirstReplyFacts DEF DownloadReply, TypeInv, Downloads, Wires
  <2>2. toClient[FirstReply].m \in Mails \cup {None}
    BY <2>1, ElementOfSeq, LineFields DEF TypeInv, Wires
  <2>3. Downloads' /\ toServer' \in Seq(Commands) /\ state' \in States
    BY <1>1, <2>1, DownloadNextType DEF DownloadReply
  <2>4. toClient' \in Seq(Lines)
    <3>1. toClient' = SubSeq(toClient, FirstReply + 1, Len(toClient))
      BY <1>1 DEF DownloadReply
    <3>2. /\ Len(toClient) \in Nat /\ FirstReply + 1 \in Int
          /\ \A i \in FirstReply + 1 .. Len(toClient) : toClient[i] \in Lines
      BY <2>1, LenProperties, ElementOfSeq DEF TypeInv, Wires
    <3> HIDE DEF FirstReply
    <3> QED
      BY <3>1, <3>2, SubSeqProperties
  <2>5. Told'
    BY <1>1, <2>1, <2>2 DEF DownloadReply, Told, TypeInv
  <2> QED
    BY <1>0, <1>1, <2>3, <2>4, <2>5
       DEF DownloadReply, TypeInv, Places, Wires, Mailbox, Viewed, Distinct, line, mailbox, session
<1>2. CASE DownloadBroken
  <2>0. \A S : <<>> \in Seq(S)
    BY EmptySeq
  <2>1. CASE Restart
    <3>1. Wires' /\ Viewed' /\ queue' \in Seq(Numbers)
      BY <2>0, <2>1 DEF Restart, Wires, Viewed, Distinct
    <3>2. Told'
      BY <2>1 DEF Restart, Withdrawn, Told
    <3> QED
      BY <1>0, <1>2, <2>1, <3>1, <3>2
         DEF DownloadBroken, Restart, TypeInv, Places, Downloads, Mailbox, mailbox, States
  <2>2. CASE /\ fetching' = None /\ queue' = <<>> /\ state' = "IDLE"
             /\ UNCHANGED <<task, idleSupported, notes, rx, conn, toServer, toClient, session>>
    BY <1>0, <1>2, <2>0, <2>2
       DEF DownloadBroken, TypeInv, Places, Downloads, Told, Wires, Mailbox, Viewed, Distinct,
           States, notes, mailbox, session
  <2> QED
    BY <1>2, <2>1, <2>2 DEF DownloadBroken
<1> QED
  BY <1>1, <1>2

\* No mail is in the mailbox that never arrives.
LEMMA BoxFacts == ASSUME Mailbox PROVE box \in SUBSET (1 .. MailCount)
<1>1. arrived \in Nat /\ arrived <= MailCount /\ MailCount \in Nat
  BY ImapAssumption DEF Mailbox
<1>2. \A i \in 1 .. arrived : i \in 1 .. MailCount
  BY <1>1
<1> QED
  BY <1>2 DEF Mailbox

\* The server answers.
LEMMA AnswerType ==
    ASSUME TypeInv, Answers \/ Refuse
    PROVE  TypeInv'
<1> DEFINE Answered == /\ toServer # <<>> /\ toServer' = Tail(toServer)
                       /\ UNCHANGED <<progress, notes, rx, line, mailbox>>
<1>0. ASSUME Answered, toClient' \in Seq(Lines), Viewed', idling' \in BOOLEAN
      PROVE  TypeInv'
  <2>1. toServer' \in Seq(Commands)
    BY <1>0, TailFacts DEF TypeInv, Wires
  <2> QED
    BY <1>0, <2>1 DEF TypeInv, Places, Downloads, Told, Wires, Mailbox, Started, progress, others,
                      notes, line, mailbox
<1>1. ASSUME NEW a \in Lines, NEW b \in Lines
      PROVE  toClient \o <<a>> \in Seq(Lines) /\ toClient \o <<a, b>> \in Seq(Lines)
             /\ toClient \o <<>> \in Seq(Lines)
  <2>1. <<a>> \in Seq(Lines) /\ <<a, b>> \in Seq(Lines) /\ <<>> \in Seq(Lines)
    BY SomeSequences
  <2> QED
    BY <2>1, SomeSequences DEF TypeInv, Wires
<1>2. /\ DOMAIN view = 1 .. Len(view) /\ DOMAIN view \subseteq Numbers
      /\ \A i \in DOMAIN view : view[i] \in Mails
  BY DistinctIsShort, LenProperties, ElementOfSeq, ImapAssumption DEF TypeInv, Viewed, Numbers
<1>3. UNCHANGED session => Viewed' /\ idling' \in BOOLEAN
  BY DEF session, TypeInv, Places, Viewed, Distinct
<1>4. CASE AnswerLogin
  BY <1>0, <1>1, <1>3, <1>4, LineTypes DEF AnswerLogin, Asked, Answer
<1>5. CASE AnswerSelect
  <2>1. box \in SUBSET (1 .. MailCount)
    BY BoxFacts DEF TypeInv
  <2>2. view' \in Seq(box) /\ Distinct(view')
    BY <1>5, <2>1, AscendingFacts DEF AnswerSelect
  <2>3. view' \in Seq(Mails)
    BY <2>1, <2>2, SeqMonotonic DEF Mails
  <2>4. told' \subseteq Mails
    BY <1>5, <2>1 DEF AnswerSelect, Mails
  <2>5. Viewed'
    BY <2>2, <2>3, <2>4 DEF Viewed, Distinct
  <2> QED
    BY <1>0, <1>1, <1>5, <2>5, LineTypes DEF AnswerSelect, Asked, Answer, TypeInv, Places
<1>6. CASE AnswerSearch
  <2> DEFINE ids == {i \in DOMAIN view : view[i] \in unread}
  <2>1. [k |-> "search", ids |-> ids] \in Lines /\ Ok("SEARCH") \in Lines
    BY <1>2, LineTypes
  <2>2. toClient' \in Seq(Lines)
    BY <1>1, <1>6, <2>1 DEF AnswerSearch, Answer
  <2> QED
    BY <1>0, <1>3, <1>6, <2>2 DEF AnswerSearch, Asked, Answer
<1>7. CASE AnswerFetch
  <2>1. \A n : (IF n \in DOMAIN view THEN Tagged("ok", "FETCH", view[n])
                                     ELSE Tagged("bad", "FETCH", None)) \in Lines
    BY <1>2, LineTypes
  <2>2. toClient' \in Seq(Lines)
    BY <1>1, <1>7, <2>1 DEF AnswerFetch, Answer
  <2> QED
    BY <1>0, <1>3, <1>7, <2>2 DEF AnswerFetch, Asked, Answer
<1>8. CASE AnswerIdle \/ AnswerDone
  <2>1. Viewed' /\ idling' \in BOOLEAN
    BY <1>8 DEF AnswerIdle, AnswerDone, TypeInv, Viewed, Distinct
  <2>2. toClient' \in Seq(Lines)
    BY <1>1, <1>8, LineTypes DEF AnswerIdle, AnswerDone, Answer
  <2> QED
    BY <1>0, <1>8, <2>1, <2>2 DEF AnswerIdle, AnswerDone, Asked, Answer
<1>9. CASE Refuse
  <2>1. toClient' \in Seq(Lines)
    BY <1>1, <1>9, LineTypes DEF Refuse, Answer
  <2> QED
    BY <1>0, <1>3, <1>9, <2>1 DEF Refuse, Asked, Answer
<1> QED
  BY <1>4, <1>5, <1>6, <1>7, <1>8, <1>9 DEF Answers

\* It reports.
LEMMA ReportType ==
    ASSUME TypeInv, Reports
    PROVE  TypeInv'
<1>0. ASSUME NEW ls \in Seq(Lines), Report(ls), Viewed'
      PROVE  TypeInv'
  <2>1. toClient' \in Seq(Lines)
    BY <1>0, SomeSequences DEF Report, TypeInv, Wires
  <2> QED
    BY <1>0, <2>1 DEF Report, TypeInv, Places, Downloads, Told, Wires, Mailbox, Started, progress,
                      others, notes, line, mailbox
<1>1. /\ view \in Seq(Mails) /\ Distinct(view) /\ DOMAIN view = 1 .. Len(view)
      /\ 1 .. Len(view) \subseteq Numbers /\ \A i \in 1 .. Len(view) : view[i] \in Mails
  BY DistinctIsShort, LenProperties, ElementOfSeq, ImapAssumption DEF TypeInv, Viewed, Numbers
<1>2. New \in SUBSET (1 .. MailCount)
  BY BoxFacts DEF TypeInv, New
<1>3. ASSUME NEW new \in Ascending(New)
      PROVE  /\ new \in Seq(Mails) /\ Distinct(new)
             /\ \A j \in 1 .. Len(new) : new[j] \notin Range(view)
  <2>1. new \in Seq(New) /\ Distinct(new) /\ \A j \in 1 .. Len(new) : new[j] \in New
    BY <1>2, AscendingFacts
  <2>2. new \in Seq(Mails)
    BY <1>2, <2>1, SeqMonotonic DEF Mails
  <2> QED
    BY <2>1, <2>2 DEF New
<1>4. CASE ReportExists
  <2>1. PICK new \in Ascending(New) : view' = view \o new
    BY <1>4 DEF ReportExists
  <2>2. \A i \in 1 .. Len(view), j \in 1 .. Len(new) : view[i] # new[j]
    BY <1>1, <1>3 DEF Range
  <2>3. view \o new \in Seq(Mails) /\ Distinct(view \o new)
    BY <1>1, <1>3, <2>2, AppendFacts
  <2>4. Viewed'
    BY <1>4, <2>1, <2>3 DEF ReportExists, TypeInv, Viewed, Distinct
  <2>5. <<[k |-> "exists"]>> \in Seq(Lines)
    BY LineTypes, SomeSequences
  <2> QED
    BY <1>0, <1>4, <2>4, <2>5 DEF ReportExists
<1>5. CASE ReportSeen
  <2>1. PICK i \in DOMAIN view : /\ told' = told \cup {view[i]} /\ UNCHANGED view
                                 /\ Report(<<[k |-> "seen", n |-> i]>>)
    BY <1>5 DEF ReportSeen
  <2>2. Viewed'
    BY <1>1, <2>1 DEF TypeInv, Viewed, Distinct
  <2>3. <<[k |-> "seen", n |-> i]>> \in Seq(Lines)
    BY <1>1, LineTypes, SomeSequences
  <2> QED
    BY <1>0, <2>1, <2>2, <2>3
<1>6. CASE ReportExpunge
  <2>1. PICK i \in DOMAIN view :
            /\ \E new \in Ascending(New) : view' = RemoveAt(view, i) \o new
            /\ Report(<<[k |-> "expunge", n |-> i], [k |-> "exists"]>>)
            /\ UNCHANGED told
    BY <1>6 DEF ReportExpunge
  <2>2. PICK new \in Ascending(New) : view' = RemoveAt(view, i) \o new
    BY <2>1
  <2>3. /\ RemoveAt(view, i) \in Seq(Mails) /\ Distinct(RemoveAt(view, i))
        /\ \A j \in 1 .. Len(RemoveAt(view, i)) : RemoveAt(view, i)[j] \in Range(view)
    BY <1>1, RemoveFacts
  <2>4. \A j \in 1 .. Len(RemoveAt(view, i)), h \in 1 .. Len(new) : RemoveAt(view, i)[j] # new[h]
    BY <1>3, <2>3
  <2>5. RemoveAt(view, i) \o new \in Seq(Mails) /\ Distinct(RemoveAt(view, i) \o new)
    BY <1>3, <2>3, <2>4, AppendFacts
  <2>6. Viewed'
    BY <2>1, <2>2, <2>5 DEF TypeInv, Viewed, Distinct
  <2>7. <<[k |-> "expunge", n |-> i], [k |-> "exists"]>> \in Seq(Lines)
    <3>1. [k |-> "expunge", n |-> i] \in Lines /\ [k |-> "exists"] \in Lines
      BY <1>1, LineTypes
    <3> QED
      BY <3>1, SomeSequences
  <2> QED
    BY <1>0, <2>1, <2>6, <2>7
<1> QED
  BY <1>4, <1>5, <1>6 DEF Reports

\* Mail, the network and lost connections.
LEMMA WorldType ==
    ASSUME TypeInv, Arrive \/ (\E m \in Mails : Read(m) \/ Delete(m)) \/ EndConnection \/ Outage \/ NetworkBack
    PROVE  TypeInv'
<1>1. CASE Arrive
  <2>1. Mailbox'
    <3>1. arrived \in Nat /\ MailCount \in Nat /\ arrived < MailCount /\ arrived' = arrived + 1
      BY <1>1, ImapAssumption DEF Arrive, TypeInv, Mailbox
    <3>2. 1 .. arrived \subseteq 1 .. arrived' /\ arrived' \in 1 .. arrived' /\ arrived' \in 0 .. MailCount
      BY <3>1
    <3> QED
      BY <1>1, <3>2 DEF Arrive, TypeInv, Mailbox
  <2> QED
    BY <1>1, <2>1 DEF Arrive, TypeInv, Places, Downloads, Told, Wires, Viewed, Distinct, Started,
                      progress, others, notes, line, session
<1>2. ASSUME NEW m \in Mails, Read(m) \/ Delete(m) PROVE TypeInv'
  <2>1. Mailbox'
    <3>1. CASE Read(m)
      BY <3>1 DEF Read, TypeInv, Mailbox
    <3>2. CASE Delete(m)
      BY <3>2 DEF Delete, TypeInv, Mailbox
    <3> QED
      BY <1>2, <3>1, <3>2
  <2>2. UNCHANGED <<progress, notes, rx, line, toServer, toClient, session>>
    BY <1>2 DEF Read, Delete
  <2>3. (Places /\ Downloads /\ Told /\ Started)'
    BY <2>2 DEF TypeInv, Places, Downloads, Told, Started, progress, others, notes, line, session
  <2>4. (Wires /\ Viewed)'
    BY <2>2 DEF TypeInv, Wires, Viewed, Distinct, session
  <2> QED
    BY <2>1, <2>3, <2>4 DEF TypeInv
<1>3. ASSUME NEW kind, Drop(kind), net' \in BOOLEAN, conn' \in {"none", "open", "reset", "closed"}
      PROVE  TypeInv'
  <2>1. toServer' \in Seq(Commands) /\ toClient' \in Seq(Lines)
    BY <1>3, SomeSequences DEF Drop
  <2>2. drops' \in 0 .. Drops
    <3>3. drops \in 0 .. Drops
      BY DEF TypeInv, Places
    <3>4. Drops \in Nat
      BY ImapAssumption
    <3>1. drops \in Nat /\ Drops \in Nat
      BY ONLY <3>3, <3>4
    <3>2. drops < Drops /\ drops' = drops + 1
      BY <1>3 DEF Drop
    <3> QED
      BY ONLY <3>1, <3>2
  <2>3. rx' \in {"empty", "part", "junk", "junk tag", "junk capability"}
    BY <1>3 DEF Drop, Junk, TypeInv, Places
  <2> QED
    BY <1>3, <2>1, <2>2, <2>3
       DEF Drop, TypeInv, Places, Downloads, Told, Wires, Mailbox, Viewed, Distinct, Started,
           progress, others, notes, mailbox, session
<1>4. CASE EndConnection
  BY <1>3, <1>4 DEF EndConnection, TypeInv, Places
<1>5. CASE Outage
  BY <1>3, <1>5 DEF Outage, TypeInv, Places
<1>6. CASE NetworkBack
  BY <1>6 DEF NetworkBack, TypeInv, Places, Downloads, Told, Wires, Mailbox, Viewed, Distinct,
              Started, progress, others, notes, mailbox, session
<1> QED
  BY <1>1, <1>2, <1>4, <1>5, <1>6

\* Every step.
LEMMA NextType == ASSUME TypeInv, [Next]_vars PROVE TypeInv'
<1>1. CASE UNCHANGED vars
  BY <1>1 DEF vars, TypeInv, Places, Downloads, Told, Wires, Mailbox, Viewed, Distinct, Started,
              progress, others, notes, line, mailbox, session
<1>2. CASE Notifier
  BY <1>2, ConnectingType, ReadingType, DownloadedType DEF Notifier
<1> QED
  BY <1>1, <1>2, AnswerType, ReportType, WorldType DEF Next

\* A new run.
LEMMA InitType == ASSUME Init PROVE TypeInv
<1>1. \A S : <<>> \in Seq(S)
  BY EmptySeq
<1>2. Len(<<>>) = 0
  BY EmptySeq
<1>3. \A i \in 1 .. 0 : FALSE
  OBVIOUS
<1>4. Wires /\ Viewed
  BY <1>1, <1>2, <1>3 DEF Init, Wires, Viewed, Distinct
<1>5. Places /\ Mailbox /\ Started
  <2>1. 0 \in 0 .. Drops /\ 0 \in 0 .. MailCount
    BY ImapAssumption
  <2>2. Mailbox
    BY <2>1 DEF Init, Mailbox
  <2> QED
    BY <2>1, <2>2 DEF Init, Places, States, Started
<1>6. Downloads /\ Told
  BY <1>1 DEF Init, Downloads, Told
<1> QED
  BY <1>4, <1>5, <1>6 DEF TypeInv

(***************************************************************************)
(* The session's variables stay in their types; in particular a number     *)
(* that is found, fetched or announced is one that a mail can have.        *)
(***************************************************************************)
THEOREM TypeCorrect == Spec => []TypeOK
<1>1. TypeInv => TypeOK
  BY DEF TypeInv, Places, Downloads, Told, Wires, Mailbox, Viewed, TypeOK
<1> QED
  BY <1>1, InitType, NextType, PTL DEF Spec
-------------------------------------------------------------------------------
(***************************************************************************)
(* The dialogue.  Which lines carry a tag, and what is left of a sequence  *)
(* of them when one is read or one is sent.                                *)
(***************************************************************************)
LEMMA LineTags ==
    /\ \A c : /\ IsTagged(Ok(c)) /\ Ok(c).k = "ok" /\ Ok(c).of = c
              /\ IsTagged(No(c)) /\ No(c).k = "no" /\ No(c).of = c
    /\ ~IsTagged(Capability) /\ Capability.k = "capability"
    /\ ~IsTagged(Exists) /\ Exists.k = "exists"
    /\ \A n : ~IsTagged([k |-> "seen", n |-> n]) /\ ~IsTagged([k |-> "expunge", n |-> n])
    /\ \A ids : ~IsTagged([k |-> "search", ids |-> ids])
    /\ \A c : Command(c).c = c
    /\ \A n : Fetch(n).c = "FETCH"
  BY DEF Ok, No, Tagged, IsTagged, Capability, Exists, Command, Fetch

\* A line is read.
LEMMA TailAnswers ==
    ASSUME NEW s \in Seq(Lines), s # <<>>, NEW C
    PROVE  /\ AnswersOnly(s, C) =>
                AnswersOnly(Tail(s), C) /\ (IsTagged(Head(s)) => Head(s).of \in C)
           /\ EndsInSearch(s, C) =>
                IF Tail(s) = <<>> THEN IsTagged(Head(s)) /\ Head(s).of = "SEARCH"
                ELSE EndsInSearch(Tail(s), C) /\ (IsTagged(Head(s)) => Head(s).of \in C)
<1>1. /\ Head(s) = s[1] /\ Len(s) \in Nat \ {0} /\ Len(Tail(s)) = Len(s) - 1
      /\ \A i \in 1 .. Len(Tail(s)) : Tail(s)[i] = s[i + 1]
      /\ Tail(s) \in Seq(Lines)
  BY TailFacts
<1> DEFINE t == Tail(s)
           n == Len(s)
<1>2. n \in Nat \ {0} /\ Len(t) = n - 1 /\ \A i \in 1 .. n - 1 : t[i] = s[i + 1]
  BY <1>1
<1>3. ASSUME AnswersOnly(s, C)
      PROVE  AnswersOnly(t, C) /\ (IsTagged(Head(s)) => Head(s).of \in C)
  BY <1>1, <1>2, <1>3 DEF AnswersOnly
<1>4. t = <<>> <=> n = 1
  <2>1. t = <<>> <=> Len(t) = 0
    BY <1>1, EmptySeq
  <2> HIDE DEF t, n
  <2> QED
    BY <1>2, <2>1
<1>5. ASSUME EndsInSearch(s, C), t = <<>>
      PROVE  IsTagged(Head(s)) /\ Head(s).of = "SEARCH"
  BY <1>1, <1>4, <1>5 DEF EndsInSearch
<1>6. ASSUME EndsInSearch(s, C), t # <<>>
      PROVE  EndsInSearch(t, C) /\ (IsTagged(Head(s)) => Head(s).of \in C)
  <2> HIDE DEF t
  <2>1. n - 1 \in Nat \ {0} /\ Len(t) = n - 1
    BY <1>2, <1>4, <1>6
  <2>2. t[Len(t)] = s[n]
    BY <1>2, <2>1
  <2>3. IsTagged(t[Len(t)]) /\ t[Len(t)].of = "SEARCH"
    BY <1>6, <2>2 DEF EndsInSearch
  <2>4. \A i \in 1 .. Len(t) - 1 : t[i] = s[i + 1] /\ i + 1 \in 1 .. n - 1
    BY <1>2, <2>1
  <2>5. \A i \in 1 .. n - 1 : IsTagged(s[i]) => s[i].of \in C
    BY <1>6 DEF EndsInSearch
  <2>6. \A i \in 1 .. Len(t) - 1 : IsTagged(t[i]) => t[i].of \in C
    BY <2>4, <2>5
  <2>7. 1 \in 1 .. n - 1
    BY <2>1
  <2> QED
    BY <1>1, <1>6, <2>3, <2>5, <2>6, <2>7 DEF EndsInSearch
<1> QED
  BY <1>3, <1>5, <1>6

\* Lines are sent.
LEMMA AppendAnswers ==
    ASSUME NEW s \in Seq(Lines), NEW C, AnswersOnly(s, C)
    PROVE  /\ \A a \in Lines : (IsTagged(a) => a.of \in C) => AnswersOnly(s \o <<a>>, C)
           /\ \A a, b \in Lines : (IsTagged(a) => a.of \in C) /\ (IsTagged(b) => b.of \in C) =>
                AnswersOnly(s \o <<a, b>>, C)
           /\ \A a \in Lines : IsTagged(a) /\ a.of = "SEARCH" => EndsInSearch(s \o <<a>>, C)
           /\ \A a, b \in Lines : ~IsTagged(a) /\ IsTagged(b) /\ b.of = "SEARCH" =>
                EndsInSearch(s \o <<a, b>>, C)
<1> DEFINE n == Len(s)
<1>1. n \in Nat /\ \A i \in 1 .. n : IsTagged(s[i]) => s[i].of \in C
  BY LenProperties DEF AnswersOnly
<1>2. ASSUME NEW a \in Lines
      PROVE  /\ s \o <<a>> \in Seq(Lines) /\ Len(s \o <<a>>) = n + 1
             /\ \A i \in 1 .. n + 1 : (s \o <<a>>)[i] = IF i <= n THEN s[i] ELSE a
  <2>1. <<a>> \in Seq(Lines) /\ Len(<<a>>) = 1 /\ <<a>>[1] = a
    OBVIOUS
  <2>2. /\ s \o <<a>> \in Seq(Lines) /\ Len(s \o <<a>>) = n + 1
        /\ \A i \in 1 .. n + 1 : (s \o <<a>>)[i] = IF i <= n THEN s[i] ELSE <<a>>[i - n]
    BY <2>1, ConcatProperties
  <2>3. \A i \in 1 .. n + 1 : ~(i <= n) => i - n = 1
    BY <1>1
  <2> HIDE DEF n
  <2> QED
    BY <2>1, <2>2, <2>3
<1>3. ASSUME NEW a \in Lines, NEW b \in Lines
      PROVE  /\ s \o <<a, b>> \in Seq(Lines) /\ Len(s \o <<a, b>>) = n + 2
             /\ \A i \in 1 .. n + 2 :
                    (s \o <<a, b>>)[i] = IF i <= n THEN s[i] ELSE IF i = n + 1 THEN a ELSE b
  <2>1. <<a, b>> \in Seq(Lines) /\ Len(<<a, b>>) = 2 /\ <<a, b>>[1] = a /\ <<a, b>>[2] = b
    OBVIOUS
  <2>2. /\ s \o <<a, b>> \in Seq(Lines) /\ Len(s \o <<a, b>>) = n + 2
        /\ \A i \in 1 .. n + 2 : (s \o <<a, b>>)[i] = IF i <= n THEN s[i] ELSE <<a, b>>[i - n]
    BY <2>1, ConcatProperties
  <2>3. \A i \in 1 .. n + 2 : ~(i <= n) => IF i = n + 1 THEN i - n = 1 ELSE i - n = 2
    BY <1>1
  <2> HIDE DEF n
  <2> QED
    BY <2>1, <2>2, <2>3
<1> HIDE DEF n
<1>4. ASSUME NEW a \in Lines, IsTagged(a) => a.of \in C
      PROVE  AnswersOnly(s \o <<a>>, C)
  <2> DEFINE r == s \o <<a>>
  <2>1. Len(r) = n + 1 /\ \A i \in 1 .. n + 1 : r[i] = IF i <= n THEN s[i] ELSE a
    BY <1>2
  <2> HIDE DEF r
  <2>2. AnswersOnly(r, C)
    BY <1>1, <1>4, <2>1 DEF AnswersOnly
  <2> QED
    BY <2>2 DEF r
<1>5. ASSUME NEW a \in Lines, NEW b \in Lines, IsTagged(a) => a.of \in C, IsTagged(b) => b.of \in C
      PROVE  AnswersOnly(s \o <<a, b>>, C)
  <2> DEFINE r == s \o <<a, b>>
  <2>1. Len(r) = n + 2 /\ \A i \in 1 .. n + 2 : r[i] = IF i <= n THEN s[i] ELSE IF i = n + 1 THEN a ELSE b
    BY <1>3
  <2> HIDE DEF r
  <2>2. AnswersOnly(r, C)
    BY <1>1, <1>5, <2>1 DEF AnswersOnly
  <2> QED
    BY <2>2 DEF r
<1>6. ASSUME NEW a \in Lines, IsTagged(a), a.of = "SEARCH"
      PROVE  EndsInSearch(s \o <<a>>, C)
  <2> DEFINE r == s \o <<a>>
  <2>1. /\ Len(r) = n + 1 /\ \A i \in 1 .. n + 1 : r[i] = IF i <= n THEN s[i] ELSE a
        /\ r \in Seq(Lines)
    BY <1>2
  <2> HIDE DEF r
  <2>2. r # <<>>
    BY <1>1, <2>1, EmptySeq
  <2>3. r[Len(r)] = a /\ \A i \in 1 .. Len(r) - 1 : i \in 1 .. n /\ r[i] = s[i]
    BY <1>1, <2>1
  <2>4. EndsInSearch(r, C)
    BY <1>1, <1>6, <2>2, <2>3 DEF EndsInSearch
  <2> QED
    BY <2>4 DEF r
<1>7. ASSUME NEW a \in Lines, NEW b \in Lines, ~IsTagged(a), IsTagged(b), b.of = "SEARCH"
      PROVE  EndsInSearch(s \o <<a, b>>, C)
  <2> DEFINE r == s \o <<a, b>>
  <2>1. /\ Len(r) = n + 2 /\ \A i \in 1 .. n + 2 : r[i] = IF i <= n THEN s[i] ELSE IF i = n + 1 THEN a ELSE b
        /\ r \in Seq(Lines)
    BY <1>3
  <2> HIDE DEF r
  <2>2. r # <<>>
    BY <1>1, <2>1, EmptySeq
  <2>3. r[Len(r)] = b /\ \A i \in 1 .. Len(r) - 1 : r[i] = IF i <= n THEN s[i] ELSE a
    BY <1>1, <2>1
  <2>5. \A i \in 1 .. Len(r) - 1 : IsTagged(r[i]) => r[i].of \in C
    BY <1>1, <1>7, <2>1, <2>3
  <2>4. EndsInSearch(r, C)
    BY <1>7, <2>2, <2>3, <2>5 DEF EndsInSearch
  <2> QED
    BY <2>4 DEF r
<1> QED
  BY <1>4, <1>5, <1>6, <1>7

(***************************************************************************)
(* The notifier's steps on an open connection.                             *)
(***************************************************************************)
Carry == conn = "open" /\ conn' = "open" /\ TypeInv /\ Lost /\ Dialogue

\* What it sends is behind what it has sent.
LEMMA SentLine ==
    ASSUME conn = "open", NEW cs, Transmit(cs)
    PROVE  toServer' = toServer \o cs
  BY DEF Transmit

\* What process_line does with a line that says nothing in this state.
LEMMA IgnoredLine ==
    ASSUME Carry, Listening, toClient # <<>>, ReadLine, state # "IDLE", ~IsTagged(Head(toClient))
    PROVE  UNCHANGED <<state, task, fetching, leftover, toServer, idling>>
  BY DEF Carry, ReadLine, Untagged, IsTagged, progress, others, notes, session

\* A line while it waits for the reply to LOGIN ...
LEMMA LoginRead ==
    ASSUME Carry, OnLogin, ReadLine
    PROVE  OnLogin' \/ OnSelect'
<1> DEFINE l == Head(toClient)
<1>1. /\ toClient # <<>> /\ toClient' = Tail(toClient) /\ rx' = "empty" /\ Listening
      /\ idling' = idling /\ state = "AUTHING" /\ toServer = <<>>
  BY Short DEF ReadLine, OnLogin, session
<1>2. CASE toClient = <<Capability, Ok("LOGIN")>>
  <2>1. ~IsTagged(l) /\ Tail(toClient) = <<Ok("LOGIN")>>
    BY <1>2, Short, LineTags
  <2>2. UNCHANGED <<state, task, fetching, leftover, toServer, idling>>
    BY <1>1, <2>1, IgnoredLine
  <2> QED
    BY <1>1, <2>1, <2>2 DEF OnLogin, Junky
<1>3. CASE toClient = <<Ok("LOGIN")>>
  <2>1. l.k = "ok" /\ IsTagged(l) /\ Tail(toClient) = <<>>
    BY <1>3, Short, LineTags
  <2>2. Transmit(<<Command("SELECT")>>) /\ state' = "SELECTING" /\ UNCHANGED others
    BY <1>1, <2>1 DEF ReadLine, Reply
  <2>3. toServer' = <<Command("SELECT")>>
    BY <1>1, <2>2, SentLine, Joins DEF Carry
  <2> QED
    BY <1>1, <2>1, <2>2, <2>3 DEF OnLogin, OnSelect, Junky, others
<1>4. CASE toClient = <<No("LOGIN")>>
  <2>1. l.k = "no" /\ IsTagged(l)
    BY <1>4, Short, LineTags
  <2>2. Deinit
    BY <1>1, <2>1 DEF ReadLine, Reply
  <2> QED
    BY <2>2 DEF Deinit, Carry
<1> QED
  BY <1>1, <1>2, <1>3, <1>4 DEF OnLogin

\* ... for that to SELECT ...
LEMMA SelectRead ==
    ASSUME Carry, OnSelect, ReadLine
    PROVE  OnSelect' \/ OnCheck'
<1> DEFINE l == Head(toClient)
<1>1. /\ toClient # <<>> /\ toClient' = Tail(toClient) /\ rx' = "empty" /\ Listening
      /\ idling' = idling /\ state = "SELECTING" /\ ~idling /\ fetching = None
  BY DEF ReadLine, OnSelect, session
<1>2. CASE toServer = <<>> /\ toClient = <<Exists, Ok("SELECT")>>
  <2>1. ~IsTagged(l) /\ Tail(toClient) = <<Ok("SELECT")>>
    BY <1>2, Short, LineTags
  <2>2. UNCHANGED <<state, task, fetching, leftover, toServer, idling>>
    BY <1>1, <2>1, IgnoredLine
  <2> QED
    BY <1>1, <1>2, <2>1, <2>2 DEF OnSelect, Junky
<1>3. ASSUME l.k = "ok" /\ IsTagged(l)
      PROVE  /\ toServer' = toServer \o <<Command("SEARCH")>> /\ state' = "CHECKING"
             /\ UNCHANGED <<fetching, leftover, idling>>
  <2>1. ManualCheck(<<>>) /\ UNCHANGED <<others, expunged, leftover, conn>>
    BY <1>1, <1>3 DEF ReadLine, Reply
  <2>2. <<>> \o <<Command("SEARCH")>> = <<Command("SEARCH")>>
    BY Joins
  <2>3. Transmit(<<Command("SEARCH")>>) /\ state' = "CHECKING"
    BY <2>1, <2>2 DEF ManualCheck
  <2> QED
    BY <1>1, <2>1, <2>3, SentLine DEF Carry, others
<1>4. CASE toServer = <<>> /\ toClient = <<Ok("SELECT")>>
  <2>1. l.k = "ok" /\ IsTagged(l) /\ Tail(toClient) = <<>>
    BY <1>4, Short, LineTags
  <2>2. toServer' = <<Command("SEARCH")>>
    BY <1>3, <1>4, <2>1, Joins
  <2>3. AnswersOnly(<<>>, Stale')
    BY DEF AnswersOnly
  <2> QED
    BY <1>1, <1>3, <2>1, <2>2, <2>3 DEF OnCheck, Junky
<1>5. CASE toClient \in {<<No("SELECT")>>}
  <2>1. l.k = "no" /\ IsTagged(l)
    BY <1>5, Short, LineTags
  <2>2. Deinit
    BY <1>1, <2>1 DEF ReadLine, Reply
  <2> QED
    BY <2>2 DEF Deinit, Carry
<1>6. CASE Joined /\ toServer = <<Command("SELECT")>> /\ toClient = <<Ok("LOGIN")>>
  <2>1. l.k = "ok" /\ IsTagged(l) /\ Tail(toClient) = <<>>
    BY <1>6, Short, LineTags
  <2>2. toServer' = <<Command("SELECT"), Command("SEARCH")>>
    BY <1>3, <1>6, <2>1, Joins
  <2> QED
    BY <1>1, <1>3, <1>6, <2>1, <2>2 DEF OnCheck, Junky, Joined
<1>7. CASE /\ Joined /\ toServer = <<>>
           /\ toClient \in {<<Ok("LOGIN"), Exists, Ok("SELECT")>>, <<Ok("LOGIN"), No("SELECT")>>}
  <2>1. l.k = "ok" /\ IsTagged(l)
    BY <1>7, Short, LineTags
  <2>2. toServer' = <<Command("SEARCH")>>
    BY <1>3, <1>7, <2>1, Joins
  <2>3. Stale' = {"IDLE", "SELECT"}
    BY <1>3, <1>7, <2>1 DEF Stale, Joined
  <2>4. Tail(toClient) \in {<<Exists, Ok("SELECT")>>, <<No("SELECT")>>}
    <3>1. Tail(<<Ok("LOGIN"), Exists, Ok("SELECT")>>) = <<Exists, Ok("SELECT")>>
      BY Short
    <3>2. Tail(<<Ok("LOGIN"), No("SELECT")>>) = <<No("SELECT")>>
      BY Short
    <3> QED
      BY <1>7, <3>1, <3>2
  <2>5. AnswersOnly(<<Exists, Ok("SELECT")>>, Stale') /\ AnswersOnly(<<No("SELECT")>>, Stale')
    BY <2>3, LineTags DEF AnswersOnly
  <2> QED
    BY <1>1, <1>3, <2>1, <2>2, <2>4, <2>5 DEF OnCheck, Junky
<1> QED
  BY <1>1, <1>2, <1>4, <1>5, <1>6, <1>7 DEF OnSelect

\* download_queued has found what to fetch, or has nothing left.
LEMMA Downloading ==
    ASSUME Carry, state = "CHECKING", ~idling, ~idling', toServer = <<>>, toClient' = <<>>, ~Junky',
           DownloadNext
    PROVE  OnFetch' \/ OnIdle'
<1>1. CASE queue # <<>>
  <2>1. Last(queue) \in Numbers
    BY <1>1, FrontFacts DEF Carry, TypeInv, Downloads
  <2>2. fetching' = Last(queue) /\ Transmit(<<Fetch(Last(queue))>>) /\ state' = state
    BY <1>1 DEF DownloadNext
  <2>3. toServer' = <<Fetch(fetching)>>'
    BY <2>2, SentLine, Joins DEF Carry
  <2>4. fetching' # None
    BY <2>1, <2>2, ImapAssumption DEF Numbers, None
  <2> QED
    BY <2>2, <2>3, <2>4 DEF OnFetch
<1>2. CASE queue = <<>>
  <2> DEFINE cs == IF idleSupported THEN <<Command("IDLE")>> ELSE <<>>
  <2>1. Transmit(cs) /\ state' = "IDLE" /\ fetching' = None
    BY <1>2 DEF DownloadNext
  <2>2. toServer' = toServer \o cs
    BY <2>1, SentLine DEF Carry
  <2>3. toServer' \in {<<>>, <<Command("IDLE")>>}
    BY <2>2, Joins
  <2> QED
    BY <2>1, <2>3 DEF OnIdle
<1> QED
  BY <1>1, <1>2

\* ... for that to SEARCH, behind which nothing follows ...
LEMMA CheckRead ==
    ASSUME Carry, OnCheck, ReadLine
    PROVE  OnCheck' \/ OnFetch' \/ OnIdle'
<1> DEFINE l == Head(toClient)
<1>1. /\ toClient # <<>> /\ toClient' = Tail(toClient) /\ rx' = "empty" /\ Listening
      /\ idling' = idling /\ state = "CHECKING" /\ fetching = None /\ conn' = "open"
      /\ toClient \in Seq(Lines)
  BY DEF ReadLine, OnCheck, session, Carry, TypeInv, Wires
\* A reply that is not that to SEARCH changes nothing.
<1>2. ASSUME IsTagged(l) => l.of # "SEARCH"
      PROVE  UNCHANGED <<state, task, fetching, leftover, toServer, idling>>
  <2>1. CASE ~IsTagged(l)
    BY <1>1, <2>1, IgnoredLine
  <2>2. CASE IsTagged(l)
    <3>1. Reply(l) /\ ~OkSearch(l)
      BY <1>2, <2>2 DEF ReadLine, OkSearch
    <3>2. ~Deinit
      BY <1>1 DEF Deinit
    <3> QED
      BY <1>1, <3>1, <3>2 DEF Reply, progress, others, notes
  <2> QED
    BY <2>1, <2>2
<1>3. "SEARCH" \notin Stale
  BY DEF Stale
<1>4. UNCHANGED leftover => Stale' = Stale
  BY DEF Stale, Joined
<1>5. CASE /\ toServer = <<Command("DONE"), Command("SEARCH")>> /\ idling
           /\ AnswersOnly(toClient, {})
  <2>1. AnswersOnly(Tail(toClient), {}) /\ ~IsTagged(l)
    BY <1>1, <1>5, TailAnswers
  <2> QED
    BY <1>1, <1>2, <1>5, <2>1 DEF OnCheck, Junky
<1>6. CASE /\ toServer = <<Command("SEARCH")>> /\ ~idling /\ AnswersOnly(toClient, Stale)
  <2>1. AnswersOnly(Tail(toClient), Stale) /\ (IsTagged(l) => l.of \in Stale)
    BY <1>1, <1>6, TailAnswers
  <2> QED
    BY <1>1, <1>2, <1>3, <1>4, <1>6, <2>1 DEF OnCheck, Junky
<1>7. CASE toServer = <<>> /\ ~idling /\ EndsInSearch(toClient, Stale)
  <2>1. CASE Tail(toClient) # <<>>
    <3>1. EndsInSearch(Tail(toClient), Stale) /\ (IsTagged(l) => l.of \in Stale)
      BY <1>1, <1>7, <2>1, TailAnswers
    <3> QED
      BY <1>1, <1>2, <1>3, <1>4, <1>7, <3>1 DEF OnCheck, Junky
  <2>2. CASE Tail(toClient) = <<>>
    <3>1. IsTagged(l) /\ l.of = "SEARCH"
      BY <1>1, <1>7, <2>2, TailAnswers
    <3>2. ~Deinit
      BY <1>1 DEF Deinit
    <3>3. DownloadNext
      BY <1>1, <3>1, <3>2 DEF ReadLine, Reply, OkSearch, IsTagged
    <3> QED
      BY <1>1, <1>7, <2>2, <3>3, Downloading DEF Junky
  <2> QED
    BY <2>1, <2>2
<1> QED
  BY <1>1, <1>5, <1>6, <1>7 DEF OnCheck

\* ... and while it idles.
LEMMA IdleRead ==
    ASSUME Carry, OnIdle, ReadLine
    PROVE  OnIdle' \/ OnCheck'
<1> DEFINE l == Head(toClient)
<1>1. /\ toClient # <<>> /\ toClient' = Tail(toClient) /\ rx' = "empty" /\ Listening
      /\ idling' = idling /\ state = "IDLE" /\ fetching = None /\ idling
      /\ toServer = <<>> /\ AnswersOnly(toClient, {}) /\ toClient \in Seq(Lines)
  BY DEF ReadLine, OnIdle, session, Carry, TypeInv, Wires
<1>2. AnswersOnly(Tail(toClient), {}) /\ ~IsTagged(l)
  BY <1>1, TailAnswers
<1>3. Untagged(l)
  BY <1>2 DEF ReadLine
<1>4. CASE UNCHANGED <<state, fetching, toServer>>
  BY <1>1, <1>2, <1>4 DEF OnIdle, Junky
<1>5. CASE ManualCheck(<<Command("DONE")>>) /\ UNCHANGED others
  <2>1. <<Command("DONE")>> \o <<Command("SEARCH")>> = <<Command("DONE"), Command("SEARCH")>>
    BY Joins
  <2>2. Transmit(<<Command("DONE"), Command("SEARCH")>>) /\ state' = "CHECKING"
    BY <1>5, <2>1 DEF ManualCheck
  <2>3. toServer' = <<Command("DONE"), Command("SEARCH")>>
    BY <1>1, <2>2, SentLine, Joins DEF Carry
  <2> QED
    BY <1>1, <1>2, <1>5, <2>2, <2>3 DEF OnCheck, Junky, others
<1> QED
  BY <1>1, <1>3, <1>4, <1>5 DEF Untagged, progress, others

\* A line joined to an old one: only the first of a connection can be.
LEMMA JoinedRead ==
    ASSUME Carry, ReadJoined
    PROVE  OnLogin' \/ OnSelect'
<1>1. /\ toClient # <<>> /\ toClient' = Tail(toClient) /\ rx' = "empty" /\ Listening
      /\ idling' = idling /\ Junky /\ Joined'
  BY DEF ReadJoined, session, Junky, Joined
<1>2. OnLogin
  BY <1>1 DEF Carry, Dialogue, OnConnect, OnSelect, OnCheck, OnFetch, OnIdle, Listening
<1>3. /\ state = "AUTHING" /\ ~idling /\ fetching = None /\ toServer = <<>>
      /\ toClient \in {<<Capability, Ok("LOGIN")>>, <<No("LOGIN")>>}
  BY <1>1, <1>2, Short DEF OnLogin
<1>4. Tail(toClient) \in {<<Ok("LOGIN")>>, <<>>}
  <2>1. Tail(<<Capability, Ok("LOGIN")>>) = <<Ok("LOGIN")>> /\ Tail(<<No("LOGIN")>>) = <<>>
    BY Short
  <2> QED
    BY <1>3, <2>1
<1>5. CASE UNCHANGED <<state, fetching, toServer>>
  BY <1>1, <1>3, <1>4, <1>5 DEF OnLogin, Junky
<1>6. CASE Transmit(<<Command("SELECT")>>) /\ state' = "SELECTING" /\ UNCHANGED others
  <2>1. toServer' = <<Command("SELECT")>>
    BY <1>3, <1>6, SentLine, Joins DEF Carry
  <2> QED
    BY <1>1, <1>3, <1>4, <1>6, <2>1 DEF OnSelect, Junky, others
<1>7. ~Deinit
  BY DEF Deinit, Carry
<1> QED
  BY <1>5, <1>6, <1>7 DEF ReadJoined, progress, others

\* The reply to FETCH is the only line on its way.
LEMMA DownloadEnds ==
    ASSUME TypeInv, Dialogue, DownloadReply
    PROVE  OnFetch /\ toServer = <<>> /\ toClient' = <<>>
<1>1. /\ fetching # None /\ FirstReply \in 1 .. Len(toClient)
      /\ toClient' = SubSeq(toClient, FirstReply + 1, Len(toClient))
  BY FirstReplyFacts DEF DownloadReply, TypeInv, Wires
<1>2. OnFetch
  BY <1>1 DEF Dialogue, OnConnect, OnLogin, OnSelect, OnCheck, OnIdle
<1>3. toServer = <<>> /\ Len(toClient) = 1
  <2>1. Len(<<>>) = 0
    BY EmptySeq
  <2> QED
    BY <1>1, <1>2, <2>1 DEF OnFetch
<1>4. FirstReply = 1
  BY <1>1, <1>3
<1>5. toClient' = SubSeq(toClient, 2, 1)
  BY <1>1, <1>3, <1>4
<1>6. SubSeq(toClient, 2, 1) = <<>>
  BY SubSeqEmpty
<1> QED
  BY <1>2, <1>3, <1>5, <1>6

\* A header has been downloaded.
LEMMA DownloadDialogue ==
    ASSUME Carry, DownloadReply
    PROVE  OnFetch' \/ OnIdle'
<1>1. DownloadNext /\ idling' = idling /\ rx' = rx
  BY DEF DownloadReply, session
<1>2. OnFetch /\ toServer = <<>> /\ toClient' = <<>>
  BY DownloadEnds DEF Carry
<1> QED
  BY <1>1, <1>2, Downloading DEF OnFetch, Junky

\* Each of its steps.
LEMMA NotifierDialogue ==
    ASSUME TypeInv, DialogueInv, Notifier, conn' = "open"
    PROVE  Dialogue'
<1>1. CASE Construct \/ Connect
  <2>1. state = "DISCONNECT" /\ task # "deleted" /\ conn = "none"
    BY <1>1 DEF Construct, Connect, TypeInv, Started, DialogueInv, Lost
  <2>2. fetching = None
    BY <2>1 DEF TypeInv, Downloads
  <2>3. Connected /\ fetching' = fetching
    BY <1>1, <2>1 DEF Construct, Connect, Deinit, others
  <2> QED
    BY <2>2, <2>3 DEF Connected, Dialogue, OnConnect
<1>2. CASE conn = "open" /\ ~(Construct \/ Connect)
  <2>1. Carry
    BY <1>2 DEF Carry, DialogueInv
  <2>2. CASE Login
    <3>1. OnConnect
      BY <2>1, <2>2 DEF Login, Carry, Dialogue, OnLogin, OnSelect, OnCheck, OnFetch, OnIdle
    <3>2. toServer' = <<Command("LOGIN")>>
      BY <2>1, <2>2, <3>1, SentLine, Joins DEF Login, Carry, OnConnect
    <3> QED
      BY <2>2, <3>1, <3>2 DEF Login, OnConnect, Dialogue, OnLogin, others, session
  <2>3. CASE ReadPart
    <3>1. /\ UNCHANGED <<state, fetching, toServer, toClient, idling, leftover>>
          /\ ~Junky /\ ~Junky'
      BY <2>3 DEF ReadPart, progress, others, notes, session, Junky
    <3>2. Joined' = Joined /\ Stale' = Stale
      BY <3>1 DEF Joined, Stale
    <3> QED
      BY <2>1, <3>1, <3>2
         DEF Carry, Dialogue, OnConnect, OnLogin, OnSelect, OnCheck, OnFetch, OnIdle
  <2>4. CASE ReadLine
    <3>1. ~OnConnect /\ ~OnFetch
      BY <2>4 DEF ReadLine, Listening, OnConnect, OnFetch
    <3> QED
      BY <2>1, <2>4, <3>1, LoginRead, SelectRead, CheckRead, IdleRead DEF Carry, Dialogue
  <2>5. CASE ReadJoined
    BY <2>1, <2>5, JoinedRead DEF Dialogue
  <2>6. CASE DownloadReply
    BY <2>1, <2>6, DownloadDialogue DEF Dialogue
  <2>7. ~DownloadBroken /\ ~LoseConnection
    BY <1>2 DEF DownloadBroken, LoseConnection
  <2> QED
    BY <1>2, <2>2, <2>3, <2>4, <2>5, <2>6, <2>7 DEF Notifier
<1>3. CASE conn # "open" /\ ~(Construct \/ Connect)
  <2>1. conn' = conn \/ conn' = "none"
    BY <1>3 DEF Notifier, Login, ReadPart, ReadLine, ReadJoined, DownloadReply, DownloadBroken,
                LoseConnection, Reply, Deinit, Restart, line
  <2> QED
    BY <1>3, <2>1
<1> QED
  BY <1>1, <1>2, <1>3

(***************************************************************************)
(* The server's steps.                                                     *)
(***************************************************************************)
\* What it answers leaves everything else alone.
LEMMA Answered ==
    ASSUME NEW ls, Answer(ls)
    PROVE  /\ toServer' = Tail(toServer) /\ toClient' = toClient \o ls
           /\ UNCHANGED <<state, fetching, leftover, conn, rx>>
           /\ Junky' = Junky /\ Joined' = Joined /\ Stale' = Stale
<1>1. /\ toServer' = Tail(toServer) /\ toClient' = toClient \o ls
      /\ UNCHANGED <<state, fetching, leftover, conn, rx>>
  BY DEF Answer, progress, others, notes, line
<1> QED
  BY <1>1 DEF Junky, Joined, Stale

\* Which command comes first tells in which state the notifier is.
LEMMA AskedIn ==
    ASSUME Dialogue, NEW c, Asked(c)
    PROVE  /\ c = "LOGIN" => OnLogin /\ toServer = <<Command("LOGIN")>> /\ toClient = <<>>
           /\ c = "SELECT" =>
                \/ OnSelect /\ toServer = <<Command("SELECT")>> /\ toClient = <<>>
                \/ /\ OnSelect /\ Joined /\ toServer = <<Command("SELECT")>>
                   /\ toClient = <<Ok("LOGIN")>>
                \/ /\ OnCheck /\ Joined /\ toServer = <<Command("SELECT"), Command("SEARCH")>>
                   /\ toClient = <<>>
           /\ c = "SEARCH" =>
                OnCheck /\ toServer = <<Command("SEARCH")>> /\ AnswersOnly(toClient, Stale)
           /\ c = "FETCH" => OnFetch /\ toServer = <<Fetch(fetching)>> /\ toClient = <<>>
           /\ c = "IDLE" => OnIdle /\ toServer = <<Command("IDLE")>> /\ toClient = <<>>
           /\ c = "DONE" =>
                /\ OnCheck /\ toServer = <<Command("DONE"), Command("SEARCH")>>
                /\ AnswersOnly(toClient, {})
<1>1. toServer # <<>> /\ Head(toServer).c = c
  BY DEF Asked
<1>2. CASE OnConnect
  BY <1>1, <1>2 DEF OnConnect
<1>3. CASE OnLogin
  <2>1. toServer = <<Command("LOGIN")>> /\ toClient = <<>>
    BY <1>1, <1>3 DEF OnLogin
  <2>2. c = "LOGIN"
    BY <1>1, <2>1, Short, LineTags
  <2> QED
    BY <1>3, <2>1, <2>2
<1>4. CASE OnSelect
  <2>1. /\ toServer = <<Command("SELECT")>>
        /\ toClient = <<>> \/ (Joined /\ toClient = <<Ok("LOGIN")>>)
    BY <1>1, <1>4 DEF OnSelect
  <2>2. c = "SELECT"
    BY <1>1, <2>1, Short, LineTags
  <2> QED
    BY <1>4, <2>1, <2>2
<1>5. CASE OnCheck
  <2>1. \/ toServer = <<Command("DONE"), Command("SEARCH")>> /\ AnswersOnly(toClient, {})
        \/ toServer = <<Command("SEARCH")>> /\ AnswersOnly(toClient, Stale)
        \/ /\ toServer = <<Command("SELECT"), Command("SEARCH")>> /\ toClient = <<>>
           /\ Joined
    BY <1>1, <1>5 DEF OnCheck
  <2>2. /\ Head(<<Command("DONE"), Command("SEARCH")>>).c = "DONE"
        /\ Head(<<Command("SEARCH")>>).c = "SEARCH"
        /\ Head(<<Command("SELECT"), Command("SEARCH")>>).c = "SELECT"
    BY Short, LineTags
  <2> QED
    BY <1>1, <1>5, <2>1, <2>2
<1>6. CASE OnFetch
  <2>1. toServer = <<Fetch(fetching)>> /\ toClient = <<>>
    BY <1>1, <1>6 DEF OnFetch
  <2>2. c = "FETCH"
    BY <1>1, <2>1, Short, LineTags
  <2> QED
    BY <1>6, <2>1, <2>2
<1>7. CASE OnIdle
  <2>1. toServer = <<Command("IDLE")>> /\ toClient = <<>>
    BY <1>1, <1>7 DEF OnIdle
  <2>2. c = "IDLE"
    BY <1>1, <2>1, Short, LineTags
  <2> QED
    BY <1>7, <2>1, <2>2
<1> QED
  BY <1>2, <1>3, <1>4, <1>5, <1>6, <1>7 DEF Dialogue

\* It selects the inbox, or does not.
LEMMA SelectAnswered ==
    ASSUME TypeInv, Dialogue, Asked("SELECT"), ~idling, ~idling',
           NEW ls \in {<<Exists, Ok("SELECT")>>, <<No("SELECT")>>}, Answer(ls)
    PROVE  OnSelect' \/ OnCheck'
<1>1. CASE OnSelect /\ toServer = <<Command("SELECT")>> /\ toClient = <<>>
  <2>1. toServer' = <<>> /\ toClient' = ls
    BY <1>1, Answered, Short, Joins
  <2> QED
    BY <1>1, <2>1, Answered DEF OnSelect
<1>2. CASE /\ OnSelect /\ Joined /\ toServer = <<Command("SELECT")>>
           /\ toClient = <<Ok("LOGIN")>>
  <2>1. toServer' = <<>>
    BY <1>2, Answered, Short
  <2>2. toClient' \in {<<Ok("LOGIN"), Exists, Ok("SELECT")>>, <<Ok("LOGIN"), No("SELECT")>>}
    <3>1. /\ <<Ok("LOGIN")>> \o <<Exists, Ok("SELECT")>> = <<Ok("LOGIN"), Exists, Ok("SELECT")>>
          /\ <<Ok("LOGIN")>> \o <<No("SELECT")>> = <<Ok("LOGIN"), No("SELECT")>>
      BY Joins
    <3>2. toClient' = <<Ok("LOGIN")>> \o ls
      BY <1>2, Answered
    <3> QED
      BY <3>1, <3>2
  <2> QED
    BY <1>2, <2>1, <2>2, Answered DEF OnSelect
<1>3. CASE /\ OnCheck /\ Joined /\ toServer = <<Command("SELECT"), Command("SEARCH")>>
           /\ toClient = <<>>
  <2>1. toServer' = <<Command("SEARCH")>>
    BY <1>3, Answered, Short
  <2>2. toClient' = ls
    <3>1. /\ <<>> \o <<Exists, Ok("SELECT")>> = <<Exists, Ok("SELECT")>>
          /\ <<>> \o <<No("SELECT")>> = <<No("SELECT")>>
      BY Joins
    <3>2. toClient' = <<>> \o ls
      BY <1>3, Answered
    <3> QED
      BY <3>1, <3>2
  <2>3. Stale' = {"IDLE", "SELECT"}
    BY <1>3, Answered DEF Stale
  <2>4. AnswersOnly(<<Exists, Ok("SELECT")>>, Stale') /\ AnswersOnly(<<No("SELECT")>>, Stale')
    BY <2>3, LineTags DEF AnswersOnly
  <2> QED
    BY <1>3, <2>1, <2>2, <2>4, Answered DEF OnCheck
<1> QED
  BY <1>1, <1>2, <1>3, AskedIn

\* It has searched, or not.
LEMMA SearchAnswered ==
    ASSUME TypeInv, Dialogue, Asked("SEARCH"), ~idling, ~idling',
           NEW a \in Lines, NEW b \in Lines, ~IsTagged(a), IsTagged(b), b.of = "SEARCH",
           Answer(<<a, b>>) \/ Answer(<<b>>)
    PROVE  OnCheck'
<1>1. OnCheck /\ toServer = <<Command("SEARCH")>> /\ AnswersOnly(toClient, Stale)
  BY AskedIn
<1>2. toServer' = <<>> /\ Stale' = Stale /\ Junky' = Junky /\ UNCHANGED <<state, fetching>>
  BY <1>1, Answered, Short
<1>3. toClient' = toClient \o <<a, b>> \/ toClient' = toClient \o <<b>>
  BY Answered
<1>4. toClient \in Seq(Lines)
  BY DEF TypeInv, Wires
<1>5. EndsInSearch(toClient \o <<a, b>>, Stale) /\ EndsInSearch(toClient \o <<b>>, Stale)
  BY <1>1, <1>4, AppendAnswers
<1>6. EndsInSearch(toClient', Stale')
  BY <1>2, <1>3, <1>5
<1> QED
  BY <1>1, <1>2, <1>6 DEF OnCheck

\* Each of its answers.
LEMMA AnswerDialogue ==
    ASSUME TypeInv, Dialogue, Answers \/ Refuse
    PROVE  Dialogue'
<1>1. UNCHANGED session => idling' = idling
  BY DEF session
<1>2. CASE AnswerLogin
  <2>1. OnLogin /\ toServer = <<Command("LOGIN")>> /\ toClient = <<>> /\ Asked("LOGIN")
    BY <1>2, AskedIn DEF AnswerLogin
  <2>2. Answer(<<Capability, Ok("LOGIN")>>) /\ idling' = idling
    BY <1>1, <1>2 DEF AnswerLogin, Capability
  <2>3. toServer' = <<>> /\ toClient' = <<Capability, Ok("LOGIN")>>
    BY <2>1, <2>2, Answered, Short, Joins
  <2> QED
    BY <2>1, <2>2, <2>3, Answered DEF OnLogin, Dialogue
<1>3. CASE AnswerSelect
  <2>1. Asked("SELECT") /\ Answer(<<Exists, Ok("SELECT")>>) /\ idling' = idling /\ ~idling
    BY <1>3 DEF AnswerSelect, Exists, Asked
  <2> QED
    BY <2>1, SelectAnswered DEF Dialogue
<1>4. CASE AnswerSearch
  <2> DEFINE ids == {i \in DOMAIN view : view[i] \in unread}
  <2>1. /\ Asked("SEARCH") /\ Answer(<<[k |-> "search", ids |-> ids], Ok("SEARCH")>>)
        /\ idling' = idling /\ ~idling
    BY <1>1, <1>4 DEF AnswerSearch, Asked
  <2>2. ids \in SUBSET Numbers
    BY DistinctIsShort, LenProperties, ImapAssumption DEF TypeInv, Viewed, Numbers
  <2> HIDE DEF ids
  <2>3. [k |-> "search", ids |-> ids] \in Lines /\ Ok("SEARCH") \in Lines
    BY <2>2, LineTypes
  <2> QED
    BY <2>1, <2>3, LineTags, SearchAnswered DEF Dialogue
<1>5. CASE AnswerFetch
  <2>1. OnFetch /\ toServer = <<Fetch(fetching)>> /\ toClient = <<>>
    BY <1>5, AskedIn DEF AnswerFetch
  <2>2. PICK a : Answer(<<a>>) /\ IsTagged(a) /\ a.of = "FETCH" /\ idling' = idling
    BY <1>1, <1>5 DEF AnswerFetch, Tagged, IsTagged
  <2>3. toServer' = <<>> /\ toClient' = <<a>>
    BY <2>1, <2>2, Answered, Short, Joins
  <2>4. Len(toClient') = 1 /\ toClient'[1] = a
    BY <2>3, Short
  <2> QED
    BY <2>1, <2>2, <2>3, <2>4, Answered DEF OnFetch, Dialogue
<1>6. CASE AnswerIdle
  <2>1. OnIdle /\ toServer = <<Command("IDLE")>> /\ toClient = <<>> /\ Answer(<<>>) /\ idling'
    BY <1>6, AskedIn DEF AnswerIdle
  <2>2. toServer' = <<>> /\ toClient' = <<>>
    BY <2>1, Answered, Short, Joins
  <2>3. AnswersOnly(<<>>, {})
    BY DEF AnswersOnly
  <2> QED
    BY <2>1, <2>2, <2>3, Answered DEF OnIdle, Dialogue
<1>7. CASE AnswerDone
  <2>1. /\ OnCheck /\ toServer = <<Command("DONE"), Command("SEARCH")>>
        /\ AnswersOnly(toClient, {}) /\ Answer(<<Ok("IDLE")>>) /\ ~idling'
    BY <1>7, AskedIn DEF AnswerDone
  <2>2. toServer' = <<Command("SEARCH")>> /\ toClient' = toClient \o <<Ok("IDLE")>>
    BY <2>1, Answered, Short
  <2>3. AnswersOnly(toClient, Stale) /\ Ok("IDLE").of \in Stale /\ Ok("IDLE") \in Lines
    BY <2>1, LineTags, LineTypes DEF AnswersOnly, Stale
  <2>4. toClient \in Seq(Lines)
    BY DEF TypeInv, Wires
  <2>5. AnswersOnly(toClient \o <<Ok("IDLE")>>, Stale)
    BY <2>3, <2>4, AppendAnswers
  <2>6. AnswersOnly(toClient', Stale')
    BY <2>1, <2>2, <2>5, Answered
  <2> QED
    BY <2>1, <2>2, <2>6, Answered DEF OnCheck, Dialogue
<1>8. CASE Refuse
  <2>1. PICK c \in {"LOGIN", "SELECT", "SEARCH", "FETCH"} : Asked(c) /\ Answer(<<No(c)>>)
    BY <1>8 DEF Refuse, No
  <2>2. ~idling /\ ~idling'
    BY <1>1, <1>8, <2>1 DEF Refuse, Asked
  <2>3. CASE c = "LOGIN"
    <3>1. OnLogin /\ toServer = <<Command("LOGIN")>> /\ toClient = <<>>
      BY <2>1, <2>3, AskedIn
    <3>2. toServer' = <<>> /\ toClient' = <<No("LOGIN")>>
      BY <2>1, <2>3, <3>1, Answered, Short, Joins
    <3> QED
      BY <2>1, <2>2, <3>1, <3>2, Answered DEF OnLogin, Dialogue
  <2>4. CASE c = "SELECT"
    BY <2>1, <2>2, <2>4, SelectAnswered DEF Dialogue
  <2>5. CASE c = "SEARCH"
    <3>1. No("SEARCH") \in Lines /\ Capability \in Lines
      BY LineTypes DEF No, Capability
    <3> QED
      BY <2>1, <2>2, <2>5, <3>1, LineTags, SearchAnswered DEF Dialogue
  <2>6. CASE c = "FETCH"
    <3>1. OnFetch /\ toServer = <<Fetch(fetching)>> /\ toClient = <<>>
      BY <2>1, <2>6, AskedIn
    <3>2. toServer' = <<>> /\ toClient' = <<No("FETCH")>>
      BY <2>1, <2>6, <3>1, Answered, Short, Joins
    <3>3. Len(toClient') = 1 /\ toClient'[1] = No("FETCH")
      BY <3>2, Short
    <3> QED
      BY <2>1, <2>2, <3>1, <3>2, <3>3, Answered, LineTags DEF OnFetch, Dialogue
  <2> QED
    BY <2>3, <2>4, <2>5, <2>6
<1> QED
  BY <1>2, <1>3, <1>4, <1>5, <1>6, <1>7, <1>8 DEF Answers

\* It reports only while the notifier idles or has just sent DONE.
LEMMA ReportDialogue ==
    ASSUME TypeInv, Dialogue, Reports
    PROVE  Dialogue'
<1>1. ASSUME NEW ls, Report(ls)
      PROVE  /\ idling /\ idling' /\ toClient' = toClient \o ls
             /\ UNCHANGED <<state, fetching, leftover, toServer, rx>>
  BY <1>1 DEF Report, progress, others, notes
<1>2. \/ Report(<<Exists>>) 
      \/ \E i \in Numbers : \/ Report(<<[k |-> "seen", n |-> i]>>)
                            \/ Report(<<[k |-> "expunge", n |-> i], Exists>>)
  <2>1. DOMAIN view \subseteq Numbers
    BY DistinctIsShort, LenProperties, ImapAssumption DEF TypeInv, Viewed, Numbers
  <2> QED
    BY <2>1 DEF Reports, ReportExists, ReportSeen, ReportExpunge, Exists
<1>3. idling
  BY <1>1, <1>2
<1>4. (OnCheck \/ OnIdle) /\ AnswersOnly(toClient, {}) /\ toClient \in Seq(Lines)
  BY <1>3 DEF Dialogue, OnConnect, OnLogin, OnSelect, OnCheck, OnFetch, OnIdle, TypeInv, Wires
<1>5. Exists \in Lines /\ \A i \in Numbers : [k |-> "seen", n |-> i] \in Lines /\ [k |-> "expunge", n |-> i] \in Lines
  BY LineTypes DEF Exists
<1>6. AnswersOnly(toClient', {})
  <2>1. CASE Report(<<Exists>>)
    <3>1. AnswersOnly(toClient \o <<Exists>>, {})
      BY <1>4, <1>5, LineTags, AppendAnswers
    <3> QED
      BY <1>1, <2>1, <3>1
  <2>2. ASSUME NEW i \in Numbers, Report(<<[k |-> "seen", n |-> i]>>)
        PROVE  AnswersOnly(toClient', {})
    <3>1. AnswersOnly(toClient \o <<[k |-> "seen", n |-> i]>>, {})
      BY <1>4, <1>5, LineTags, AppendAnswers
    <3> QED
      BY <1>1, <2>2, <3>1
  <2>3. ASSUME NEW i \in Numbers, Report(<<[k |-> "expunge", n |-> i], Exists>>)
        PROVE  AnswersOnly(toClient', {})
    <3>1. AnswersOnly(toClient \o <<[k |-> "expunge", n |-> i], Exists>>, {})
      BY <1>4, <1>5, LineTags, AppendAnswers
    <3> QED
      BY <1>1, <2>3, <3>1
  <2> QED
    BY <1>2, <2>1, <2>2, <2>3
<1>7. UNCHANGED <<state, fetching, leftover, toServer, rx>> /\ idling'
  BY <1>1, <1>2
<1> QED
  BY <1>3, <1>4, <1>6, <1>7 DEF OnCheck, OnIdle, Dialogue, Junky

(***************************************************************************)
(* Every step.  First what holds of a connection that is not open.         *)
(***************************************************************************)
LEMMA LostStep ==
    ASSUME TypeInv, Lost, [Next]_vars
    PROVE  Lost'
<1> USE DEF Lost
<1>1. CASE Construct \/ Connect
  <2>1. conn = "none" /\ toServer = <<>> /\ toClient = <<>> /\ state = "DISCONNECT"
    BY <1>1 DEF Construct, Connect, TypeInv, Started
  <2> QED
    BY <1>1, <2>1 DEF Construct, Connect, Connected, Deinit, others
<1>2. CASE Login
  BY <1>2 DEF Login, Transmit, others, line, TypeInv, Places
<1>3. CASE ReadPart \/ UNCHANGED vars
  BY <1>3 DEF ReadPart, vars, progress, others, line
<1>4. ASSUME ReadLine \/ ReadJoined \/ DownloadReply
      PROVE  conn = "open" /\ task = "running" /\ state # "DISCONNECT"
  <2>1. task = "running" /\ toClient # <<>>
    <3>1. DownloadReply => FirstReply \in 1 .. Len(toClient)
      BY FirstReplyFacts DEF DownloadReply, TypeInv, Wires
    <3>2. \A i : ~(i \in 1 .. Len(<<>>))
      BY EmptySeq
    <3> QED
      BY <1>4, <3>1, <3>2 DEF ReadLine, ReadJoined, DownloadReply, Listening
  <2> QED
    BY <2>1 DEF TypeInv, Places
<1>5. ASSUME conn = "open", task = "running", conn' = "open", task' = "running", state' # "DISCONNECT"
      PROVE  Lost'
  BY <1>5
<1>6. CASE ReadLine \/ ReadJoined
  <2>1. CASE Deinit
    BY <2>1 DEF Deinit
  <2>2. CASE ~Deinit
    <3>1. conn' = conn /\ task' = task /\ state' # "DISCONNECT"
      BY <1>4, <1>6, <2>2 DEF ReadLine, ReadJoined, Reply, Untagged, ManualCheck, DownloadNext,
                               progress, others
    <3> QED
      BY <1>4, <1>5, <1>6, <3>1
  <2> QED
    BY <2>1, <2>2
<1>7. CASE DownloadReply
  <2>1. conn' = conn /\ task' = task /\ state' # "DISCONNECT"
    BY <1>4, <1>7 DEF DownloadReply, DownloadNext, line
  <2> QED
    BY <1>4, <1>5, <1>7, <2>1
<1>8. CASE DownloadBroken
  BY <1>8 DEF DownloadBroken, Restart
<1>9. CASE LoseConnection
  BY <1>9 DEF LoseConnection, Listening, others
<1>10. CASE Answers \/ Refuse \/ Reports
  <2>1. conn = "open" /\ UNCHANGED <<conn, task, state>>
    BY <1>10 DEF Answers, AnswerLogin, AnswerSelect, AnswerSearch, AnswerFetch, AnswerIdle,
                 AnswerDone, Refuse, Reports, ReportExists, ReportSeen, ReportExpunge, Report,
                 Asked, Answer, progress, others, line
  <2> QED
    BY <1>5, <2>1
<1>11. CASE Arrive \/ (\E m \in Mails : Read(m) \/ Delete(m)) \/ NetworkBack
  BY <1>11 DEF Arrive, Read, Delete, NetworkBack, progress, others, line
<1>12. CASE EndConnection \/ Outage
  BY <1>12 DEF EndConnection, Outage, Drop, progress, others
<1> QED
  BY <1>1, <1>2, <1>3, <1>6, <1>7, <1>8, <1>9, <1>10, <1>11, <1>12 DEF Next, Notifier

\* And every step keeps the dialogue.
LEMMA DialogueStep ==
    ASSUME TypeInv, DialogueInv, [Next]_vars
    PROVE  DialogueInv'
<1>1. Lost'
  BY LostStep DEF DialogueInv
<1>2. ASSUME conn' = "open" PROVE Dialogue'
  <2>1. CASE Notifier
    BY <1>2, <2>1, NotifierDialogue
  <2>2. CASE Answers \/ Refuse \/ Reports
    <3>1. conn = "open"
      BY <2>2 DEF Answers, AnswerLogin, AnswerSelect, AnswerSearch, AnswerFetch, AnswerIdle,
                 AnswerDone, Refuse, Reports, ReportExists, ReportSeen, ReportExpunge, Report,
                 Asked
    <3> QED
      BY <2>2, <3>1, AnswerDialogue, ReportDialogue DEF DialogueInv
  <2>3. CASE Arrive \/ (\E m \in Mails : Read(m) \/ Delete(m)) \/ NetworkBack \/ UNCHANGED vars
    <3>1. UNCHANGED <<state, fetching, toServer, toClient, idling, leftover, rx, conn>>
      BY <2>3 DEF Arrive, Read, Delete, NetworkBack, vars, progress, others, notes, line, session
    <3> QED
      BY <1>2, <3>1 DEF DialogueInv, Dialogue, OnConnect, OnLogin, OnSelect, OnCheck, OnFetch, OnIdle,
                        Junky, Joined, Stale
  <2>4. ~(EndConnection \/ Outage)
    BY <1>2 DEF EndConnection, Outage
  <2> QED
    BY <2>1, <2>2, <2>3, <2>4 DEF Next
<1> QED
  BY <1>1, <1>2 DEF DialogueInv

\* Nothing is under way at first.
LEMMA DialogueInit == ASSUME Init PROVE DialogueInv
  BY DEF Init, DialogueInv, Lost
-------------------------------------------------------------------------------
(***************************************************************************)
(* What follows.                                                           *)
(***************************************************************************)
\* The commands under way that ask for a reply.
LEMMA AskingFacts ==
    /\ toServer = <<>> => Asking = {}
    /\ toServer = <<Command("IDLE")>> => Asking = {}
    /\ \A c : toServer = <<c>> /\ c.c \notin {"IDLE", "DONE"} => Asking = {1} /\ toServer[1] = c
    /\ \A c : toServer = <<Command("DONE"), c>> /\ c.c \notin {"IDLE", "DONE"} =>
                Asking = {2} /\ toServer[2] = c
<1>1. \A a : DOMAIN <<a>> = {1} /\ <<a>>[1] = a
  OBVIOUS
<1>2. \A a, b : DOMAIN <<a, b>> = {1, 2} /\ <<a, b>>[1] = a /\ <<a, b>>[2] = b
  OBVIOUS
<1>3. DOMAIN <<>> = {}
  OBVIOUS
<1>4. toServer = <<>> => Asking = {}
  BY <1>3 DEF Asking
<1>5. toServer = <<Command("IDLE")>> => Asking = {}
  BY <1>1, LineTags DEF Asking
<1>6. \A c : toServer = <<c>> /\ c.c \notin {"IDLE", "DONE"} => Asking = {1} /\ toServer[1] = c
  BY <1>1 DEF Asking
<1>7. \A c : toServer = <<Command("DONE"), c>> /\ c.c \notin {"IDLE", "DONE"} =>
                Asking = {2} /\ toServer[2] = c
  BY <1>2, LineTags DEF Asking
<1> QED
  BY <1>4, <1>5, <1>6, <1>7

\* The replies that have come, but for those to IDLE.
LEMMA RepliesFacts ==
    ASSUME toClient \in Seq(Lines), "line" \notin leftover
    PROVE  /\ toClient = <<>> => Replies = {}
           /\ AnswersOnly(toClient, {}) \/ AnswersOnly(toClient, Stale) => Replies = {}
           /\ EndsInSearch(toClient, Stale) =>
                Replies = {Len(toClient)} /\ toClient[Len(toClient)].of = "SEARCH"
           /\ \A l : toClient = <<l>> /\ IsTagged(l) /\ l.of # "IDLE" =>
                Replies = {1} /\ toClient[1] = l
           /\ \A a, l : toClient = <<a, l>> /\ ~IsTagged(a) /\ IsTagged(l) /\ l.of # "IDLE" =>
                Replies = {2} /\ toClient[2] = l
<1>1. \A a : DOMAIN <<a>> = {1} /\ <<a>>[1] = a
  OBVIOUS
<1>2. \A a, b : DOMAIN <<a, b>> = {1, 2} /\ <<a, b>>[1] = a /\ <<a, b>>[2] = b
  OBVIOUS
<1>3. DOMAIN <<>> = {}
  OBVIOUS
<1>4. Stale = {"IDLE"}
  BY DEF Stale, Joined
<1>5. DOMAIN toClient = 1 .. Len(toClient) /\ Len(toClient) \in Nat
  BY LenProperties
<1>6. toClient = <<>> => Replies = {}
  BY <1>3 DEF Replies
<1>7. AnswersOnly(toClient, {}) \/ AnswersOnly(toClient, Stale) => Replies = {}
  BY <1>4, <1>5 DEF Replies, AnswersOnly
<1>8. ASSUME EndsInSearch(toClient, Stale)
      PROVE  Replies = {Len(toClient)} /\ toClient[Len(toClient)].of = "SEARCH"
  <2> DEFINE n == Len(toClient)
  <2>1. n \in Nat \ {0}
    BY <1>5, <1>8, EmptySeq DEF EndsInSearch
  <2>2. /\ IsTagged(toClient[n]) /\ toClient[n].of = "SEARCH"
        /\ \A i \in 1 .. n - 1 : IsTagged(toClient[i]) => toClient[i].of = "IDLE"
    BY <1>4, <1>8 DEF EndsInSearch
  <2>3. n \in Replies
    BY <1>5, <2>1, <2>2 DEF Replies
  <2>4. \A i \in 1 .. n : i # n => i \in 1 .. n - 1
    BY <2>1
  <2>5. \A i \in Replies : i = n
    BY <1>5, <2>2, <2>4 DEF Replies
  <2> QED
    BY <2>2, <2>3, <2>5
<1>9. \A l : toClient = <<l>> /\ IsTagged(l) /\ l.of # "IDLE" => Replies = {1} /\ toClient[1] = l
  BY <1>1 DEF Replies
<1>10. \A a, l : toClient = <<a, l>> /\ ~IsTagged(a) /\ IsTagged(l) /\ l.of # "IDLE" =>
                Replies = {2} /\ toClient[2] = l
  BY <1>2 DEF Replies
<1> QED
  BY <1>6, <1>7, <1>8, <1>9, <1>10

\* In each state at most one reply or one command is the one awaited.
LEMMA DialogueMeansOwnReply ==
    ASSUME TypeInv, DialogueInv
    PROVE  OwnReply
<1> SUFFICES ASSUME task = "running", conn = "open", "line" \notin leftover
             PROVE  \/ Awaited = "nothing" /\ Replies = {} /\ Asking = {}
                    \/ Asking = {} /\ \E i \in Replies : Replies = {i} /\ toClient[i].of = Awaited
                    \/ Replies = {} /\ \E i \in Asking : Asking = {i} /\ toServer[i].c = Awaited
  BY DEF OwnReply
<1>0. toClient \in Seq(Lines) /\ ~Joined
  BY DEF TypeInv, Wires, Joined
<1>1. CASE OnConnect
  BY <1>0, <1>1, AskingFacts, RepliesFacts DEF OnConnect, Awaited
<1>2. CASE OnLogin
  <2>1. Awaited = "LOGIN"
    BY <1>2 DEF OnLogin, Awaited
  <2>2. CASE toServer = <<Command("LOGIN")>> /\ toClient = <<>>
    BY <1>0, <2>1, <2>2, AskingFacts, RepliesFacts, LineTags
  <2>3. CASE toServer = <<>> /\ toClient = <<Capability, Ok("LOGIN")>>
    BY <1>0, <2>1, <2>3, AskingFacts, RepliesFacts, LineTags
  <2>4. CASE toServer = <<>> /\ (toClient = <<No("LOGIN")>> \/ toClient = <<Ok("LOGIN")>>)
    BY <1>0, <2>1, <2>4, AskingFacts, RepliesFacts, LineTags
  <2> QED
    BY <1>0, <1>2, <2>2, <2>3, <2>4 DEF OnLogin
<1>3. CASE OnSelect
  <2>1. Awaited = "SELECT"
    BY <1>3 DEF OnSelect, Awaited
  <2>2. CASE toServer = <<Command("SELECT")>> /\ toClient = <<>>
    BY <1>0, <2>1, <2>2, AskingFacts, RepliesFacts, LineTags
  <2>3. CASE toServer = <<>> /\ toClient = <<Exists, Ok("SELECT")>>
    BY <1>0, <2>1, <2>3, AskingFacts, RepliesFacts, LineTags
  <2>4. CASE toServer = <<>> /\ (toClient = <<No("SELECT")>> \/ toClient = <<Ok("SELECT")>>)
    BY <1>0, <2>1, <2>4, AskingFacts, RepliesFacts, LineTags
  <2> QED
    BY <1>0, <1>3, <2>2, <2>3, <2>4 DEF OnSelect
<1>4. CASE OnCheck
  <2>1. Awaited = "SEARCH"
    BY <1>4 DEF OnCheck, Awaited
  <2>2. CASE /\ toServer = <<Command("DONE"), Command("SEARCH")>>
             /\ AnswersOnly(toClient, {})
    BY <1>0, <2>1, <2>2, AskingFacts, RepliesFacts, LineTags
  <2>3. CASE toServer = <<Command("SEARCH")>> /\ AnswersOnly(toClient, Stale)
    BY <1>0, <2>1, <2>3, AskingFacts, RepliesFacts, LineTags
  <2>4. CASE toServer = <<>> /\ EndsInSearch(toClient, Stale)
    BY <1>0, <2>1, <2>4, AskingFacts, RepliesFacts
  <2> QED
    BY <1>0, <1>4, <2>2, <2>3, <2>4 DEF OnCheck
<1>5. CASE OnFetch
  <2>1. Awaited = "FETCH"
    BY <1>5 DEF OnFetch, Awaited
  <2>2. CASE toServer = <<Fetch(fetching)>> /\ toClient = <<>>
    BY <1>0, <2>1, <2>2, AskingFacts, RepliesFacts, LineTags
  <2>3. CASE /\ toServer = <<>> /\ Len(toClient) = 1
             /\ IsTagged(toClient[1]) /\ toClient[1].of = "FETCH"
    <3>1. Replies = {1}
      <4>1. DOMAIN toClient = {1}
        BY <1>0, <2>3, LenProperties
      <4> QED
        BY <2>3, <4>1 DEF Replies
    <3> QED
      BY <2>1, <2>3, <3>1, AskingFacts
  <2> QED
    BY <1>5, <2>2, <2>3 DEF OnFetch
<1>6. CASE OnIdle
  <2>1. Awaited = "nothing"
    BY <1>6 DEF OnIdle, Awaited
  <2>2. Asking = {} /\ Replies = {}
    BY <1>0, <1>6, AskingFacts, RepliesFacts DEF OnIdle
  <2> QED
    BY <2>1, <2>2
<1> QED
  BY <1>1, <1>2, <1>3, <1>4, <1>5, <1>6 DEF DialogueInv, Dialogue

\* Commands under way to an idling server begin with DONE.
LEMMA DialogueMeansIdleIsEnded ==
    ASSUME DialogueInv
    PROVE  IdleIsEnded
<1> SUFFICES ASSUME idling, conn = "open", toServer # <<>> PROVE Head(toServer).c = "DONE"
  BY DEF IdleIsEnded
<1>1. toServer = <<Command("DONE"), Command("SEARCH")>>
  BY DEF DialogueInv, Dialogue, OnConnect, OnLogin, OnSelect, OnCheck, OnFetch, OnIdle
<1> QED
  BY <1>1, Short, LineTags

(***************************************************************************)
(* Though every command has the same tag, the reply that the notifier      *)
(* takes for that to its last command is just that, however lines come in  *)
(* parts and connections are lost.                                         *)
(***************************************************************************)
THEOREM OwnReplyAlways == Spec => []OwnReply
<1>1. Init => TypeInv /\ DialogueInv
  BY InitType, DialogueInit
<1>2. TypeInv /\ DialogueInv /\ [Next]_vars => (TypeInv /\ DialogueInv)'
  BY NextType, DialogueStep
<1>3. TypeInv /\ DialogueInv => OwnReply
  BY DialogueMeansOwnReply
<1> QED
  BY <1>1, <1>2, <1>3, PTL DEF Spec

(***************************************************************************)
(* No command reaches an idling server before DONE.                        *)
(***************************************************************************)
THEOREM IdleIsEndedAlways == Spec => []IdleIsEnded
<1>1. Init => TypeInv /\ DialogueInv
  BY InitType, DialogueInit
<1>2. TypeInv /\ DialogueInv /\ [Next]_vars => (TypeInv /\ DialogueInv)'
  BY NextType, DialogueStep
<1>3. DialogueInv => IdleIsEnded
  BY DialogueMeansIdleIsEnded
<1> QED
  BY <1>1, <1>2, <1>3, PTL DEF Spec
-------------------------------------------------------------------------------
(***************************************************************************)
(* What is announced.  The exceptions: deleted mail, and numbers that were *)
(* found before a connection was lost.                                     *)
(***************************************************************************)
\* No mail has been deleted, and no found numbers have outlived a connection.
Clean == box = 1 .. arrived /\ "queue" \notin leftover

Seen(n) == [k |-> "seen", n |-> n]
ResultOf(ids) == <<[k |-> "search", ids |-> ids], Ok("SEARCH")>>
NoResult(s) == \A l \in Range(s) : l.k # "search" /\ ~OkSearch(l)

\* No line tells of a deletion, and one that tells of a read mail is true.
Proper(l) ==
    /\ l.k # "expunge"
    /\ l.k = "seen" => l.n \in 1 .. Len(view) /\ view[l.n] \notin unread

\* The view holds mails that have arrived; those told of are read.
Mailed ==
    /\ \A i \in 1 .. Len(view) : view[i] \in 1 .. arrived
    /\ told \subseteq (1 .. arrived) \ unread
    /\ ~expunged
    /\ \A l \in Range(toClient) : Proper(l)

\* A is the set of numbers of unread mails, once the lines of s are read.
Fits(A, s) ==
    /\ \A n \in A : n \in 1 .. Len(view) /\ (view[n] \in told => Seen(n) \in Range(s))
    /\ \A i \in 1 .. Len(view) : view[i] \in unread => i \in A \/ Exists \in Range(s)

\* The numbers that are known, found or asked for.
Kept == known \cup Range(queue) \cup ({fetching} \ {None})

\* Those are the numbers kept, unless they were too many for a line.
Agrees(s) ==
    \E A \in SUBSET Numbers :
        Fits(A, s) /\ (Kept = A \/ (Kept = {} /\ ~(Cardinality(A) <= LineIds)))

\* Before the first search of a connection nothing is left of the last one.
Early ==
    state \in {"DISCONNECT", "CONNECT", "AUTHING", "SELECTING"} =>
        queue = <<>> /\ NoResult(toClient)

\* A search is asked for, has been answered behind other lines, or is being ended.
Checking ==
    state = "CHECKING" /\ fetching = None =>
        /\ known = {}
        /\ \/ queue = <<>> /\ NoResult(toClient)
           \/ /\ queue = <<>>
              /\ \E s \in Seq(Lines), ids \in SUBSET Numbers :
                    toClient = s \o ResultOf(ids) /\ NoResult(s) /\ Fits(ids, <<>>)
           \/ toClient = <<Ok("SEARCH")>> /\ Agrees(<<>>)

\* Headers are fetched, each of the mail with its number.
Fetching ==
    fetching # None =>
        /\ Fits(Kept, <<>>)
        /\ \A l \in Range(toClient) : l.k = "no" \/ l = Tagged("ok", "FETCH", view[fetching])

\* It idles, and lines may be on their way.
Idling == state = "IDLE" => queue = <<>> /\ NoResult(toClient) /\ Agrees(toClient)

\* What is known is announced as the mail it is.
Showing ==
    state \in {"CHECKING", "IDLE"} =>
        \A n \in known : n \in 1 .. Len(view) /\ shown[n] = view[n]

Staged == Checking /\ Fetching /\ Idling /\ Showing

AccurateInv ==
    Clean => Mailed /\ Early /\ (conn = "open" => Staged)
-------------------------------------------------------------------------------
\* What is in a short sequence, ...
LEMMA RangeFacts ==
    /\ Range(<<>>) = {}
    /\ \A a : Range(<<a>>) = {a}
    /\ \A a, b : Range(<<a, b>>) = {a, b}
<1>1. Range(<<>>) = {}
  BY DEF Range
<1>2. ASSUME NEW a PROVE Range(<<a>>) = {a}
  <2>1. DOMAIN <<a>> = {1} /\ <<a>>[1] = a
    OBVIOUS
  <2> QED
    BY <2>1 DEF Range
<1>3. ASSUME NEW a, NEW b PROVE Range(<<a, b>>) = {a, b}
  <2>1. DOMAIN <<a, b>> = {1, 2} /\ <<a, b>>[1] = a /\ <<a, b>>[2] = b
    OBVIOUS
  <2> QED
    BY <2>1 DEF Range
<1> QED
  BY <1>1, <1>2, <1>3

\* ... one without its first element ...
LEMMA RangeTail ==
    ASSUME NEW S, NEW s \in Seq(S), s # <<>>
    PROVE  Range(s) = {Head(s)} \cup Range(Tail(s))
<1>1. /\ Head(s) = s[1] /\ Tail(s) \in Seq(S) /\ Len(s) \in Nat \ {0} /\ Len(Tail(s)) = Len(s) - 1
      /\ \A i \in 1 .. Len(Tail(s)) : Tail(s)[i] = s[i + 1]
  BY TailFacts
<1>2. Range(s) = {s[i] : i \in 1 .. Len(s)} /\ Range(Tail(s)) = {Tail(s)[i] : i \in 1 .. Len(Tail(s))}
  BY <1>1, RangeEquality
<1>3. \A i \in 1 .. Len(s) : i = 1 \/ (i - 1 \in 1 .. Len(s) - 1 /\ i = (i - 1) + 1)
  BY <1>1
<1>4. \A i \in 1 .. Len(s) - 1 : i + 1 \in 1 .. Len(s)
  BY <1>1
<1>5. 1 \in 1 .. Len(s)
  BY <1>1
<1>6. ASSUME NEW x \in Range(s) PROVE x = Head(s) \/ x \in Range(Tail(s))
  <2>1. PICK i \in 1 .. Len(s) : x = s[i]
    BY <1>2
  <2>2. CASE i = 1
    BY <1>1, <2>1, <2>2
  <2>3. CASE i # 1
    <3>1. i - 1 \in 1 .. Len(Tail(s)) /\ s[(i - 1) + 1] = x
      BY <1>1, <1>3, <2>1, <2>3
    <3> QED
      BY <1>1, <1>2, <3>1
  <2> QED
    BY <2>2, <2>3
<1>7. ASSUME NEW x \in Range(Tail(s)) PROVE x \in Range(s)
  <2>1. PICK i \in 1 .. Len(Tail(s)) : x = s[i + 1]
    BY <1>1, <1>2
  <2> QED
    BY <1>1, <1>2, <1>4, <2>1
<1> QED
  BY <1>1, <1>2, <1>5, <1>6, <1>7

\* ... without its last ...
LEMMA RangeFront ==
    ASSUME NEW S, NEW s \in Seq(S), s # <<>>
    PROVE  Range(s) = Range(Front(s)) \cup {Last(s)}
<1> DEFINE n == Len(s)
           f == SubSeq(s, 1, n - 1)
<1>1. n \in Nat \ {0} /\ \A i \in 1 .. n : s[i] \in S
  BY EmptySeq, ElementOfSeq
<1>2. f \in Seq(S) /\ Len(f) = n - 1 /\ \A i \in 1 .. n - 1 : f[i] = s[i]
  <2>1. 1 \in Int /\ n - 1 \in Int /\ \A i \in 1 .. n - 1 : s[i] \in S
    BY <1>1
  <2>2. /\ f \in Seq(S) /\ Len(f) = IF 1 <= n - 1 THEN n - 1 - 1 + 1 ELSE 0
        /\ \A i \in 1 .. n - 1 - 1 + 1 : f[i] = s[1 + i - 1]
    BY <2>1, SubSeqProperties
  <2> HIDE DEF f, n
  <2> QED
    BY <1>1, <2>2
<1>3. Range(s) = {s[i] : i \in 1 .. n} /\ Range(f) = {f[i] : i \in 1 .. Len(f)}
  BY <1>2, RangeEquality
<1> HIDE DEF f, n
<1>4. \A i \in 1 .. n : i = n \/ i \in 1 .. n - 1
  BY <1>1
<1>5. n \in 1 .. n /\ \A i \in 1 .. n - 1 : i \in 1 .. n
  BY <1>1
<1>6. Range(s) = Range(f) \cup {s[n]}
  BY <1>2, <1>3, <1>4, <1>5
<1> QED
  BY <1>6 DEF Front, Last, f, n

\* ... and without several.
LEMMA RangeSubSeq ==
    ASSUME NEW S, NEW s \in Seq(S), NEW m \in 1 .. Len(s) + 1
    PROVE  Range(SubSeq(s, m, Len(s))) \subseteq Range(s)
<1> DEFINE n == Len(s)
           f == SubSeq(s, m, n)
<1>1. n \in Nat /\ m \in Int /\ 1 <= m /\ \A i \in m .. n : s[i] \in S
  BY LenProperties, ElementOfSeq
<1>2. /\ f \in Seq(S) /\ Len(f) = IF m <= n THEN n - m + 1 ELSE 0
      /\ \A i \in 1 .. n - m + 1 : f[i] = s[m + i - 1]
  BY <1>1, SubSeqProperties
<1>3. Range(s) = {s[i] : i \in 1 .. n} /\ Range(f) = {f[i] : i \in 1 .. Len(f)}
  BY <1>2, RangeEquality
<1> HIDE DEF f, n
<1>4. \A i \in 1 .. Len(f) : i \in 1 .. n - m + 1 /\ m + i - 1 \in 1 .. n
  BY <1>1, <1>2
<1>5. \A i \in 1 .. Len(f) : f[i] \in Range(s)
  BY <1>2, <1>3, <1>4
<1> QED
  BY <1>3, <1>5 DEF f, n
\* Behind a sequence of lines.
LEMMA RangeBehind ==
    ASSUME NEW s \in Seq(Lines)
    PROVE  /\ \A a \in Lines : Range(s \o <<a>>) = Range(s) \cup {a}
           /\ \A a, b \in Lines : Range(s \o <<a, b>>) = Range(s) \cup {a, b}
           /\ Range(s \o <<>>) = Range(s)
<1>1. \A a, b \in Lines : <<a>> \in Seq(Lines) /\ <<a, b>> \in Seq(Lines) /\ <<>> \in Seq(Lines)
  OBVIOUS
<1>2. \A t \in Seq(Lines) : Range(s \o t) = Range(s) \cup Range(t)
  BY RangeConcatenation
<1>3. <<>> \in Seq(Lines)
  BY EmptySeq
<1> QED
  BY <1>1, <1>2, <1>3, RangeFacts

(***************************************************************************)
(* What a step that appends to the view does to a set of numbers that fits.*)
(***************************************************************************)
Extended ==
    /\ Len(view) \in Nat /\ Len(view') \in Nat /\ Len(view) <= Len(view')
    /\ \A i \in 1 .. Len(view) : view'[i] = view[i]

\* It goes on fitting when the lines tell what has changed.
LEMMA FitsStep ==
    ASSUME NEW A, NEW s, NEW r, Fits(A, s), Extended,
           Range(s) \subseteq Range(r),
           \A n \in A : view[n] \in told' => view[n] \in told \/ Seen(n) \in Range(r),
           \A i \in 1 .. Len(view') :
               view'[i] \in unread' =>
                   (i \in 1 .. Len(view) /\ view[i] \in unread) \/ Exists \in Range(r)
    PROVE  Fits(A, r)'
<1>1. \A i \in 1 .. Len(view) : i \in 1 .. Len(view')
  BY DEF Extended
<1>2. ASSUME NEW n \in A
      PROVE  n \in 1 .. Len(view') /\ (view'[n] \in told' => Seen(n) \in Range(r))
  <2>1. n \in 1 .. Len(view) /\ (view[n] \in told => Seen(n) \in Range(s))
    BY DEF Fits
  <2> QED
    BY <1>1, <2>1 DEF Extended
<1>3. ASSUME NEW i \in 1 .. Len(view'), view'[i] \in unread'
      PROVE  i \in A \/ Exists \in Range(r)
  <2>1. (i \in 1 .. Len(view) /\ view[i] \in unread) \/ Exists \in Range(r)
    BY <1>3
  <2> QED
    BY <2>1 DEF Fits
<1> QED
  BY <1>2, <1>3 DEF Fits, Exists, Seen

\* A line is read that is none of those the set waits for.
LEMMA FitsRead ==
    ASSUME NEW A, NEW s \in Seq(Lines), Fits(A, s), s # <<>>, UNCHANGED <<view, told, unread>>,
           Head(s) # Exists, \A n \in A : Head(s) # Seen(n)
    PROVE  Fits(A, Tail(s))'
<1> DEFINE r == Tail(s)
<1>1. Range(s) = {Head(s)} \cup Range(r)
  BY RangeTail
<1> HIDE DEF r
<1>2. Fits(A, r)'
  BY <1>1 DEF Fits
<1> QED
  BY <1>2 DEF r

(***************************************************************************)
(* The exceptions do not go away, but by a restart.                        *)
(***************************************************************************)
LEMMA CleanStep ==
    ASSUME TypeInv, [Next]_vars, Clean', ~(DownloadBroken /\ Restart)
    PROVE  Clean
<1>1. "queue" \notin leftover
  <2>1. CASE Notifier
    <3>1. leftover \subseteq leftover'
      BY <2>1 DEF Notifier, Construct, Connect, Login, ReadPart, ReadLine, ReadJoined, DownloadReply,
                  DownloadBroken, LoseConnection, Reply, Untagged, notes
    <3> QED
      BY <3>1 DEF Clean
  <2>2. CASE ~Notifier
    <3>1. leftover' = leftover
      BY <2>2 DEF Next, vars, Answers, AnswerLogin, AnswerSelect, AnswerSearch, AnswerFetch, AnswerIdle,
                  AnswerDone, Refuse, Reports, ReportExists, ReportSeen, ReportExpunge, Report, Answer,
                  Arrive, Read, Delete, EndConnection, Outage, Drop, NetworkBack, notes
    <3> QED
      BY <3>1 DEF Clean
  <2> QED
    BY <2>1, <2>2
<1>2. arrived \in Nat /\ box \subseteq 1 .. arrived
  BY DEF TypeInv, Mailbox
<1>3. CASE Arrive
  <2>1. arrived' = arrived + 1 /\ box' = box \cup {arrived + 1} /\ box' = 1 .. arrived + 1
    BY <1>3 DEF Arrive, Clean
  <2>2. \A i \in 1 .. arrived : i \in 1 .. arrived + 1 /\ i # arrived + 1
    BY <1>2
  <2>3. box = 1 .. arrived
    BY <1>2, <2>1, <2>2
  <2> QED
    BY <1>1, <2>3 DEF Clean
<1>4. ASSUME NEW m \in Mails, Delete(m) PROVE FALSE
  BY <1>2, <1>4 DEF Delete, Clean
<1>5. CASE ~Arrive /\ ~(\E m \in Mails : Delete(m))
  <2>1. UNCHANGED <<arrived, box>>
    <3>1. CASE Notifier
      BY <3>1 DEF Notifier, Construct, Connect, Login, ReadPart, ReadLine, ReadJoined, DownloadReply,
                  DownloadBroken, LoseConnection, mailbox
    <3>2. CASE ~Notifier
      BY <1>5, <3>2 DEF Next, vars, Answers, AnswerLogin, AnswerSelect, AnswerSearch, AnswerFetch,
                  AnswerIdle, AnswerDone, Refuse, Reports, ReportExists, ReportSeen, ReportExpunge,
                  Report, Answer, Read, EndConnection, Outage, Drop, NetworkBack, mailbox
    <3> QED
      BY <3>1, <3>2
  <2> QED
    BY <1>1, <2>1 DEF Clean
<1> QED
  BY <1>3, <1>4, <1>5
(***************************************************************************)
(* The mailbox and the lines.                                              *)
(***************************************************************************)
LEMMA MailedSame ==
    ASSUME Mailed, UNCHANGED <<view, told, mailbox>>, ~expunged',
           \A l \in Range(toClient)' : l \in Range(toClient) \/ l.k \notin {"seen", "expunge"}
    PROVE  Mailed'
<1>1. \A l \in Range(toClient)' : Proper(l)'
  BY DEF Mailed, Proper, mailbox
<1> QED
  BY <1>1 DEF Mailed, mailbox

\* The notifier's reading and its own steps.
LEMMA MailedNotifier ==
    ASSUME TypeInv, Mailed, Notifier, ~(DownloadBroken /\ Restart)
    PROVE  Mailed'
<1>0. toClient \in Seq(Lines)
  BY DEF TypeInv, Wires
<1>1. CASE (Construct \/ Connect) /\ Connected
  <2>1. view' = <<>> /\ told' = {} /\ toClient' = <<>> /\ UNCHANGED <<expunged, mailbox>>
    BY <1>1 DEF Construct, Connect, Connected, notes
  <2>2. Len(<<>>) = 0 /\ \A i \in 1 .. 0 : FALSE
    BY EmptySeq
  <2>3. \A i \in 1 .. Len(view') : FALSE
    BY <2>1, <2>2
  <2>4. \A l \in Range(toClient') : FALSE
    BY <2>1, RangeFacts
  <2> QED
    BY <2>1, <2>3, <2>4 DEF Mailed, mailbox
<1>2. CASE (Construct \/ Connect) /\ ~Connected
  BY <1>2, MailedSame DEF Construct, Connect, session, notes, Mailed
<1>3. CASE Login \/ ReadPart \/ LoseConnection
  BY <1>3, MailedSame DEF Login, ReadPart, LoseConnection, session, notes, Mailed
<1>4. CASE ReadJoined
  <2>1. toClient # <<>> /\ toClient' = Tail(toClient)
    BY <1>4 DEF ReadJoined
  <2>2. Range(toClient)' \subseteq Range(toClient)
    BY <1>0, <2>1, RangeTail
  <2> QED
    BY <1>4, <2>2, MailedSame DEF ReadJoined, session, Mailed
<1>5. CASE ReadLine
  <2> DEFINE l == Head(toClient)
  <2>1. toClient # <<>> /\ toClient' = Tail(toClient) /\ UNCHANGED <<view, told, mailbox>>
    BY <1>5 DEF ReadLine, session
  <2>2. Range(toClient)' \subseteq Range(toClient) /\ l \in Range(toClient)
    BY <1>0, <2>1, RangeTail
  <2>3. l.k # "expunge" /\ ~expunged
    BY <2>2 DEF Mailed, Proper
  <2>4. Reply(l) => ~expunged'
    BY <2>3 DEF Reply, notes
  <2>5. Untagged(l) => ~expunged'
    BY <2>3 DEF Untagged, notes
  <2> QED
    BY <1>5, <2>1, <2>2, <2>4, <2>5, MailedSame DEF ReadLine
<1>6. CASE DownloadReply
  <2>1. FirstReply \in 1 .. Len(toClient) /\ toClient' = SubSeq(toClient, FirstReply + 1, Len(toClient))
    BY <1>0, <1>6, FirstReplyFacts DEF DownloadReply
  <2>2. FirstReply + 1 \in 1 .. Len(toClient) + 1
    BY <1>0, <2>1, LenProperties
  <2>3. Range(toClient)' \subseteq Range(toClient)
    BY <1>0, <2>1, <2>2, RangeSubSeq
  <2> QED
    BY <1>6, <2>3, MailedSame DEF DownloadReply, session, Mailed
<1>7. CASE DownloadBroken
  BY <1>7, MailedSame DEF DownloadBroken, session, notes, Mailed
<1> QED
  BY <1>1, <1>2, <1>3, <1>4, <1>5, <1>6, <1>7 DEF Notifier

\* The server's answers.
LEMMA MailedAnswers ==
    ASSUME TypeInv, DialogueInv, Clean, Mailed, Answers \/ Refuse
    PROVE  Mailed'
<1> DEFINE Kinds == {"ok", "no", "bad", "capability", "exists", "search"}
<1>0. toClient \in Seq(Lines)
  BY DEF TypeInv, Wires
<1>1. ASSUME UNCHANGED session, NEW ls \in Seq(Lines), Answer(ls), \A l \in Range(ls) : l.k \in Kinds
      PROVE  Mailed'
  <2>1. toClient' = toClient \o ls /\ UNCHANGED <<view, told, mailbox, expunged>>
    BY <1>1 DEF Answer, session, notes
  <2>2. Range(toClient \o ls) = Range(toClient) \cup Range(ls)
    BY <1>0, RangeConcatenation
  <2> QED
    BY <1>1, <2>1, <2>2, MailedSame DEF Mailed
<1>2. CASE AnswerSelect
  <2>1. /\ Asked("SELECT") /\ view' \in Ascending(box) /\ told' = box \ unread
        /\ toClient' = toClient \o <<Exists, Ok("SELECT")>> /\ UNCHANGED <<mailbox, expunged>>
    BY <1>2 DEF AnswerSelect, Answer, Exists, notes
  <2>2. toClient \in {<<>>, <<Ok("LOGIN")>>}
    BY <2>1, AskedIn DEF DialogueInv, Asked
  <2>3. Ok("SELECT") \in Lines /\ Exists \in Lines
    BY LineTypes DEF Exists
  <2>4. Range(toClient') = Range(toClient) \cup {Exists, Ok("SELECT")}
    BY <1>0, <2>1, <2>3, RangeBehind
  <2>5. \A l \in Range(toClient') : l.k \in {"ok", "exists"}
    BY <2>2, <2>4, RangeFacts, LineTags
  <2>6. \A l \in Range(toClient') : Proper(l)'
    BY <2>5 DEF Proper
  <2>7. \A i \in 1 .. Len(view') : view'[i] \in box
    <3>1. box \in SUBSET (1 .. MailCount)
      BY BoxFacts DEF TypeInv
    <3> QED
      BY <2>1, <3>1, AscendingFacts
  <2> QED
    BY <2>1, <2>6, <2>7 DEF Mailed, Clean, mailbox
<1>3. CASE AnswerLogin
  <2>1. Capability.k \in Kinds /\ Ok("LOGIN").k \in Kinds /\ <<Capability, Ok("LOGIN")>> \in Seq(Lines)
    BY LineTags, LineTypes DEF Capability
  <2>2. Answer(<<Capability, Ok("LOGIN")>>) /\ UNCHANGED session
    BY <1>3 DEF AnswerLogin, Capability
  <2>3. \A l \in Range(<<Capability, Ok("LOGIN")>>) : l.k \in Kinds
    BY <2>1, RangeFacts
  <2> QED
    BY <1>1, <2>1, <2>2, <2>3
<1>4. CASE AnswerSearch
  <2> DEFINE ids == {i \in DOMAIN view : view[i] \in unread}
             a == [k |-> "search", ids |-> ids]
  <2>1. ids \in SUBSET Numbers
    BY DistinctIsShort, LenProperties, ImapAssumption DEF TypeInv, Viewed, Numbers
  <2>2. Answer(<<a, Ok("SEARCH")>>) /\ UNCHANGED session
    BY <1>4 DEF AnswerSearch
  <2> HIDE DEF ids
  <2>3. a.k \in Kinds /\ a \in Lines /\ Ok("SEARCH").k \in Kinds /\ Ok("SEARCH") \in Lines
    BY <2>1, LineTags, LineTypes
  <2> HIDE DEF a
  <2>4. <<a, Ok("SEARCH")>> \in Seq(Lines)
    BY <2>3
  <2>5. \A l \in Range(<<a, Ok("SEARCH")>>) : l.k \in Kinds
    BY <2>3, RangeFacts
  <2> QED
    BY <1>1, <2>2, <2>4, <2>5
<1>5. CASE AnswerFetch
  <2> DEFINE n == Head(toServer).n
             a == IF n \in DOMAIN view THEN Tagged("ok", "FETCH", view[n]) ELSE Tagged("bad", "FETCH", None)
  <2>1. Answer(<<a>>) /\ UNCHANGED session
    BY <1>5 DEF AnswerFetch
  <2>2. a.k \in Kinds
    BY DEF Tagged
  <2>3. a \in Lines
    BY LineTypes, LenProperties, ElementOfSeq DEF TypeInv, Viewed
  <2> HIDE DEF a
  <2>4. <<a>> \in Seq(Lines)
    BY <2>3
  <2>5. \A l \in Range(<<a>>) : l.k \in Kinds
    BY <2>2, RangeFacts
  <2> QED
    BY <1>1, <2>1, <2>4, <2>5
<1>6. CASE AnswerIdle
  <2>1. toClient' = toClient \o <<>> /\ UNCHANGED <<view, told, mailbox, expunged>>
    BY <1>6 DEF AnswerIdle, Answer, notes
  <2> QED
    BY <1>0, <2>1, RangeBehind, MailedSame DEF Mailed
<1>7. CASE AnswerDone
  <2>1. toClient' = toClient \o <<Ok("IDLE")>> /\ UNCHANGED <<view, told, mailbox, expunged>>
    BY <1>7 DEF AnswerDone, Answer, notes
  <2>2. Range(toClient') = Range(toClient) \cup {Ok("IDLE")}
    BY <1>0, <2>1, RangeBehind, LineTypes
  <2> QED
    BY <2>1, <2>2, MailedSame, LineTags DEF Mailed
<1>8. CASE Refuse
  <2>1. PICK c \in {"LOGIN", "SELECT", "SEARCH", "FETCH"} : Answer(<<No(c)>>) /\ UNCHANGED session
    BY <1>8 DEF Refuse, No
  <2>2. No(c).k \in Kinds /\ No(c) \in Lines
    BY LineTags, LineTypes DEF No
  <2>3. <<No(c)>> \in Seq(Lines)
    BY <2>2
  <2>4. \A l \in Range(<<No(c)>>) : l.k \in Kinds
    BY <2>2, RangeFacts
  <2> QED
    BY <1>1, <2>1, <2>3, <2>4
<1> QED
  BY <1>2, <1>3, <1>4, <1>5, <1>6, <1>7, <1>8 DEF Answers

\* How the view grows by new mail.
LEMMA ViewGrows ==
    ASSUME TypeInv, NEW new \in Ascending(New), view' = view \o new
    PROVE  /\ Extended
           /\ \A i \in 1 .. Len(view') : i \in 1 .. Len(view) \/ view'[i] \in box
<1>1. New \in SUBSET (1 .. MailCount) /\ New \subseteq box
  BY BoxFacts DEF TypeInv, New
<1>2. new \in Seq(New) /\ \A i \in 1 .. Len(new) : new[i] \in New
  BY <1>1, AscendingFacts
<1>3. new \in Seq(Mails) /\ view \in Seq(Mails)
  BY <1>1, <1>2, SeqMonotonic DEF Mails, TypeInv, Viewed
<1>4. /\ Len(view') = Len(view) + Len(new)
      /\ \A i \in 1 .. Len(view) + Len(new) :
            view'[i] = IF i <= Len(view) THEN view[i] ELSE new[i - Len(view)]
  BY <1>3, ConcatProperties
<1>5. Len(view) \in Nat /\ Len(new) \in Nat
  BY <1>3, LenProperties
<1>6. ASSUME NEW i \in 1 .. Len(view'), i \notin 1 .. Len(view) PROVE view'[i] \in box
  <2>1. i - Len(view) \in 1 .. Len(new) /\ ~(i <= Len(view)) /\ i \in 1 .. Len(view) + Len(new)
    BY <1>4, <1>5, <1>6
  <2> QED
    BY <1>1, <1>2, <1>4, <2>1
<1>7. \A i \in 1 .. Len(view) : i \in 1 .. Len(view) + Len(new) /\ i <= Len(view)
  BY <1>5
<1> QED
  BY <1>4, <1>5, <1>6, <1>7 DEF Extended

\* Its reports.
LEMMA MailedReports ==
    ASSUME TypeInv, Clean, Mailed, Reports
    PROVE  Mailed'
<1>0. toClient \in Seq(Lines) /\ DOMAIN view = 1 .. Len(view) /\ 1 .. Len(view) \subseteq Numbers
  BY DistinctIsShort, LenProperties, ImapAssumption DEF TypeInv, Wires, Viewed, Numbers
<1>1. ~ReportExpunge
  BY <1>0 DEF ReportExpunge, Mailed, Clean
<1>2. CASE ReportExists
  <2>1. PICK new \in Ascending(New) : view' = view \o new
    BY <1>2 DEF ReportExists
  <2>2. Extended /\ \A i \in 1 .. Len(view') : i \in 1 .. Len(view) \/ view'[i] \in box
    BY <2>1, ViewGrows
  <2>3. toClient' = toClient \o <<Exists>> /\ UNCHANGED <<told, mailbox, expunged>>
    BY <1>2 DEF ReportExists, Report, Exists, notes
  <2>4. Range(toClient') = Range(toClient) \cup {Exists}
    BY <1>0, <2>3, RangeBehind, LineTypes DEF Exists
  <2>5. \A i \in 1 .. Len(view) : i \in 1 .. Len(view')
    BY <2>2 DEF Extended
  <2>6. \A l \in Range(toClient') : Proper(l)'
    BY <2>2, <2>3, <2>4, <2>5, LineTags DEF Mailed, Proper, Extended, mailbox
  <2>7. \A i \in 1 .. Len(view') : view'[i] \in 1 .. arrived
    BY <2>2 DEF Mailed, Clean, Extended
  <2> QED
    BY <2>3, <2>6, <2>7 DEF Mailed, mailbox
<1>3. CASE ReportSeen
  <2>1. PICK i \in 1 .. Len(view) :
            /\ view[i] \in box \ (unread \cup told) /\ told' = told \cup {view[i]}
            /\ Report(<<Seen(i)>>) /\ UNCHANGED view
    BY <1>0, <1>3 DEF ReportSeen, Seen
  <2>2. toClient' = toClient \o <<Seen(i)>> /\ UNCHANGED <<mailbox, expunged>>
    BY <2>1 DEF Report, notes
  <2>3. Range(toClient') = Range(toClient) \cup {Seen(i)}
    BY <1>0, <2>2, RangeBehind, LineTypes DEF Seen
  <2>4. Proper(Seen(i))
    BY <2>1 DEF Proper, Seen
  <2>5. \A l \in Range(toClient') : Proper(l)'
    BY <2>1, <2>2, <2>3, <2>4 DEF Mailed, Proper, mailbox
  <2> QED
    BY <2>1, <2>2, <2>5 DEF Mailed, Clean, mailbox
<1> QED
  BY <1>1, <1>2, <1>3 DEF Reports

\* Mail that arrives, is read, and lost connections.
LEMMA MailedStep ==
    ASSUME TypeInv, DialogueInv, Clean, Clean', Mailed, [Next]_vars, ~(DownloadBroken /\ Restart)
    PROVE  Mailed'
<1>1. CASE Arrive
  <2>1. arrived \in Nat /\ arrived' = arrived + 1 /\ unread' = unread \cup {arrived + 1}
        /\ UNCHANGED <<view, told, toClient, expunged>>
    BY <1>1 DEF Arrive, TypeInv, Mailbox, session, notes
  <2>2. \A i \in 1 .. arrived : i \in 1 .. arrived + 1 /\ i # arrived + 1
    BY <2>1
  <2>3. \A i \in 1 .. Len(view) : view[i] \in 1 .. arrived + 1 /\ view[i] # arrived + 1
    BY <2>2 DEF Mailed
  <2>4. told \subseteq (1 .. arrived + 1) \ (unread \cup {arrived + 1})
    BY <2>2 DEF Mailed
  <2>5. \A l \in Range(toClient) : Proper(l)'
    BY <2>1, <2>3 DEF Mailed, Proper
  <2> QED
    BY <2>1, <2>3, <2>4, <2>5 DEF Mailed
<1>2. ASSUME NEW m \in Mails, Read(m) \/ Delete(m) PROVE Mailed'
  <2>1. unread' \subseteq unread /\ UNCHANGED <<view, told, toClient, expunged, arrived>>
    BY <1>2 DEF Read, Delete, session, notes
  <2>2. \A l \in Range(toClient) : Proper(l)'
    BY <2>1 DEF Mailed, Proper
  <2> QED
    BY <2>1, <2>2 DEF Mailed
<1>3. CASE EndConnection \/ Outage
  <2>1. toClient' = <<>> /\ UNCHANGED <<view, told, mailbox, expunged>>
    BY <1>3 DEF EndConnection, Outage, Drop, notes, session
  <2> QED
    BY <2>1, RangeFacts, MailedSame DEF Mailed
<1>4. CASE NetworkBack \/ UNCHANGED vars
  BY <1>4, MailedSame DEF NetworkBack, vars, notes, session, Mailed
<1> QED
  BY <1>1, <1>2, <1>3, <1>4, MailedNotifier, MailedAnswers, MailedReports DEF Next
(***************************************************************************)
(* Lines that are no result of a search.                                   *)
(***************************************************************************)
LEMMA NoResultFacts ==
    /\ NoResult(<<>>)
    /\ \A a : a.k # "search" /\ ~OkSearch(a) => NoResult(<<a>>)
    /\ \A a, b : a.k # "search" /\ ~OkSearch(a) /\ b.k # "search" /\ ~OkSearch(b) => NoResult(<<a, b>>)
    /\ \A s, t \in Seq(Lines) : NoResult(s) /\ NoResult(t) => NoResult(s \o t)
    /\ \A s \in Seq(Lines) : s # <<>> /\ NoResult(s) =>
            NoResult(Tail(s)) /\ Head(s).k # "search" /\ ~OkSearch(Head(s))
<1>1. \A s, t \in Seq(Lines) : Range(s \o t) = Range(s) \cup Range(t)
  BY RangeConcatenation
<1>2. \A s \in Seq(Lines) : s # <<>> => Range(s) = {Head(s)} \cup Range(Tail(s))
  BY RangeTail
<1> QED
  BY <1>1, <1>2, RangeFacts DEF NoResult

\* Only the answer to SEARCH is one.
LEMMA AnswersNoResult ==
    ASSUME TypeInv, Answers \/ Refuse, ~AnswerSearch, NoResult(toClient)
    PROVE  NoResult(toClient')
<1>0. toClient \in Seq(Lines)
  BY DEF TypeInv, Wires
<1>1. ASSUME NEW ls \in Seq(Lines), NoResult(ls), Answer(ls) PROVE NoResult(toClient')
  BY <1>0, <1>1, NoResultFacts DEF Answer
<1>2. \A c : c # "SEARCH" => Ok(c).k # "search" /\ ~OkSearch(Ok(c))
  BY LineTags DEF OkSearch
<1>3. \A c : No(c).k # "search" /\ ~OkSearch(No(c))
  BY LineTags DEF OkSearch
<1>4. Capability.k # "search" /\ ~OkSearch(Capability) /\ Exists.k # "search" /\ ~OkSearch(Exists)
  BY LineTags DEF OkSearch
<1>5. CASE AnswerLogin
  <2>1. Answer(<<Capability, Ok("LOGIN")>>)
    BY <1>5 DEF AnswerLogin, Capability
  <2>2. Capability \in Lines /\ Ok("LOGIN") \in Lines
    BY LineTypes DEF Capability
  <2>3. <<Capability, Ok("LOGIN")>> \in Seq(Lines) /\ NoResult(<<Capability, Ok("LOGIN")>>)
    BY <1>2, <1>4, <2>2, NoResultFacts
  <2> QED
    BY <1>1, <2>1, <2>3
<1>6. CASE AnswerSelect
  <2>1. Answer(<<Exists, Ok("SELECT")>>)
    BY <1>6 DEF AnswerSelect, Exists
  <2>2. Exists \in Lines /\ Ok("SELECT") \in Lines
    BY LineTypes DEF Exists
  <2>3. <<Exists, Ok("SELECT")>> \in Seq(Lines) /\ NoResult(<<Exists, Ok("SELECT")>>)
    BY <1>2, <1>4, <2>2, NoResultFacts
  <2> QED
    BY <1>1, <2>1, <2>3
<1>7. CASE AnswerFetch
  <2> DEFINE n == Head(toServer).n
             a == IF n \in DOMAIN view THEN Tagged("ok", "FETCH", view[n]) ELSE Tagged("bad", "FETCH", None)
  <2>1. Answer(<<a>>)
    BY <1>7 DEF AnswerFetch
  <2>2. a.k # "search" /\ ~OkSearch(a)
    BY DEF Tagged, OkSearch
  <2>3. a \in Lines
    BY LineTypes, LenProperties, ElementOfSeq DEF TypeInv, Viewed
  <2> HIDE DEF a
  <2>4. <<a>> \in Seq(Lines) /\ NoResult(<<a>>)
    BY <2>2, <2>3, NoResultFacts
  <2> QED
    BY <1>1, <2>1, <2>4
<1>8. CASE AnswerIdle
  BY <1>1, <1>8, NoResultFacts, SomeSequences DEF AnswerIdle
<1>9. CASE AnswerDone
  <2>1. <<Ok("IDLE")>> \in Seq(Lines) /\ NoResult(<<Ok("IDLE")>>)
    BY <1>2, NoResultFacts, LineTypes, SomeSequences
  <2> QED
    BY <1>1, <1>9, <2>1 DEF AnswerDone
<1>10. CASE Refuse
  <2>1. PICK c \in {"LOGIN", "SELECT", "SEARCH", "FETCH"} : Answer(<<No(c)>>)
    BY <1>10 DEF Refuse, No
  <2>2. No(c) \in Lines
    BY LineTypes DEF No
  <2>3. <<No(c)>> \in Seq(Lines) /\ NoResult(<<No(c)>>)
    BY <1>3, <2>2, NoResultFacts
  <2> QED
    BY <1>1, <2>1, <2>3
<1> QED
  BY <1>5, <1>6, <1>7, <1>8, <1>9, <1>10 DEF Answers

\* Nor is what it reports, if it has not been deleted.
LEMMA ReportsNoResult ==
    ASSUME TypeInv, ReportExists \/ ReportSeen, NoResult(toClient)
    PROVE  NoResult(toClient')
<1>0. toClient \in Seq(Lines) /\ DOMAIN view = 1 .. Len(view) /\ 1 .. Len(view) \subseteq Numbers
  BY DistinctIsShort, LenProperties, ImapAssumption DEF TypeInv, Wires, Viewed, Numbers
<1>1. ASSUME NEW a \in Lines, Report(<<a>>), a.k \in {"exists", "seen"} PROVE NoResult(toClient')
  <2>1. <<a>> \in Seq(Lines) /\ NoResult(<<a>>)
    BY <1>1, NoResultFacts DEF OkSearch
  <2> QED
    BY <1>0, <1>1, <2>1, NoResultFacts DEF Report
<1>2. Exists \in Lines /\ \A i \in Numbers : Seen(i) \in Lines
  BY LineTypes DEF Exists, Seen
<1>3. CASE ReportExists
  BY <1>1, <1>2, <1>3 DEF ReportExists, Exists
<1>4. CASE ReportSeen
  BY <1>0, <1>1, <1>2, <1>4 DEF ReportSeen, Seen
<1> QED
  BY <1>3, <1>4

(***************************************************************************)
(* Before the first search of a connection.                                *)
(***************************************************************************)
LEMMA EarlyNotifier ==
    ASSUME TypeInv, DialogueInv, Clean', Early, Notifier, ~(DownloadBroken /\ Restart)
    PROVE  Early'
<1>0. toClient \in Seq(Lines)
  BY DEF TypeInv, Wires
<1>1. CASE Construct \/ Connect
  <2>1. state = "DISCONNECT"
    BY <1>1 DEF Construct, Connect, TypeInv, Started
  <2>2. queue = <<>> /\ NoResult(toClient)
    BY <2>1 DEF Early
  <2>3. toClient' \in {toClient, <<>>} /\ UNCHANGED queue
    BY <1>1 DEF Construct, Connect, Connected, Deinit, others
  <2> QED
    BY <2>2, <2>3, NoResultFacts DEF Early
<1>2. CASE Login \/ ReadPart
  <2>1. UNCHANGED <<queue, toClient>> /\ (state' = state \/ state = "CONNECT")
    BY <1>2 DEF Login, ReadPart, progress, others
  <2> QED
    BY <2>1 DEF Early
<1>3. CASE ReadLine
  <2>1. toClient # <<>> /\ toClient' = Tail(toClient)
    BY <1>3 DEF ReadLine
  <2>2. ASSUME state' \in {"DISCONNECT", "CONNECT", "AUTHING", "SELECTING"}
        PROVE  state \in {"DISCONNECT", "CONNECT", "AUTHING", "SELECTING"} /\ queue' = queue
    <3>1. ASSUME NEW l, Reply(l)
          PROVE  state \in {"DISCONNECT", "CONNECT", "AUTHING", "SELECTING"} /\ queue' = queue
      <4>1. Deinit => conn' = "none" /\ UNCHANGED <<state, queue>>
        BY DEF Deinit
      <4>2. DownloadNext => state' \in {state, "IDLE"}
        BY DEF DownloadNext
      <4> QED
        BY <2>2, <3>1, <4>1, <4>2 DEF Reply, ManualCheck, progress, others, TypeInv, Places
    <3>2. ASSUME NEW l, Untagged(l)
          PROVE  state \in {"DISCONNECT", "CONNECT", "AUTHING", "SELECTING"} /\ queue' = queue
      BY <2>2, <3>2 DEF Untagged, ManualCheck, progress, others
    <3> QED
      BY <1>3, <3>1, <3>2 DEF ReadLine
  <2> QED
    BY <1>0, <2>1, <2>2, NoResultFacts DEF Early
<1>4. CASE ReadJoined
  <2>1. toClient # <<>> /\ toClient' = Tail(toClient) /\ Listening /\ Junky
    BY <1>4 DEF ReadJoined, Junky
  <2>2. conn = "open" /\ Dialogue
    BY <2>1 DEF DialogueInv, Lost, Listening, TypeInv, Places
  <2>3. state = "AUTHING"
    BY <2>1, <2>2 DEF Dialogue, OnConnect, OnLogin, OnSelect, OnCheck, OnFetch, OnIdle, Listening
  <2>4. queue' = queue
    BY <1>4 DEF ReadJoined, Deinit, progress, others
  <2> QED
    BY <1>0, <2>1, <2>3, <2>4, NoResultFacts DEF Early
<1>5. CASE DownloadReply \/ DownloadBroken
  <2>1. state = "CHECKING"
    BY <1>5 DEF DownloadReply, DownloadBroken, TypeInv, Downloads
  <2>2. state' \in {"CHECKING", "IDLE"}
    BY <1>5, <2>1 DEF DownloadReply, DownloadBroken, DownloadNext
  <2> QED
    BY <2>2 DEF Early
<1>6. CASE LoseConnection
  <2>1. toClient' = <<>> /\ queue' = queue
    BY <1>6 DEF LoseConnection, DialogueInv, Lost, others
  <2>2. queue = <<>>
    BY <1>6 DEF LoseConnection, Clean
  <2> QED
    BY <2>1, <2>2, NoResultFacts DEF Early
<1> QED
  BY <1>1, <1>2, <1>3, <1>4, <1>5, <1>6 DEF Notifier

\* Every step.
LEMMA EarlyStep ==
    ASSUME TypeInv, DialogueInv, Clean', Early, [Next]_vars, ~(DownloadBroken /\ Restart)
    PROVE  Early'
<1>1. CASE Answers \/ Refuse
  <2>1. UNCHANGED <<state, queue>>
    BY <1>1 DEF Answers, AnswerLogin, AnswerSelect, AnswerSearch, AnswerFetch, AnswerIdle, AnswerDone,
                Refuse, Answer, progress, others
  <2>2. CASE AnswerSearch
    <3>1. OnCheck
      BY <2>2, AskedIn DEF AnswerSearch, Asked, DialogueInv
    <3> QED
      BY <2>1, <3>1 DEF OnCheck, Early
  <2>3. CASE ~AnswerSearch
    BY <1>1, <2>1, <2>3, AnswersNoResult DEF Early
  <2> QED
    BY <2>2, <2>3
<1>2. CASE Reports
  <2>1. idling /\ conn = "open" /\ UNCHANGED state
    BY <1>2 DEF Reports, ReportExists, ReportSeen, ReportExpunge, Report, progress
  <2>2. state \in {"CHECKING", "IDLE"}
    BY <2>1 DEF DialogueInv, Dialogue, OnConnect, OnLogin, OnSelect, OnCheck, OnFetch, OnIdle
  <2> QED
    BY <2>1, <2>2 DEF Early
<1>3. CASE Arrive \/ (\E m \in Mails : Read(m) \/ Delete(m)) \/ NetworkBack \/ UNCHANGED vars
  <2>1. UNCHANGED <<state, queue, toClient>>
    BY <1>3 DEF Arrive, Read, Delete, NetworkBack, vars, progress, others
  <2> QED
    BY <2>1 DEF Early
<1>4. CASE EndConnection \/ Outage
  <2>1. UNCHANGED <<state, queue>> /\ toClient' = <<>>
    BY <1>4 DEF EndConnection, Outage, Drop, progress, others
  <2> QED
    BY <2>1, NoResultFacts DEF Early
<1> QED
  BY <1>1, <1>2, <1>3, <1>4, EarlyNotifier DEF Next
(***************************************************************************)
(* The stages of an open connection.                                       *)
(***************************************************************************)
Ready == TypeInv /\ DialogueInv /\ Mailed /\ Early /\ Staged /\ conn = "open" /\ conn' = "open"

\* There is nothing to say before the search.
LEMMA StagedBefore ==
    ASSUME state' \notin {"CHECKING", "IDLE"}, fetching' = None
    PROVE  Staged'
  BY DEF Staged, Checking, Fetching, Idling, Showing

\* All that is known, found or asked for stays so as the next header is asked for.
LEMMA KeptNext ==
    ASSUME TypeInv, state = "CHECKING", DownloadNext, known' = known \cup ({fetching} \ {None})
    PROVE  /\ Kept' = Kept
           /\ fetching' # None => state' = "CHECKING" /\ Kept # {}
           /\ fetching' = None => state' = "IDLE" /\ queue' = <<>>
<1>1. CASE queue # <<>>
  <2>1. Range(queue) = Range(Front(queue)) \cup {Last(queue)} /\ Last(queue) \in Numbers
    BY <1>1, RangeFront, FrontFacts DEF TypeInv, Downloads
  <2>2. Last(queue) # None
    BY <2>1, ImapAssumption DEF Numbers, None
  <2>3. fetching' = Last(queue) /\ queue' = Front(queue) /\ state' = state
    BY <1>1 DEF DownloadNext
  <2> QED
    BY <2>1, <2>2, <2>3 DEF Kept
<1>2. CASE queue = <<>>
  <2>1. fetching' = None /\ queue' = queue /\ state' = "IDLE"
    BY <1>2 DEF DownloadNext
  <2> QED
    BY <1>2, <2>1 DEF Kept
<1> QED
  BY <1>1, <1>2

\* What is kept are numbers.
LEMMA KeptType == ASSUME TypeInv PROVE Kept \subseteq Numbers
  BY RangeOfSeq DEF TypeInv, Told, Downloads, Kept

\* The next header is asked for, or there is none left.
LEMMA NextStaged ==
    ASSUME TypeInv, state = "CHECKING", Agrees(<<>>), DownloadNext,
           known' = known \cup ({fetching} \ {None}), toClient' = <<>>,
           UNCHANGED <<view, told, unread>>, Showing'
    PROVE  Staged'
<1>1. /\ Kept' = Kept
      /\ fetching' # None => state' = "CHECKING" /\ Kept # {}
      /\ fetching' = None => state' = "IDLE" /\ queue' = <<>>
  BY KeptNext
<1>2. PICK A \in SUBSET Numbers :
          Fits(A, <<>>) /\ (Kept = A \/ (Kept = {} /\ ~(Cardinality(A) <= LineIds)))
  BY DEF Agrees
<1>3. Fits(A, <<>>)'
  BY <1>2 DEF Fits
<1>4. CASE fetching' # None
  <2>1. Kept = A /\ Kept' = A
    BY <1>1, <1>2, <1>4
  <2>2. Fits(A, <<>>)' /\ A = Kept' => Fits(Kept, <<>>)'
    BY DEF Fits
  <2>3. Fetching'
    BY <1>3, <2>1, <2>2, RangeFacts DEF Fetching
  <2> QED
    BY <1>1, <1>4, <2>3 DEF Staged, Checking, Idling
<1>5. CASE fetching' = None
  <2>1. Agrees(<<>>)'
    BY <1>1, <1>2, <1>3 DEF Agrees
  <2>2. Agrees(<<>>)' /\ toClient' = <<>> => Agrees(toClient)'
    BY DEF Agrees, Fits
  <2>3. Idling'
    BY <1>1, <1>5, <2>1, <2>2, NoResultFacts DEF Idling
  <2> QED
    BY <1>1, <1>5, <2>3 DEF Staged, Checking, Fetching
<1> QED
  BY <1>4, <1>5

\* A header has come.
LEMMA DownloadStaged ==
    ASSUME Ready, DownloadReply
    PROVE  Staged'
<1> DEFINE l == toClient[FirstReply]
<1>0. TypeInv /\ toClient \in Seq(Lines)
  BY DEF Ready, TypeInv, Wires
<1>1. /\ fetching # None /\ FirstReply \in 1 .. Len(toClient) /\ DownloadNext
      /\ toClient' = SubSeq(toClient, FirstReply + 1, Len(toClient))
      /\ UNCHANGED <<view, told, unread>>
  BY <1>0, FirstReplyFacts DEF DownloadReply, session, mailbox
<1>2. state = "CHECKING" /\ fetching \in Numbers
  BY <1>0, <1>1 DEF TypeInv, Downloads
<1>3. Fits(Kept, <<>>) /\ l = Tagged("ok", "FETCH", view[fetching])
  <2>1. l \in Range(toClient)
    BY <1>0, <1>1, RangeEquality
  <2>2. l.k # "no"
    BY <1>0, <1>1, FirstReplyFacts DEF EndsDownload
  <2> QED
    BY <1>1, <2>1, <2>2 DEF Ready, Staged, Fetching
<1>4. l.k = "ok" /\ l.m = view[fetching]
  BY <1>3 DEF Tagged
<1>5. known' = known \cup {fetching} /\ shown' = [shown EXCEPT ![fetching] = view[fetching]]
  BY <1>4 DEF DownloadReply
<1>6. fetching \in 1 .. Len(view)
  BY <1>1, <1>3 DEF Fits, Kept
<1>7. Showing'
  <2>1. \A n \in known : n \in 1 .. Len(view) /\ shown[n] = view[n]
    BY <1>2 DEF Ready, Staged, Showing
  <2>2. shown \in [Numbers -> Mails \cup {None}]
    BY <1>0 DEF TypeInv, Told
  <2> QED
    BY <1>1, <1>2, <1>5, <1>6, <2>1, <2>2 DEF Showing
<1>8. toClient' = <<>>
  BY DownloadEnds DEF Ready, DialogueInv
<1>9. Agrees(<<>>)
  BY <1>0, <1>3, KeptType DEF Agrees
<1>10. known' = known \cup ({fetching} \ {None})
  BY <1>1, <1>5
<1> QED
  BY <1>0, <1>1, <1>2, <1>7, <1>8, <1>9, <1>10, NextStaged
(***************************************************************************)
(* A line is read.                                                         *)
(***************************************************************************)
Reads ==
    /\ Ready /\ ReadLine /\ Listening /\ fetching = None /\ toClient \in Seq(Lines) /\ toClient # <<>>
    /\ toClient' = Tail(toClient) /\ Head(toClient) \in Lines
    /\ UNCHANGED <<view, told, unread>>

\* What reading one means.
LEMMA ReadsFacts == ASSUME Ready, ReadLine PROVE Reads
<1>1. /\ Listening /\ fetching = None /\ toClient \in Seq(Lines) /\ toClient # <<>>
      /\ toClient' = Tail(toClient) /\ UNCHANGED <<view, told, unread>>
  BY DEF Ready, TypeInv, Wires, ReadLine, Listening, session, mailbox
<1> QED
  BY <1>1, TailFacts DEF Reads

\* A reply on an open connection does not end it.
LEMMA ReadReply ==
    ASSUME Reads, IsTagged(Head(toClient))
    PROVE  Reply(Head(toClient)) /\ ~Deinit
  BY DEF Reads, Ready, ReadLine, Deinit

\* What a search asks for is not known yet.
LEMMA CheckStaged ==
    ASSUME state' = "CHECKING", fetching' = None, known' = {}, queue' = <<>>, NoResult(toClient')
    PROVE  Staged'
  BY DEF Staged, Checking, Fetching, Idling, Showing

\* Before a search.
LEMMA EarlyRead ==
    ASSUME Reads, state \in {"AUTHING", "SELECTING"}
    PROVE  Staged'
<1> DEFINE l == Head(toClient)
<1>1. queue = <<>> /\ NoResult(Tail(toClient))
  BY NoResultFacts DEF Reads, Ready, Early
<1>2. CASE IsTagged(l)
  <2>1. Reply(l) /\ ~Deinit
    BY <1>2, ReadReply
  <2>2. \/ state' = "SELECTING" /\ fetching' = None
        \/ state' = "CHECKING" /\ fetching' = None /\ known' = {} /\ queue' = queue
    BY <2>1 DEF Reply, ManualCheck, others, Reads
  <2> QED
    BY <1>1, <2>2, CheckStaged, StagedBefore DEF Reads
<1>3. CASE ~IsTagged(l)
  <2>1. state' = state /\ fetching' = None
    BY <1>3 DEF Reads, ReadLine, Untagged, progress, others
  <2> QED
    BY <2>1, StagedBefore
<1> QED
  BY <1>2, <1>3

\* A line that says nothing while a search is under way.
LEMMA CheckIgnores ==
    ASSUME Reads, state = "CHECKING", Head(toClient).k # "search", ~OkSearch(Head(toClient))
    PROVE  UNCHANGED <<state, fetching, known, queue, shown>>
<1>1. CASE IsTagged(Head(toClient))
  <2>1. Reply(Head(toClient)) /\ ~Deinit
    BY <1>1, ReadReply
  <2> QED
    BY <2>1 DEF Reply, progress, others, notes
<1>2. CASE ~IsTagged(Head(toClient))
  BY <1>2 DEF Reads, ReadLine, Untagged, progress, others, notes
<1> QED
  BY <1>1, <1>2

\* A set that fits goes on fitting.
LEMMA FitsSame ==
    ASSUME NEW A, NEW s, Fits(A, s), UNCHANGED <<view, told, unread>>
    PROVE  Fits(A, s)'
  BY DEF Fits

\* The parts of a result.
LEMMA ResultFacts ==
    ASSUME NEW ids \in SUBSET Numbers
    PROVE  /\ ResultOf(ids) \in Seq(Lines) /\ ResultOf(ids) # <<>>
           /\ Head(ResultOf(ids)) = [k |-> "search", ids |-> ids]
           /\ Tail(ResultOf(ids)) = <<Ok("SEARCH")>>
           /\ <<>> \o ResultOf(ids) = ResultOf(ids)
<1>1. [k |-> "search", ids |-> ids] \in Lines /\ Ok("SEARCH") \in Lines
  BY LineTypes
<1>2. ResultOf(ids) \in Seq(Lines)
  BY <1>1, SomeSequences DEF ResultOf
<1>3. <<>> \o ResultOf(ids) = ResultOf(ids)
  BY <1>2, ConcatEmptySeq
<1> QED
  BY <1>2, <1>3, Short DEF ResultOf

\* The first of two sequences, one behind the other.
LEMMA TailOfBoth ==
    ASSUME NEW S, NEW s \in Seq(S), NEW t \in Seq(S), s # <<>>
    PROVE  Head(s \o t) = Head(s) /\ Tail(s \o t) = Tail(s) \o t
<1> DEFINE r == s \o t
           u == Tail(s)
<1>1. /\ r \in Seq(S) /\ Len(r) = Len(s) + Len(t)
      /\ \A i \in 1 .. Len(s) + Len(t) : r[i] = IF i <= Len(s) THEN s[i] ELSE t[i - Len(s)]
  BY ConcatProperties
<1>2. /\ Head(s) = s[1] /\ u \in Seq(S) /\ Len(s) \in Nat \ {0} /\ Len(u) = Len(s) - 1
      /\ \A i \in 1 .. Len(u) : u[i] = s[i + 1]
  BY TailFacts
<1>3. Len(t) \in Nat
  BY LenProperties
<1> HIDE DEF r, u
<1>4. Len(r) \in Nat \ {0} /\ r # <<>>
  <2>1. Len(r) \in Nat \ {0}
    BY <1>1, <1>2, <1>3
  <2> QED
    BY <2>1, EmptySeq
<1>5. /\ Head(r) = r[1] /\ Tail(r) \in Seq(S) /\ Len(Tail(r)) = Len(r) - 1
      /\ \A i \in 1 .. Len(Tail(r)) : Tail(r)[i] = r[i + 1]
  BY <1>1, <1>4, TailFacts
<1>6. r[1] = s[1]
  BY <1>1, <1>2, <1>3
<1> DEFINE v == u \o t
           w == Tail(r)
<1>7. /\ v \in Seq(S) /\ Len(v) = Len(u) + Len(t)
      /\ \A i \in 1 .. Len(u) + Len(t) : v[i] = IF i <= Len(u) THEN u[i] ELSE t[i - Len(u)]
  BY <1>2, ConcatProperties
<1>8. w \in Seq(S) /\ Len(w) = Len(r) - 1 /\ \A i \in 1 .. Len(w) : w[i] = r[i + 1]
  BY <1>5
<1> HIDE DEF v, w
<1>9. Len(w) = Len(v) /\ Len(v) = Len(s) - 1 + Len(t)
  BY <1>1, <1>2, <1>3, <1>7, <1>8
<1>10. ASSUME NEW i \in 1 .. Len(w) PROVE w[i] = v[i]
  <2>1. i \in 1 .. Len(s) - 1 + Len(t) /\ i + 1 \in 1 .. Len(s) + Len(t)
    BY <1>2, <1>3, <1>9
  <2>2. CASE i <= Len(s) - 1
    <3>1. i \in 1 .. Len(u) /\ i <= Len(u) /\ i + 1 <= Len(s) /\ i \in 1 .. Len(u) + Len(t)
      BY <1>2, <1>3, <2>1, <2>2
    <3> QED
      BY <1>1, <1>2, <1>7, <1>8, <2>1, <3>1
  <2>3. CASE ~(i <= Len(s) - 1)
    <3>1. ~(i <= Len(u)) /\ ~(i + 1 <= Len(s)) /\ i \in 1 .. Len(u) + Len(t)
      BY <1>2, <1>3, <2>1, <2>3
    <3>2. (i + 1) - Len(s) = i - Len(u)
      BY <1>2, <2>1
    <3> QED
      BY <1>1, <1>7, <1>8, <2>1, <3>1, <3>2
  <2> QED
    BY <2>2, <2>3
<1>11. w = v
  BY ONLY <1>7, <1>8, <1>9, <1>10, SeqEqual
<1> QED
  BY <1>2, <1>5, <1>6, <1>11 DEF r, u, v, w
\* The numbers of a list, in order.
LEMMA FoundFacts ==
    ASSUME NEW ids \in SUBSET Numbers, NEW found \in Found(ids)
    PROVE  Range(found) = ids /\ found \in Seq(Numbers)
<1>1. ids \in SUBSET (1 .. MailCount)
  BY DEF Numbers
<1>2. found \in Seq(ids) /\ Distinct(found) /\ \A i \in 1 .. Len(found) : found[i] \in ids
  BY <1>1, AscendingFacts DEF Found
<1>3. found \in [1 .. Cardinality(ids) -> ids]
  BY DEF Found, Ascending
<1>4. IsFiniteSet(ids) /\ Cardinality(ids) \in Nat
  <2>1. IsFiniteSet(1 .. MailCount)
    BY ImapAssumption, FS_Interval
  <2> QED
    BY <1>1, <2>1, FS_Subset, FS_CardinalityType
<1>5. found \in Injection(1 .. Cardinality(ids), ids)
  <2>1. Len(found) = Cardinality(ids)
    BY <1>3, <1>4
  <2> QED
    BY <1>2, <1>3, <2>1 DEF Distinct, Injection, IsInjective
<1>6. Cardinality(1 .. Cardinality(ids)) = Cardinality(ids)
  <2>1. Cardinality(1 .. Cardinality(ids)) =
            IF 1 > Cardinality(ids) THEN 0 ELSE Cardinality(ids) - 1 + 1
    BY <1>4, FS_Interval
  <2> QED
    BY <1>4, <2>1
<1>7. found \in Surjection(1 .. Cardinality(ids), ids)
  BY <1>4, <1>5, <1>6, FS_Injection
<1>8. \A n \in ids : \E i \in 1 .. Cardinality(ids) : found[i] = n
  BY <1>7 DEF Surjection
<1>9. DOMAIN found = 1 .. Cardinality(ids)
  BY <1>3
<1>10. Range(found) = ids
  BY <1>3, <1>8, <1>9 DEF Range
<1>11. found \in Seq(Numbers)
  BY <1>2, SeqMonotonic
<1> QED
  BY <1>10, <1>11

\* A line while a search is under way.
LEMMA CheckReadStaged ==
    ASSUME Reads, state = "CHECKING"
    PROVE  Staged'
<1> DEFINE l == Head(toClient)
<1>0. /\ TypeInv /\ fetching = None /\ known = {} /\ toClient' = Tail(toClient)
      /\ toClient \in Seq(Lines) /\ toClient # <<>> /\ UNCHANGED <<view, told, unread>>
  BY DEF Reads, Ready, Staged, Checking
<1>1. CASE queue = <<>> /\ NoResult(toClient)
  <2>1. NoResult(Tail(toClient)) /\ l.k # "search" /\ ~OkSearch(l)
    BY <1>1, NoResultFacts DEF Reads
  <2>2. UNCHANGED <<state, fetching, known, queue, shown>>
    BY <2>1, CheckIgnores
  <2> QED
    BY <1>0, <1>1, <2>1, <2>2, CheckStaged
<1>2. ASSUME queue = <<>>, NEW s \in Seq(Lines), NEW ids \in SUBSET Numbers,
             toClient = s \o ResultOf(ids), NoResult(s), Fits(ids, <<>>)
      PROVE  Staged'
  <2>1. Fits(ids, <<>>)'
    BY <1>0, <1>2, FitsSame
  <2>2. CASE s # <<>>
    <3>1. l = Head(s) /\ toClient' = Tail(s) \o ResultOf(ids)
      BY <1>0, <1>2, <2>2, ResultFacts, TailOfBoth
    <3>2. l.k # "search" /\ ~OkSearch(l) /\ NoResult(Tail(s)) /\ Tail(s) \in Seq(Lines)
      BY <1>2, <2>2, <3>1, NoResultFacts, TailFacts
    <3>3. UNCHANGED <<state, fetching, known, queue, shown>>
      BY <3>2, CheckIgnores
    <3>4. \E t \in Seq(Lines), j \in SUBSET Numbers :
              toClient' = t \o ResultOf(j) /\ NoResult(t) /\ Fits(j, <<>>)'
      BY <2>1, <3>1, <3>2
    <3>5. Checking'
      BY <1>0, <1>2, <3>3, <3>4 DEF Checking, ResultOf, Ok, Tagged, NoResult
    <3> QED
      BY <1>0, <3>3, <3>5 DEF Staged, Fetching, Idling, Showing
  <2>3. CASE s = <<>>
    <3>1. l = [k |-> "search", ids |-> ids] /\ toClient' = <<Ok("SEARCH")>>
      BY <1>0, <1>2, <2>3, ResultFacts
    <3>2. l.k = "search" /\ l.ids = ids /\ ~IsTagged(l)
      BY <3>1 DEF IsTagged
    <3>3. /\ IF Cardinality(ids) <= LineIds
             THEN \E found \in Found(ids) : queue' = queue \o found
             ELSE UNCHANGED queue
          /\ UNCHANGED <<state, fetching, known, shown>>
      BY <3>2 DEF Reads, ReadLine, Untagged, notes
    <3>4. Kept' = Range(queue)'
      BY <1>0, <3>3 DEF Kept
    <3>5. Kept' = ids \/ (Kept' = {} /\ ~(Cardinality(ids) <= LineIds))
      <4>1. CASE Cardinality(ids) <= LineIds
        <5>1. PICK found \in Found(ids) : queue' = queue \o found
          BY <3>3, <4>1
        <5>2. queue' = found
          BY <1>2, <5>1, FoundFacts, ConcatEmptySeq
        <5> QED
          BY <3>4, <5>2, FoundFacts
      <4>2. CASE ~(Cardinality(ids) <= LineIds)
        <5>1. queue' = <<>>
          BY <1>2, <3>3, <4>2
        <5> QED
          BY <3>4, <4>2, <5>1, RangeFacts
      <4> QED
        BY <4>1, <4>2
    <3>6. Agrees(<<>>)'
      BY <2>1, <3>5 DEF Agrees
    <3>7. Checking'
      BY <1>0, <3>1, <3>3, <3>6 DEF Checking, Ok, Tagged
    <3> QED
      BY <1>0, <3>3, <3>7 DEF Staged, Fetching, Idling, Showing
  <2> QED
    BY <2>2, <2>3
<1>3. CASE toClient = <<Ok("SEARCH")>> /\ Agrees(<<>>)
  <2>1. IsTagged(l) /\ OkSearch(l) /\ Tail(toClient) = <<>> /\ l.k # "no"
    BY <1>3, Short, LineTags DEF OkSearch
  <2>2. Reply(l) /\ ~Deinit
    BY <2>1, ReadReply
  <2>3. DownloadNext /\ UNCHANGED <<known, shown>>
    BY <2>1, <2>2 DEF Reply, notes
  <2>4. Showing'
    BY <1>0, <2>3 DEF Showing
  <2>5. known' = known \cup ({fetching} \ {None})
    BY <1>0, <2>3
  <2> QED
    BY <1>0, <1>3, <2>1, <2>3, <2>4, <2>5, NextStaged
<1>4. \/ queue = <<>> /\ NoResult(toClient)
      \/ /\ queue = <<>>
         /\ \E s \in Seq(Lines), ids \in SUBSET Numbers :
               toClient = s \o ResultOf(ids) /\ NoResult(s) /\ Fits(ids, <<>>)
      \/ toClient = <<Ok("SEARCH")>> /\ Agrees(<<>>)
  BY DEF Reads, Ready, Staged, Checking
<1> QED
  BY <1>1, <1>2, <1>3, <1>4

\* A line while it idles.
LEMMA IdleReadStaged ==
    ASSUME Reads, state = "IDLE"
    PROVE  Staged'
<1> DEFINE l == Head(toClient)
<1>0. /\ TypeInv /\ fetching = None /\ toClient' = Tail(toClient) /\ l \in Lines
      /\ toClient \in Seq(Lines) /\ toClient # <<>> /\ UNCHANGED <<view, told, unread>>
      /\ queue = <<>> /\ NoResult(toClient) /\ Agrees(toClient) /\ ~expunged
      /\ \A n \in known : n \in 1 .. Len(view) /\ shown[n] = view[n]
  BY DEF Reads, Ready, Staged, Idling, Mailed, Showing
<1>1. NoResult(Tail(toClient)) /\ l.k # "search" /\ Proper(l)
  <2>1. l \in Range(toClient)
    BY <1>0, RangeTail
  <2> QED
    BY <1>0, <2>1, NoResultFacts DEF Reads, Ready, Mailed
<1>2. ~IsTagged(l)
  <2>1. OnIdle
    BY DEF Reads, Ready, DialogueInv, Dialogue, OnConnect, OnLogin, OnSelect, OnCheck, OnFetch
  <2>2. AnswersOnly(toClient, {})
    BY <1>0, <2>1 DEF OnIdle
  <2> QED
    BY <1>0, <2>2, TailAnswers
<1>3. Untagged(l)
  BY <1>2 DEF Reads, ReadLine
<1>4. PICK A \in SUBSET Numbers :
          Fits(A, toClient) /\ (Kept = A \/ (Kept = {} /\ ~(Cardinality(A) <= LineIds)))
  BY <1>0 DEF Agrees
<1>5. Kept = known
  BY <1>0, RangeFacts DEF Kept
\* A value, which does not change with the step.
<1> PICK rest : rest = Tail(toClient)
  OBVIOUS
<1>6. CASE l.k = "capability"
  <2>1. UNCHANGED <<state, fetching, queue, known, shown>>
    BY <1>3, <1>6 DEF Untagged, notes, progress, others
  <2>2. l # Exists /\ \A n \in A : l # Seen(n)
    BY <1>6 DEF Exists, Seen
  <2>3. Fits(A, rest)'
    BY <1>0, <1>4, <2>2, FitsRead
  <2>4. Kept' = Kept
    BY <2>1 DEF Kept
  <2>5. Agrees(toClient)'
    BY <1>0, <1>4, <2>3, <2>4 DEF Agrees
  <2> QED
    BY <1>0, <1>1, <2>1, <2>5 DEF Staged, Checking, Fetching, Idling, Showing
<1>7. CASE l.k = "exists" \/ (l.k = "seen" /\ l.n \notin known)
  <2>1. ManualCheck(<<Command("DONE")>>) /\ UNCHANGED others
    BY <1>0, <1>3, <1>7 DEF Untagged, Reads
  <2> QED
    BY <1>0, <1>1, <2>1, CheckStaged DEF ManualCheck, others
<1>8. CASE l.k = "seen" /\ l.n \in known
  <2>1. /\ shown' = Withdrawn({l.n}) /\ known' = known \ {l.n}
        /\ UNCHANGED <<state, fetching, queue>>
    BY <1>0, <1>3, <1>8 DEF Untagged, progress, others
  <2>2. Kept = A /\ Kept' = A \ {l.n}
    BY <1>0, <1>4, <1>5, <1>8, <2>1, RangeFacts DEF Kept
  <2>3. l.n \in 1 .. Len(view) /\ view[l.n] \notin unread
    BY <1>1, <1>8 DEF Proper
  <2>4. Fits(A \ {l.n}, toClient)
    BY <1>4, <2>3 DEF Fits
  <2>5. l # Exists /\ \A n \in A \ {l.n} : l # Seen(n)
    BY <1>8 DEF Exists, Seen
  <2>6. PICK B \in SUBSET Numbers : B = A \ {l.n}
    OBVIOUS
  <2>7. Fits(B, rest)'
    BY <1>0, <2>4, <2>5, <2>6, FitsRead
  <2>8. Agrees(toClient)'
    BY <1>0, <2>2, <2>6, <2>7 DEF Agrees
  <2>9. \A n \in known' : n \in 1 .. Len(view) /\ shown'[n] = view[n]
    <3>1. known \subseteq Numbers
      BY <1>0 DEF TypeInv, Told
    <3> QED
      BY <1>0, <2>1, <3>1 DEF Withdrawn
  <2> QED
    BY <1>0, <1>1, <2>1, <2>8, <2>9 DEF Staged, Checking, Fetching, Idling, Showing
<1>9. l.k \in {"capability", "exists", "seen"}
  BY <1>0, <1>1, <1>2 DEF Lines, IsTagged, Proper
<1> QED
  BY <1>6, <1>7, <1>8, <1>9

\* A step that leaves all this alone, but that mail may be read.
LEMMA StagedSame ==
    ASSUME Staged, UNCHANGED <<state, known, queue, fetching, shown, toClient, view, told>>,
           \A i \in 1 .. Len(view) : view[i] \in unread' => view[i] \in unread
    PROVE  Staged'
<1>1. Kept' = Kept
  BY DEF Kept
<1>2. \A A, s : Fits(A, s) => Fits(A, s)'
  BY DEF Fits
<1>3. \A s : Agrees(s) => Agrees(s)'
  BY <1>1, <1>2 DEF Agrees
<1>4. Checking'
  BY <1>2, <1>3 DEF Staged, Checking
<1>5. Fetching'
  BY <1>1, <1>2 DEF Staged, Fetching
<1>6. Idling' /\ Showing'
  BY <1>3 DEF Staged, Idling, Showing
<1> QED
  BY <1>4, <1>5, <1>6 DEF Staged

\* The notifier's steps.
LEMMA NotifierStaged ==
    ASSUME TypeInv, DialogueInv, Mailed, Early, conn = "open" => Staged, Notifier, conn' = "open"
    PROVE  Staged'
<1>1. CASE Construct \/ Connect
  <2>1. state = "DISCONNECT" /\ fetching = None /\ task # "deleted"
    BY <1>1 DEF Construct, Connect, TypeInv, Started, Downloads
  <2>2. conn = "none"
    BY <1>1, <2>1 DEF DialogueInv, Lost, Construct, Connect
  <2>3. Connected /\ fetching' = fetching
    BY <1>1, <2>2 DEF Construct, Connect, Deinit, others
  <2> QED
    BY <2>1, <2>3, StagedBefore DEF Connected
<1>2. CASE Login
  BY <1>2, StagedBefore DEF Login, others, TypeInv, Downloads
<1>3. CASE conn = "open" /\ ReadPart
  <2>1. UNCHANGED <<state, known, queue, fetching, shown, toClient, view, told, unread>>
    BY <1>3 DEF ReadPart, progress, others, notes, mailbox, session
  <2> QED
    BY <1>3, <2>1, StagedSame
<1>4. CASE conn = "open" /\ ReadLine
  <2>1. Reads
    BY <1>4, ReadsFacts DEF Ready
  <2> QED
    BY <2>1, EarlyRead, CheckReadStaged, IdleReadStaged DEF Reads, Listening
<1>5. CASE ReadJoined
  <2>1. Carry \/ conn # "open"
    BY DEF Carry, DialogueInv
  <2>2. conn = "open"
    BY <1>5 DEF ReadJoined, Deinit
  <2>3. OnLogin' \/ OnSelect'
    BY <1>5, <2>1, <2>2, JoinedRead
  <2> QED
    BY <2>3, StagedBefore DEF OnLogin, OnSelect
<1>6. CASE conn = "open" /\ DownloadReply
  BY <1>6, DownloadStaged DEF Ready
<1>7. ~DownloadBroken /\ ~LoseConnection
  BY DEF DownloadBroken, LoseConnection, Restart
<1>8. ASSUME ReadPart \/ ReadLine \/ DownloadReply PROVE conn = "open"
  BY <1>8 DEF ReadPart, ReadLine, DownloadReply, Reply, Deinit, line
<1> QED
  BY <1>1, <1>2, <1>3, <1>4, <1>5, <1>6, <1>7, <1>8 DEF Notifier
(***************************************************************************)
(* The server and the rest.                                                *)
(***************************************************************************)
\* As long as the reply to SEARCH has not come, nothing is known or found.
LEMMA AwaitsResult ==
    ASSUME Ready, OnCheck, NEW C, AnswersOnly(toClient, C), "SEARCH" \notin C
    PROVE  known = {} /\ queue = <<>> /\ NoResult(toClient)
<1>1. \A l \in Range(toClient) : ~OkSearch(l)
  <2>1. Range(toClient) = {toClient[i] : i \in 1 .. Len(toClient)}
    BY RangeEquality DEF Ready, TypeInv, Wires
  <2> QED
    BY <2>1 DEF AnswersOnly, OkSearch, IsTagged
<1>2. OkSearch(Ok("SEARCH"))
  BY LineTags DEF OkSearch
<1>3. ASSUME NEW s \in Seq(Lines), NEW ids \in SUBSET Numbers, toClient = s \o ResultOf(ids)
      PROVE  FALSE
  <2>1. Range(toClient) = Range(s) \cup Range(ResultOf(ids))
    BY <1>3, ResultFacts, RangeConcatenation
  <2>2. Ok("SEARCH") \in Range(ResultOf(ids))
    BY RangeFacts DEF ResultOf
  <2> QED
    BY <1>1, <1>2, <2>1, <2>2
<1>4. toClient # <<Ok("SEARCH")>>
  BY <1>1, <1>2, RangeFacts
<1> QED
  BY <1>3, <1>4 DEF Ready, Staged, Checking, OnCheck

\* It answers.
LEMMA AnswersStaged ==
    ASSUME Ready, Answers \/ Refuse
    PROVE  Staged'
<1>0. TypeInv /\ Dialogue /\ toClient \in Seq(Lines)
  BY DEF Ready, DialogueInv, TypeInv, Wires
<1>1. UNCHANGED <<state, fetching, known, queue, shown, unread>>
  BY DEF Answers, AnswerLogin, AnswerSelect, AnswerSearch, AnswerFetch, AnswerIdle, AnswerDone,
         Refuse, Answer, progress, others, notes, mailbox
<1>2. ASSUME OnLogin \/ OnSelect PROVE Staged'
  BY <1>1, <1>2, StagedBefore DEF OnLogin, OnSelect
<1>3. ASSUME OnCheck, ~AnswerSearch, NEW C, AnswersOnly(toClient, C), "SEARCH" \notin C
      PROVE  Staged'
  <2>1. known = {} /\ queue = <<>> /\ NoResult(toClient)
    BY <1>3, AwaitsResult
  <2>2. NoResult(toClient')
    BY <1>0, <1>3, <2>1, AnswersNoResult
  <2> QED
    BY <1>1, <1>3, <2>1, <2>2, CheckStaged DEF OnCheck
<1>4. "SEARCH" \notin Stale /\ "SEARCH" \notin {} /\ AnswersOnly(<<>>, {})
  BY DEF Stale, AnswersOnly
<1>5. CASE AnswerLogin
  BY <1>0, <1>2, <1>5, AskedIn DEF AnswerLogin
<1>6. ASSUME Asked("SELECT"), ~AnswerSearch PROVE Staged'
  <2>1. OnSelect \/ (OnCheck /\ toClient = <<>>)
    BY <1>0, <1>6, AskedIn
  <2> QED
    BY <1>2, <1>3, <1>4, <1>6, <2>1
<1>7. ~(AnswerSearch /\ (AnswerSelect \/ AnswerDone))
  BY DEF AnswerSearch, AnswerSelect, AnswerDone, Asked
<1>8. CASE AnswerSelect
  BY <1>6, <1>7, <1>8 DEF AnswerSelect
<1>9. CASE AnswerDone
  <2>1. OnCheck /\ AnswersOnly(toClient, {})
    BY <1>0, <1>9, AskedIn DEF AnswerDone
  <2> QED
    BY <1>3, <1>4, <1>7, <1>9, <2>1
<1>10. CASE AnswerSearch
  <2>1. OnCheck /\ AnswersOnly(toClient, Stale)
    BY <1>0, <1>10, AskedIn DEF AnswerSearch
  <2>2. known = {} /\ queue = <<>> /\ NoResult(toClient)
    BY <1>4, <2>1, AwaitsResult
  <2>3. PICK ids : ids = {i \in DOMAIN view : view[i] \in unread}
    OBVIOUS
  <2>4. DOMAIN view = 1 .. Len(view) /\ 1 .. Len(view) \subseteq Numbers
    BY <1>0, DistinctIsShort, LenProperties, ImapAssumption DEF TypeInv, Viewed, Numbers
  <2>5. UNCHANGED <<view, told>> /\ toClient' = toClient \o ResultOf(ids)
    BY <1>10, <2>3 DEF AnswerSearch, session, Answer, ResultOf
  <2>6. Fits(ids, <<>>)
    BY <2>3, <2>4 DEF Fits, Ready, Mailed
  <2>7. Fits(ids, <<>>)'
    BY <1>1, <2>5, <2>6, FitsSame
  <2>8. ids \in SUBSET Numbers
    BY <2>3, <2>4
  <2>9. \E s \in Seq(Lines), j \in SUBSET Numbers :
            toClient' = s \o ResultOf(j) /\ NoResult(s) /\ Fits(j, <<>>)'
    BY <1>0, <2>2, <2>5, <2>7, <2>8
  <2>10. Checking'
    BY <1>1, <2>2, <2>9 DEF Checking
  <2> QED
    BY <1>1, <2>1, <2>2, <2>10 DEF Staged, Fetching, Idling, Showing, OnCheck
<1>11. CASE AnswerFetch
  <2>1. OnFetch /\ toServer = <<Fetch(fetching)>> /\ toClient = <<>> /\ fetching # None
    BY <1>0, <1>11, AskedIn DEF AnswerFetch, OnFetch
  <2>2. Head(toServer).n = fetching
    BY <2>1, Short DEF Fetch
  <2>3. Fits(Kept, <<>>)
    BY <2>1 DEF Ready, Staged, Fetching
  <2>4. fetching \in DOMAIN view
    <3>1. fetching \in 1 .. Len(view)
      BY <2>1, <2>3 DEF Fits, Kept
    <3> QED
      BY <1>0, <3>1, LenProperties DEF TypeInv, Viewed
  <2>5. UNCHANGED <<view, told>> /\ toClient' = toClient \o <<Tagged("ok", "FETCH", view[fetching])>>
    BY <1>11, <2>2, <2>4 DEF AnswerFetch, session, Answer
  <2>6. toClient' = <<Tagged("ok", "FETCH", view[fetching])>>
    BY <2>1, <2>5, Joins
  <2>7. Kept' = Kept
    BY <1>1 DEF Kept
  <2>8. Fits(Kept, <<>>)'
    BY <1>1, <2>3, <2>5, <2>7 DEF Fits
  <2>9. Fetching'
    <3>1. Range(toClient') = {Tagged("ok", "FETCH", view[fetching])}
      BY <2>6, RangeFacts
    <3>2. \A l \in Range(toClient') : l = Tagged("ok", "FETCH", view'[fetching'])
      BY <1>1, <2>5, <3>1
    <3> QED
      BY <2>8, <3>2 DEF Fetching, Tagged
  <2> QED
    BY <1>1, <2>1, <2>5, <2>9 DEF Ready, Staged, Checking, Idling, Showing, OnFetch
<1>12. CASE AnswerIdle
  <2>1. toClient' = toClient /\ UNCHANGED <<view, told>>
    <3>1. toClient = <<>>
      BY <1>0, <1>12, AskedIn DEF AnswerIdle
    <3> QED
      BY <1>12, <3>1, Joins DEF AnswerIdle, Answer
  <2> QED
    BY <1>1, <2>1, StagedSame DEF Ready
<1>13. CASE Refuse /\ ~AnswerSearch
  <2>1. PICK c \in {"LOGIN", "SELECT", "SEARCH", "FETCH"} : Asked(c) /\ Answer(<<No(c)>>)
    BY <1>13 DEF Refuse, No
  <2>2. CASE c = "LOGIN"
    BY <1>0, <1>2, <2>1, <2>2, AskedIn
  <2>3. CASE c = "SELECT"
    BY <1>6, <1>13, <2>1, <2>3
  <2>4. CASE c = "SEARCH"
    <3>1. OnCheck /\ AnswersOnly(toClient, Stale)
      BY <1>0, <2>1, <2>4, AskedIn
    <3> QED
      BY <1>3, <1>4, <1>13, <3>1
  <2>5. CASE c = "FETCH"
    <3>1. OnFetch /\ toServer = <<Fetch(fetching)>> /\ toClient = <<>> /\ fetching # None
      BY <1>0, <2>1, <2>5, AskedIn DEF OnFetch
    <3>2. Fits(Kept, <<>>)
      BY <3>1 DEF Ready, Staged, Fetching
    <3>3. toClient' = <<No("FETCH")>> /\ UNCHANGED <<view, told>>
      BY <1>13, <2>1, <2>5, <3>1, Joins DEF Refuse, session, Answer
    <3>4. Kept' = Kept
      BY <1>1 DEF Kept
    <3>5. Fits(Kept, <<>>)'
      BY <1>1, <3>2, <3>3, <3>4 DEF Fits
    <3>6. \A l \in Range(toClient') : l.k = "no"
      BY <3>3, RangeFacts, LineTags
    <3>7. Fetching'
      BY <3>5, <3>6 DEF Fetching
    <3> QED
      BY <1>1, <3>1, <3>3, <3>7 DEF Ready, Staged, Checking, Idling, Showing, OnFetch
  <2> QED
    BY <2>2, <2>3, <2>4, <2>5
<1> QED
  BY <1>5, <1>8, <1>9, <1>10, <1>11, <1>12, <1>13 DEF Answers

\* It reports.
LEMMA ReportsStaged ==
    ASSUME Ready, Clean, Reports
    PROVE  Staged'
<1>0. /\ TypeInv /\ Dialogue /\ toClient \in Seq(Lines) /\ DOMAIN view = 1 .. Len(view)
      /\ 1 .. Len(view) \subseteq Numbers /\ Len(view) \in Nat
  BY DistinctIsShort, LenProperties, ImapAssumption
     DEF Ready, DialogueInv, TypeInv, Wires, Viewed, Numbers
<1>1. UNCHANGED <<state, fetching, known, queue, shown, unread>> /\ idling
  BY DEF Reports, ReportExists, ReportSeen, ReportExpunge, Report, progress, others, notes, mailbox
<1>2. ReportExists \/ ReportSeen
  <2>1. ~ReportExpunge
    BY <1>0 DEF ReportExpunge, Ready, Mailed, Clean
  <2> QED
    BY <2>1 DEF Reports
<1>3. CASE OnCheck
  <2>1. AnswersOnly(toClient, {})
    BY <1>1, <1>3 DEF OnCheck
  <2>2. known = {} /\ queue = <<>> /\ NoResult(toClient)
    BY <1>3, <2>1, AwaitsResult
  <2>3. NoResult(toClient')
    BY <1>0, <1>2, <2>2, ReportsNoResult
  <2> QED
    BY <1>1, <1>3, <2>2, <2>3, CheckStaged DEF OnCheck
<1>4. CASE OnIdle
  <2>1. /\ state = "IDLE" /\ fetching = None /\ queue = <<>> /\ NoResult(toClient) /\ Agrees(toClient)
        /\ \A n \in known : n \in 1 .. Len(view) /\ shown[n] = view[n]
    BY <1>4 DEF OnIdle, Ready, Staged, Idling, Showing
  <2>2. NoResult(toClient')
    BY <1>0, <1>2, <2>1, ReportsNoResult
  <2>3. PICK A \in SUBSET Numbers :
            Fits(A, toClient) /\ (Kept = A \/ (Kept = {} /\ ~(Cardinality(A) <= LineIds)))
    BY <2>1 DEF Agrees
  <2>4. PICK r : r = toClient'
    OBVIOUS
  <2>5. Extended /\ Fits(A, r)'
    <3>1. CASE ReportExists
      <4>1. PICK new \in Ascending(New) : view' = view \o new
        BY <3>1 DEF ReportExists
      <4>2. Extended
        BY <1>0, <4>1, ViewGrows
      <4>3. r = toClient \o <<Exists>> /\ told' = told
        BY <2>4, <3>1 DEF ReportExists, Report, Exists
      <4>4. Range(r) = Range(toClient) \cup {Exists}
        BY <1>0, <4>3, RangeBehind, LineTypes DEF Exists
      <4> QED
        BY <2>3, <4>2, <4>3, <4>4, FitsStep
    <3>2. CASE ReportSeen
      <4>1. PICK i \in 1 .. Len(view) :
                told' = told \cup {view[i]} /\ Report(<<Seen(i)>>) /\ UNCHANGED view
        BY <1>0, <3>2 DEF ReportSeen, Seen
      <4>2. Extended
        BY <1>0, <4>1 DEF Extended
      <4>3. Seen(i) \in Lines
        BY <1>0, LineTypes DEF Seen
      <4>4. r = toClient \o <<Seen(i)>>
        BY <2>4, <4>1 DEF Report
      <4>5. Range(r) = Range(toClient) \cup {Seen(i)}
        BY <1>0, <4>3, <4>4, RangeBehind
      <4>6. \A n \in A : view[n] \in told' => view[n] \in told \/ Seen(n) \in Range(r)
        <5>1. \A n \in A : n \in 1 .. Len(view)
          BY <2>3 DEF Fits
        <5>2. \A n \in A : view[n] = view[i] => n = i
          BY <1>0, <5>1 DEF TypeInv, Viewed, Distinct
        <5> QED
          BY <4>1, <4>5, <5>2
      <4> QED
        BY <1>1, <2>3, <4>1, <4>2, <4>5, <4>6, FitsStep
    <3> QED
      BY <1>2, <3>1, <3>2
  <2>6. Kept' = Kept
    BY <1>1 DEF Kept
  <2>7. Agrees(toClient)'
    BY <2>3, <2>4, <2>5, <2>6 DEF Agrees
  <2>8. \A n \in known' : n \in 1 .. Len(view') /\ shown'[n] = view'[n]
    BY <1>1, <2>1, <2>5 DEF Extended
  <2> QED
    BY <1>1, <2>1, <2>2, <2>7, <2>8 DEF Staged, Checking, Fetching, Idling, Showing
<1> QED
  BY <1>0, <1>1, <1>3, <1>4 DEF Dialogue, OnConnect, OnLogin, OnSelect, OnFetch

\* Every step.
LEMMA StagedStep ==
    ASSUME TypeInv, DialogueInv, Clean, Mailed, Early, conn = "open" => Staged, [Next]_vars,
           conn' = "open"
    PROVE  Staged'
<1>1. CASE Notifier
  BY <1>1, NotifierStaged
<1>2. CASE Answers \/ Refuse \/ Reports
  <2>1. conn = "open"
    BY <1>2 DEF Answers, AnswerLogin, AnswerSelect, AnswerSearch, AnswerFetch, AnswerIdle, AnswerDone,
                Refuse, Reports, ReportExists, ReportSeen, ReportExpunge, Report, Asked
  <2>2. Ready
    BY <2>1 DEF Ready
  <2> QED
    BY <1>2, <2>2, AnswersStaged, ReportsStaged
<1>3. CASE Arrive \/ (\E m \in Mails : Read(m) \/ Delete(m)) \/ NetworkBack \/ UNCHANGED vars
  <2>1. UNCHANGED <<state, known, queue, fetching, shown, toClient, view, told, conn>>
    BY <1>3 DEF Arrive, Read, Delete, NetworkBack, vars, progress, others, notes, line, session
  <2>2. \A i \in 1 .. Len(view) : view[i] \in unread' => view[i] \in unread
    <3>1. CASE Arrive
      <4>1. arrived \in Nat /\ unread' = unread \cup {arrived + 1}
        BY <3>1 DEF Arrive, TypeInv, Mailbox
      <4>2. \A i \in 1 .. arrived : i # arrived + 1
        BY <4>1
      <4> QED
        BY <4>1, <4>2 DEF Mailed
    <3>2. CASE ~Arrive
      BY <1>3, <3>2 DEF Read, Delete, NetworkBack, vars, mailbox
    <3> QED
      BY <3>1, <3>2
  <2> QED
    BY <2>1, <2>2, StagedSame
<1>4. ~(EndConnection \/ Outage)
  BY DEF EndConnection, Outage
<1> QED
  BY <1>1, <1>2, <1>3, <1>4 DEF Next

\* A firmware that has restarted.
LEMMA RestartAccurate ==
    ASSUME DownloadBroken, Restart
    PROVE  Mailed' /\ Early' /\ conn' # "open"
<1>1. /\ view' = <<>> /\ told' = {} /\ toClient' = <<>> /\ expunged' = FALSE /\ queue' = <<>>
      /\ conn' = "none"
  BY DEF Restart
<1>2. Len(<<>>) = 0 /\ \A i \in 1 .. 0 : FALSE
  BY EmptySeq
<1>3. \A i \in 1 .. Len(view') : FALSE
  BY <1>1, <1>2
<1>4. \A l \in Range(toClient') : FALSE
  BY <1>1, RangeFacts
<1> QED
  BY <1>1, <1>3, <1>4, NoResultFacts DEF Mailed, Early

\* The invariant.
LEMMA AccurateStep ==
    ASSUME TypeInv, DialogueInv, AccurateInv, [Next]_vars
    PROVE  AccurateInv'
<1> SUFFICES ASSUME Clean'
             PROVE  Mailed' /\ Early' /\ (conn' = "open" => Staged')
  BY DEF AccurateInv, Staged
<1>1. CASE DownloadBroken /\ Restart
  BY <1>1, RestartAccurate
<1>2. CASE ~(DownloadBroken /\ Restart)
  <2>1. Clean
    BY <1>2, CleanStep
  <2>2. Mailed /\ Early /\ (conn = "open" => Staged)
    BY <2>1 DEF AccurateInv, Staged
  <2> QED
    BY <1>2, <2>1, <2>2, MailedStep, EarlyStep, StagedStep
<1> QED
  BY <1>1, <1>2

\* At first there is nothing to announce.
LEMMA AccurateInit == ASSUME Init PROVE AccurateInv
<1>1. Len(<<>>) = 0 /\ \A i \in 1 .. 0 : FALSE
  BY EmptySeq
<1>2. Mailed
  BY <1>1, RangeFacts DEF Init, Mailed
<1>3. Early
  BY NoResultFacts DEF Init, Early
<1> QED
  BY <1>2, <1>3 DEF Init, AccurateInv

\* When nothing is under way, what is known is what is unread.
LEMMA InvMeansAccurate ==
    ASSUME TypeInv, AccurateInv
    PROVE  Accurate
<1> SUFFICES ASSUME Quiet, Clean, Cardinality(unread) <= LineIds
             PROVE  /\ known = {i \in DOMAIN view : view[i] \in unread}
                    /\ \A n \in known : shown[n] = view[n]
  BY DEF Accurate, Clean
<1>1. /\ state = "IDLE" /\ fetching = None /\ toClient = <<>> /\ queue = <<>> /\ Agrees(toClient)
      /\ \A n \in known : shown[n] = view[n]
  BY DEF Quiet, AccurateInv, Staged, Idling, Showing
<1>2. /\ DOMAIN view = 1 .. Len(view) /\ view \in Seq(Mails) /\ Distinct(view)
      /\ \A i \in 1 .. Len(view) : view[i] \in unread \cup told
  BY LenProperties DEF Quiet, TypeInv, Viewed
<1>3. PICK A \in SUBSET Numbers :
          Fits(A, <<>>) /\ (Kept = A \/ (Kept = {} /\ ~(Cardinality(A) <= LineIds)))
  BY <1>1 DEF Agrees
<1>4. Kept = known
  BY <1>1, RangeFacts DEF Kept
<1>5. A = {i \in 1 .. Len(view) : view[i] \in unread}
  BY <1>2, <1>3, RangeFacts DEF Fits
<1>6. Cardinality(A) <= LineIds
  <2>1. IsFiniteSet(unread)
    <3>1. unread \in SUBSET (1 .. MailCount)
      BY BoxFacts DEF TypeInv, Mailbox
    <3>2. IsFiniteSet(1 .. MailCount)
      BY ImapAssumption, FS_Interval
    <3> QED
      BY <3>1, <3>2, FS_Subset
  <2> DEFINE f == [i \in A |-> view[i]]
  <2>2. f \in Injection(A, unread)
    BY <1>2, <1>5 DEF Distinct, Injection, IsInjective
  <2>3. IsFiniteSet(A) /\ Cardinality(A) <= Cardinality(unread)
    BY <2>1, <2>2, FS_Injection
  <2>4. Cardinality(A) \in Nat /\ Cardinality(unread) \in Nat /\ LineIds \in Nat
    BY <2>1, <2>3, FS_CardinalityType, ImapAssumption
  <2> QED
    BY <2>3, <2>4
<1> QED
  BY <1>1, <1>2, <1>3, <1>4, <1>5, <1>6

(***************************************************************************)
(* When nothing is under way, exactly the unread mails are announced, each *)
(* under its own number, for any mail that comes and is read meanwhile and *)
(* any connections that were lost before.                                  *)
(***************************************************************************)
THEOREM AccurateAlways == Spec => []Accurate
<1>1. Init => TypeInv /\ DialogueInv /\ AccurateInv
  BY InitType, DialogueInit, AccurateInit
<1>2. TypeInv /\ DialogueInv /\ AccurateInv /\ [Next]_vars => (TypeInv /\ DialogueInv /\ AccurateInv)'
  BY NextType, DialogueStep, AccurateStep
<1>3. TypeInv /\ AccurateInv => Accurate
  BY InvMeansAccurate
<1> QED
  BY <1>1, <1>2, <1>3, PTL DEF Spec
-------------------------------------------------------------------------------
(***************************************************************************)
(* The decoder.  Its loops are recursive functions, of which the prover    *)
(* knows nothing: a recursion over the natural numbers is a run that       *)
(* starts at a and goes on with F[n] from n to n + 1.                      *)
(***************************************************************************)

\* A set of numbers has a least one.
LEMMA LeastNumber ==
    ASSUME NEW S \in SUBSET Nat, S # {}
    PROVE  \E n \in S : \A m \in S : n <= m
<1> DEFINE Less == OpToRel(<, Nat)
<1>1. PICK n \in S : \A m \in S : ~ (<<m, n>> \in Less)
  BY NatLessThanWellFounded, WFMin, ZenonT(20)
<1>2. \A m \in S : ~ (m < n)
  BY <1>1 DEF OpToRel
<1> QED
  BY <1>2

\* So what holds of 0, and of the number after one it holds of, holds of all.
LEMMA NatSet ==
    ASSUME NEW S, 0 \in S, \A n \in Nat : n \in S => n + 1 \in S
    PROVE  \A n \in Nat : n \in S
<1> SUFFICES ASSUME Nat \ S # {} PROVE FALSE
  OBVIOUS
<1>1. PICK n \in Nat \ S : \A m \in Nat \ S : n <= m
  <2>1. \A T \in SUBSET Nat : T # {} => \E n \in T : \A m \in T : n <= m
    BY LeastNumber
  <2> QED
    BY <2>1
<1>2. n \in Nat /\ n \notin S /\ n # 0
  BY <1>1
<1>3. n - 1 \in Nat /\ ~ (n <= n - 1) /\ (n - 1) + 1 = n
  BY <1>2
<1>4. n - 1 \in S
  BY <1>1, <1>3
<1> QED
  BY <1>2, <1>3, <1>4

\* A recursion defines a function.
Run(r, A, a, F) == /\ r \in [Nat -> A] /\ r[0] = a
                   /\ \A n \in Nat : r[n + 1] = F[n][r[n]]

LEMMA RunExists == \A A : \A a \in A, F \in [Nat -> [A -> A]] : \E r : Run(r, A, a, F)
<1> TAKE A
<1> TAKE a \in A, F \in [Nat -> [A -> A]]
<1> DEFINE Upto(n, g) == /\ g \in [0 .. n -> A] /\ g[0] = a
                         /\ \A m \in 0 .. n - 1 : g[m + 1] = F[m][g[m]]
           S == {n \in Nat : \E g : Upto(n, g)}
           h(n) == CHOOSE g : Upto(n, g)
<1>1. \A n \in Nat : n \in S
  <2>1. 0 \in S
    <3>1. Upto(0, [m \in 0 .. 0 |-> a])
      OBVIOUS
    <3> QED
      BY <3>1
  <2>2. ASSUME NEW n \in Nat, n \in S PROVE n + 1 \in S
    <3>1. PICK g : Upto(n, g)
      BY <2>2
    <3> DEFINE e == [m \in 0 .. n + 1 |-> IF m = n + 1 THEN F[n][g[n]] ELSE g[m]]
    <3>2. \A m \in 0 .. n : e[m] = g[m] /\ e[m] \in A
      BY <3>1
    <3>3. e[n + 1] = F[n][g[n]] /\ e[n + 1] \in A
      BY <3>1
    <3>4. e \in [0 .. n + 1 -> A]
      BY <3>2, <3>3
    <3>5. \A m \in 0 .. n : e[m + 1] = F[m][e[m]]
      <4> SUFFICES ASSUME NEW m \in 0 .. n PROVE e[m + 1] = F[m][e[m]]
        OBVIOUS
      <4>1. CASE m = n
        BY <3>2, <3>3, <4>1
      <4>2. CASE m # n
        <5>1. m + 1 \in 0 .. n /\ m \in 0 .. n - 1
          BY <4>2
        <5> HIDE DEF e
        <5> QED
          BY <3>1, <3>2, <5>1
      <4> QED
        BY <4>1, <4>2
    <3> HIDE DEF e
    <3>6. Upto(n + 1, e)
      BY <3>1, <3>2, <3>4, <3>5
    <3> QED
      BY <3>6
  <2> HIDE DEF S
  <2> QED
    BY <2>1, <2>2, NatSet
<1>2. \A n \in Nat : Upto(n, h(n))
  BY <1>1
<1> HIDE DEF h
<1>3. ASSUME NEW n \in Nat PROVE h(n + 1)[n] = h(n)[n]
  <2> DEFINE T == {m \in Nat : m <= n => h(n + 1)[m] = h(n)[m]}
  <2>1. 0 \in T
    BY <1>2
  <2>2. ASSUME NEW m \in Nat, m \in T PROVE m + 1 \in T
    <3> SUFFICES ASSUME m + 1 <= n PROVE h(n + 1)[m + 1] = h(n)[m + 1]
      OBVIOUS
    <3>1. m \in 0 .. n - 1 /\ m \in 0 .. (n + 1) - 1 /\ h(n + 1)[m] = h(n)[m]
      BY <2>2
    <3> QED
      BY <1>2, <3>1
  <2> HIDE DEF T
  <2>3. n \in T
    BY <2>1, <2>2, NatSet
  <2> QED
    BY <2>3 DEF T
<1> DEFINE r == [n \in Nat |-> h(n)[n]]
<1>4. r \in [Nat -> A] /\ r[0] = a
  BY <1>2
<1>5. ASSUME NEW n \in Nat PROVE r[n + 1] = F[n][r[n]]
  <2>1. h(n + 1)[n + 1] = F[n][h(n + 1)[n]]
    BY <1>2
  <2> QED
    BY <1>3, <2>1
<1> HIDE DEF r
<1>6. Run(r, A, a, F)
  BY <1>4, <1>5 DEF Run
<1> QED
  BY <1>6

(***************************************************************************)
(* What Written stands for, when the rounds are known: once for each kind  *)
(* of round.                                                               *)
(***************************************************************************)
LEMMA UnquoteEnds ==
    ASSUME NEW s, Len(s) \in Nat, NEW r, r = [n \in Nat |-> r[n]],
           r[0] = <<1, <<>>>>, \A n \in Nat : r[n + 1] = Unquote(s, r[n])
    PROVE  Written(s, Unquote) = r[Len(s)][2]
<1> DEFINE start == <<1, <<>>>>
           Eq(f) == f = [n \in Nat |-> IF n = 0 THEN start ELSE Unquote(s, f[n - 1])]
           w == CHOOSE f : Eq(f)
<1>1. Written(s, Unquote) = w[Len(s)][2]
  BY DEF Written
<1> HIDE DEF start
<1>2. \A n \in Nat : n + 1 # 0 /\ (n + 1) - 1 = n /\ (n # 0 => n - 1 \in Nat /\ (n - 1) + 1 = n)
  OBVIOUS
<1>3. Eq(r)
  <2>1. \A n \in Nat : r[n] = IF n = 0 THEN start ELSE Unquote(s, r[n - 1])
    BY <1>2 DEF start
  <2> QED
    BY <2>1
<1>4. Eq(w)
  BY <1>3
<1> HIDE DEF w
<1>5. \A n \in Nat : w[n] = r[n]
  <2> DEFINE T == {n \in Nat : w[n] = r[n]}
  <2>1. 0 \in T
    BY <1>4 DEF start
  <2>2. ASSUME NEW n \in Nat, n \in T PROVE n + 1 \in T
    <3>1. w[n + 1] = Unquote(s, w[n])
      <4>1. n + 1 \in Nat /\ n + 1 # 0 /\ (n + 1) - 1 = n
        OBVIOUS
      <4>2. w[n + 1] = IF n + 1 = 0 THEN start ELSE Unquote(s, w[(n + 1) - 1])
        BY <1>4, <4>1
      <4> QED
        BY <4>1, <4>2
    <3>2. w[n] = r[n] /\ n + 1 \in Nat
      BY <2>2
    <3> QED
      BY <3>1, <3>2
  <2> HIDE DEF T
  <2>3. \A n \in Nat : n \in T
    BY <2>1, <2>2, NatSet
  <2> QED
    BY <2>3 DEF T
<1> QED
  BY <1>1, <1>5
LEMMA FromBase64Ends ==
    ASSUME NEW s, Len(s) \in Nat, NEW r, r = [n \in Nat |-> r[n]],
           r[0] = <<1, <<>>>>, \A n \in Nat : r[n + 1] = FromBase64(s, r[n])
    PROVE  Written(s, FromBase64) = r[Len(s)][2]
<1> DEFINE start == <<1, <<>>>>
           Eq(f) == f = [n \in Nat |-> IF n = 0 THEN start ELSE FromBase64(s, f[n - 1])]
           w == CHOOSE f : Eq(f)
<1>1. Written(s, FromBase64) = w[Len(s)][2]
  BY DEF Written
<1> HIDE DEF start
<1>2. \A n \in Nat : n + 1 # 0 /\ (n + 1) - 1 = n /\ (n # 0 => n - 1 \in Nat /\ (n - 1) + 1 = n)
  OBVIOUS
<1>3. Eq(r)
  <2>1. \A n \in Nat : r[n] = IF n = 0 THEN start ELSE FromBase64(s, r[n - 1])
    BY <1>2 DEF start
  <2> QED
    BY <2>1
<1>4. Eq(w)
  BY <1>3
<1> HIDE DEF w
<1>5. \A n \in Nat : w[n] = r[n]
  <2> DEFINE T == {n \in Nat : w[n] = r[n]}
  <2>1. 0 \in T
    BY <1>4 DEF start
  <2>2. ASSUME NEW n \in Nat, n \in T PROVE n + 1 \in T
    <3>1. w[n + 1] = FromBase64(s, w[n])
      <4>1. n + 1 \in Nat /\ n + 1 # 0 /\ (n + 1) - 1 = n
        OBVIOUS
      <4>2. w[n + 1] = IF n + 1 = 0 THEN start ELSE FromBase64(s, w[(n + 1) - 1])
        BY <1>4, <4>1
      <4> QED
        BY <4>1, <4>2
    <3>2. w[n] = r[n] /\ n + 1 \in Nat
      BY <2>2
    <3> QED
      BY <3>1, <3>2
  <2> HIDE DEF T
  <2>3. \A n \in Nat : n \in T
    BY <2>1, <2>2, NatSet
  <2> QED
    BY <2>3 DEF T
<1> QED
  BY <1>1, <1>5
LEMMA DecodeEnds ==
    ASSUME NEW s, NEW size, Len(s) \in Nat, NEW r, r = [n \in Nat |-> r[n]],
           r[0] = <<1, <<>>>>, \A n \in Nat : r[n + 1] = DecodePart(s, r[n], size - 1)
    PROVE  rfc2047_decode(s, size) = r[Len(s)][2]
<1> DEFINE start == <<1, <<>>>>
           Eq(f) == f = [n \in Nat |-> IF n = 0 THEN start ELSE DecodePart(s, f[n - 1], size - 1)]
           w == CHOOSE f : Eq(f)
<1>1. rfc2047_decode(s, size) = w[Len(s)][2]
  BY DEF rfc2047_decode, Written
<1> HIDE DEF start
<1>2. \A n \in Nat : n + 1 # 0 /\ (n + 1) - 1 = n /\ (n # 0 => n - 1 \in Nat /\ (n - 1) + 1 = n)
  OBVIOUS
<1>3. Eq(r)
  <2>1. \A n \in Nat : r[n] = IF n = 0 THEN start ELSE DecodePart(s, r[n - 1], size - 1)
    BY <1>2 DEF start
  <2> QED
    BY <2>1
<1>4. Eq(w)
  BY <1>3
<1> HIDE DEF w
<1>5. \A n \in Nat : w[n] = r[n]
  <2> DEFINE T == {n \in Nat : w[n] = r[n]}
  <2>1. 0 \in T
    BY <1>4 DEF start
  <2>2. ASSUME NEW n \in Nat, n \in T PROVE n + 1 \in T
    <3>1. w[n + 1] = DecodePart(s, w[n], size - 1)
      <4>1. n + 1 \in Nat /\ n + 1 # 0 /\ (n + 1) - 1 = n
        OBVIOUS
      <4>2. w[n + 1] = IF n + 1 = 0 THEN start ELSE DecodePart(s, w[(n + 1) - 1], size - 1)
        BY <1>4, <4>1
      <4> QED
        BY <4>1, <4>2
    <3>2. w[n] = r[n] /\ n + 1 \in Nat
      BY <2>2
    <3> QED
      BY <3>1, <3>2
  <2> HIDE DEF T
  <2>3. \A n \in Nat : n \in T
    BY <2>1, <2>2, NatSet
  <2> QED
    BY <2>3 DEF T
<1> QED
  BY <1>1, <1>5

LEMMA UnquoteKnown ==
    ASSUME NEW s, Len(s) \in Nat, NEW n \in Nat, n <= Len(s), NEW u, u[0] = <<1, <<>>>>,
           \A k \in 0 .. n - 1 : u[k + 1] = Unquote(s, u[k]), Unquote(s, u[n]) = u[n]
    PROVE  Written(s, Unquote) = u[n][2]
<1> DEFINE r == [m \in Nat |-> u[IF m < n THEN m ELSE n]]
<1>1. \A m \in Nat : r[m] = u[IF m < n THEN m ELSE n]
  OBVIOUS
<1>2. r = [m \in Nat |-> r[m]]
  OBVIOUS
<1> HIDE DEF r
<1>3. r[0] = <<1, <<>>>>
  <2>1. (IF 0 < n THEN 0 ELSE n) = 0
    OBVIOUS
  <2> QED
    BY <1>1, <2>1
<1>4. ASSUME NEW m \in Nat PROVE r[m + 1] = Unquote(s, r[m])
  <2>1. CASE m < n
    <3>1. /\ m \in 0 .. n - 1 /\ (IF m < n THEN m ELSE n) = m
          /\ (IF m + 1 < n THEN m + 1 ELSE n) = m + 1
      BY <2>1
    <3>2. r[m] = u[m] /\ r[m + 1] = u[m + 1]
      BY <1>1, <3>1
    <3> QED
      BY <3>1, <3>2
  <2>2. CASE ~ (m < n)
    <3>1. (IF m < n THEN m ELSE n) = n /\ (IF m + 1 < n THEN m + 1 ELSE n) = n
      BY <2>2
    <3>2. r[m] = u[n] /\ r[m + 1] = u[n]
      BY <1>1, <3>1
    <3> QED
      BY <3>2
  <2> QED
    BY <2>1, <2>2
<1>5. Written(s, Unquote) = r[Len(s)][2]
  BY <1>2, <1>3, <1>4, UnquoteEnds
<1>6. (IF Len(s) < n THEN Len(s) ELSE n) = n
  OBVIOUS
<1> QED
  BY <1>1, <1>5, <1>6

LEMMA FromBase64Known ==
    ASSUME NEW s, Len(s) \in Nat, NEW n \in Nat, n <= Len(s), NEW u, u[0] = <<1, <<>>>>,
           \A k \in 0 .. n - 1 : u[k + 1] = FromBase64(s, u[k]), FromBase64(s, u[n]) = u[n]
    PROVE  Written(s, FromBase64) = u[n][2]
<1> DEFINE r == [m \in Nat |-> u[IF m < n THEN m ELSE n]]
<1>1. \A m \in Nat : r[m] = u[IF m < n THEN m ELSE n]
  OBVIOUS
<1>2. r = [m \in Nat |-> r[m]]
  OBVIOUS
<1> HIDE DEF r
<1>3. r[0] = <<1, <<>>>>
  <2>1. (IF 0 < n THEN 0 ELSE n) = 0
    OBVIOUS
  <2> QED
    BY <1>1, <2>1
<1>4. ASSUME NEW m \in Nat PROVE r[m + 1] = FromBase64(s, r[m])
  <2>1. CASE m < n
    <3>1. /\ m \in 0 .. n - 1 /\ (IF m < n THEN m ELSE n) = m
          /\ (IF m + 1 < n THEN m + 1 ELSE n) = m + 1
      BY <2>1
    <3>2. r[m] = u[m] /\ r[m + 1] = u[m + 1]
      BY <1>1, <3>1
    <3> QED
      BY <3>1, <3>2
  <2>2. CASE ~ (m < n)
    <3>1. (IF m < n THEN m ELSE n) = n /\ (IF m + 1 < n THEN m + 1 ELSE n) = n
      BY <2>2
    <3>2. r[m] = u[n] /\ r[m + 1] = u[n]
      BY <1>1, <3>1
    <3> QED
      BY <3>2
  <2> QED
    BY <2>1, <2>2
<1>5. Written(s, FromBase64) = r[Len(s)][2]
  BY <1>2, <1>3, <1>4, FromBase64Ends
<1>6. (IF Len(s) < n THEN Len(s) ELSE n) = n
  OBVIOUS
<1> QED
  BY <1>1, <1>5, <1>6

(***************************************************************************)
(* Concatenating one sequence after the other.                             *)
(***************************************************************************)
Concatenated(p, S, ss) == /\ p \in [0 .. Len(ss) -> Seq(S)] /\ p[0] = <<>>
                    /\ \A k \in 0 .. Len(ss) - 1 : p[k + 1] = p[k] \o ss[k + 1]

\* What is concatenated: sequences of elements of S.
Listed(ss, S) == ss \in Seq(Seq(S))

LEMMA ListedFacts ==
    ASSUME NEW S, NEW ss, Listed(ss, S)
    PROVE  /\ Len(ss) \in Nat /\ \A k \in 1 .. Len(ss) : ss[k] \in Seq(S)
           /\ Len(ss) = 0 => ss = <<>>
  BY DEF Listed

LEMMA ConcatenatedExists ==
    ASSUME NEW S, NEW ss, Listed(ss, S)
    PROVE  \E p : Concatenated(p, S, ss)
<1> DEFINE A == Seq(S)
           next(n, x) == IF n < Len(ss) THEN x \o ss[n + 1] ELSE x
           F == [n \in Nat |-> [x \in A |-> next(n, x)]]
<1>0. Len(ss) \in Nat /\ \A k \in 1 .. Len(ss) : ss[k] \in Seq(S)
  BY ListedFacts
<1>1. /\ <<>> \in A
      /\ \A n \in Nat, x \in A : next(n, x) \in A
  <2>1. ASSUME NEW n \in Nat, NEW x \in A PROVE next(n, x) \in A
    <3>1. n < Len(ss) => n + 1 \in 1 .. Len(ss)
      BY <1>0
    <3> QED
      BY <1>0, <3>1, ConcatProperties
  <2> QED
    BY <2>1
<1>2. PICK r : Run(r, A, <<>>, F)
  <2>1. F \in [Nat -> [A -> A]]
    BY <1>1
  <2>2. \A a \in A : \E r : Run(r, A, a, F)
    <3> HIDE DEF F, A
    <3> QED
      BY <2>1, RunExists
  <2> HIDE DEF F
  <2> QED
    BY <1>1, <2>2
<1>3. r \in [Nat -> A] /\ r[0] = <<>> /\ \A n \in Nat : r[n + 1] = next(n, r[n])
  BY <1>2 DEF Run
<1> DEFINE p == [k \in 0 .. Len(ss) |-> r[k]]
<1>5. p \in [0 .. Len(ss) -> Seq(S)] /\ p[0] = <<>>
  BY <1>0, <1>3
<1>6. ASSUME NEW k \in 0 .. Len(ss) - 1 PROVE p[k + 1] = p[k] \o ss[k + 1]
  <2>1. k \in Nat /\ k < Len(ss) /\ k \in 0 .. Len(ss) /\ k + 1 \in 0 .. Len(ss)
    BY <1>0
  <2>2. r[k + 1] = r[k] \o ss[k + 1]
    BY <1>3, <2>1
  <2> QED
    BY <2>1, <2>2
<1> HIDE DEF p
<1> QED
  BY <1>5, <1>6 DEF Concatenated

LEMMA Flattened ==
    ASSUME NEW S, NEW ss, Listed(ss, S), NEW p, Concatenated(p, S, ss)
    PROVE  FlattenSeq(ss) = p[Len(ss)]
<1> DEFINE N == Len(ss)
           Eq(f) == f = [i \in 1 .. N |-> IF i = 1 THEN ss[i] ELSE f[i - 1] \o ss[i]]
           w == CHOOSE f : Eq(f)
<1>1. /\ N \in Nat /\ p \in [0 .. N -> Seq(S)] /\ p[0] = <<>>
      /\ \A k \in 0 .. N - 1 : p[k + 1] = p[k] \o ss[k + 1]
  BY ListedFacts DEF Concatenated
<1>2. FlattenSeq(ss) = IF N = 0 THEN ss ELSE w[N]
  BY DEF FlattenSeq
<1> HIDE DEF N
<1>3. CASE N = 0
  <2>1. ss = <<>>
    BY <1>3, ListedFacts DEF N
  <2> QED
    BY <1>1, <1>2, <1>3, <2>1 DEF N
<1>4. CASE N # 0
  <2> DEFINE e == [i \in 1 .. N |-> p[i]]
  <2>1. \A i \in 1 .. N : p[i] = IF i = 1 THEN ss[i] ELSE p[i - 1] \o ss[i]
    <3> SUFFICES ASSUME NEW i \in 1 .. N
                 PROVE  p[i] = IF i = 1 THEN ss[i] ELSE p[i - 1] \o ss[i]
      OBVIOUS
    <3>1. i - 1 \in 0 .. N - 1 /\ (i - 1) + 1 = i
      BY <1>1
    <3>2. p[i] = p[i - 1] \o ss[i]
      BY <1>1, <3>1
    <3>3. ss[i] \in Seq(S)
      BY ListedFacts DEF N
    <3>4. <<>> \o ss[i] = ss[i]
      BY <3>3
    <3>5. CASE i = 1
      <4>1. i - 1 = 0
        BY <3>5
      <4>2. p[i] = <<>> \o ss[i]
        BY <1>1, <3>2, <4>1, Zenon
      <4> QED
        BY <3>4, <3>5, <4>2
    <3>6. CASE i # 1
      BY <3>2, <3>6
    <3> QED
      BY <3>5, <3>6
  <2>2. Eq(e)
    <3>1. \A i \in 1 .. N : e[i] = IF i = 1 THEN ss[i] ELSE e[i - 1] \o ss[i]
      <4> SUFFICES ASSUME NEW i \in 1 .. N
                   PROVE  e[i] = IF i = 1 THEN ss[i] ELSE e[i - 1] \o ss[i]
        OBVIOUS
      <4>1. e[i] = p[i] /\ (i # 1 => e[i - 1] = p[i - 1])
        BY <1>1
      <4> HIDE DEF e
      <4> QED
        BY <2>1, <4>1
    <3> QED
      BY <3>1
  <2>3. Eq(w)
    <3>1. PICK f : Eq(f)
      BY <2>2
    <3> HIDE DEF Eq
    <3> QED
      BY <3>1
  <2> HIDE DEF w, e
  <2>4. \A n \in Nat : n \in 1 .. N => w[n] = p[n]
    <3> DEFINE T == {n \in Nat : n \in 1 .. N => w[n] = p[n]}
    <3>1. 0 \in T
      OBVIOUS
    <3>2. ASSUME NEW n \in Nat, n \in T PROVE n + 1 \in T
      <4> SUFFICES ASSUME n + 1 \in 1 .. N PROVE w[n + 1] = p[n + 1]
        OBVIOUS
      <4>0. (n + 1) - 1 = n
        OBVIOUS
      <4>1. w[n + 1] = IF n + 1 = 1 THEN ss[n + 1] ELSE w[n] \o ss[n + 1]
        BY <2>3, <4>0
      <4>2. n + 1 # 1 => w[n] = p[n]
        BY <1>1, <3>2
      <4>3. p[n + 1] = IF n + 1 = 1 THEN ss[n + 1] ELSE p[n] \o ss[n + 1]
        BY <2>1
      <4> QED
        BY <4>1, <4>2, <4>3
    <3> HIDE DEF T
    <3>3. \A n \in Nat : n \in T
      BY <3>1, <3>2, NatSet
    <3> QED
      BY <3>3 DEF T
  <2> QED
    BY <1>1, <1>2, <1>4, <2>4 DEF N
<1> QED
  BY <1>3, <1>4

\* What one sequence and a second one behind it are, element by element.
Lengths(a, b, c) == Len(a) \in Nat /\ Len(b) \in Nat /\ Len(c) = Len(a) + Len(b)
Elements(a, b, c) == /\ \A x \in 1 .. Len(a) : c[x] = a[x]
                     /\ \A x \in 1 .. Len(b) : c[Len(a) + x] = b[x]

LEMMA ConcatFacts ==
    ASSUME NEW S, NEW a \in Seq(S), NEW b \in Seq(S)
    PROVE  Lengths(a, b, a \o b) /\ Elements(a, b, a \o b) /\ a \o b \in Seq(S)
  BY DEF Lengths, Elements

LEMMA ConcatenatedStep ==
    ASSUME NEW S, NEW ss, Listed(ss, S), NEW p, Concatenated(p, S, ss), NEW k \in 0 .. Len(ss) - 1
    PROVE  Lengths(p[k], ss[k + 1], p[k + 1]) /\ Elements(p[k], ss[k + 1], p[k + 1])
<1>1. Len(ss) \in Nat /\ k \in 0 .. Len(ss) /\ k + 1 \in 1 .. Len(ss)
  BY ListedFacts
<1>2. p[k] \in Seq(S) /\ ss[k + 1] \in Seq(S) /\ p[k + 1] = p[k] \o ss[k + 1]
  BY <1>1, ListedFacts DEF Concatenated
<1> QED
  BY <1>2, ConcatFacts

\* What is joined first stays at the front, and each sequence follows the ones before it.
LEMMA ConcatenatedGrows ==
    ASSUME NEW S, NEW ss, Listed(ss, S), NEW p, Concatenated(p, S, ss), NEW k \in 0 .. Len(ss)
    PROVE  \A j \in k .. Len(ss) : /\ Len(p[k]) <= Len(p[j])
                                   /\ \A x \in 1 .. Len(p[k]) : p[j][x] = p[k][x]
<1> DEFINE N == Len(ss)
           Begins(j) == Len(p[k]) <= Len(p[j]) /\ \A x \in 1 .. Len(p[k]) : p[j][x] = p[k][x]
           T == {j \in Nat : k <= j /\ j <= N => Begins(j)}
<1>1. N \in Nat /\ \A i \in 0 .. N : Len(p[i]) \in Nat
  BY ListedFacts DEF Concatenated
<1>2. 0 \in T
  <2>1. CASE k = 0
    BY <1>1, <2>1
  <2>2. CASE k # 0
    BY <2>2
  <2> QED
    BY <2>1, <2>2
<1>3. ASSUME NEW j \in Nat, j \in T PROVE j + 1 \in T
  <2> SUFFICES ASSUME k <= j + 1, j + 1 <= N PROVE Begins(j + 1)
    OBVIOUS
  <2>1. CASE k = j + 1
    BY <1>1, <2>1
  <2>2. CASE k <= j
    <3>1. j \in 0 .. N - 1 /\ j \in 0 .. N /\ Begins(j)
      BY <1>1, <1>3, <2>2
    <3>2. Lengths(p[j], ss[j + 1], p[j + 1]) /\ Elements(p[j], ss[j + 1], p[j + 1])
      BY <3>1, ConcatenatedStep
    <3>6. Lengths(p[j], ss[j + 1], p[j + 1])
      BY <3>2
    <3>3. Len(p[j]) <= Len(p[j + 1]) /\ Len(p[k]) \in Nat /\ Len(p[j]) \in Nat
      <4> DEFINE a == Len(p[j])   b == Len(ss[j + 1])   c == Len(p[j + 1])
      <4>1. a \in Nat /\ b \in Nat /\ c = a + b
        BY <3>6 DEF Lengths
      <4> HIDE DEF a, b, c
      <4>2. a <= c
        BY <4>1
      <4> QED
        BY <1>1, <4>1, <4>2 DEF a, c
    <3>4. \A x \in 1 .. Len(p[k]) : x \in 1 .. Len(p[j])
      BY <3>1, <3>3
    <3>5. \A x \in 1 .. Len(p[j]) : p[j + 1][x] = p[j][x]
      BY <3>2 DEF Elements
    <3> QED
      BY <1>1, <3>1, <3>3, <3>4, <3>5
  <2> QED
    BY <2>1, <2>2
<1>4. \A j \in Nat : j \in T
  <2> HIDE DEF T
  <2> QED
    BY <1>2, <1>3, NatSet
<1> QED
  BY <1>1, <1>4

\* e stands in s behind position k.
Holds(s, k, e) == k + Len(e) <= Len(s) /\ \A x \in 1 .. Len(e) : s[k + x] = e[x]

LEMMA ConcatenatedHolds ==
    ASSUME NEW S, NEW ss, Listed(ss, S), NEW p, Concatenated(p, S, ss), NEW k \in 0 .. Len(ss) - 1
    PROVE  Lengths(p[k], ss[k + 1], p[k + 1]) /\ Holds(p[Len(ss)], Len(p[k]), ss[k + 1])
<1>1. Len(ss) \in Nat /\ k + 1 \in 0 .. Len(ss) /\ Len(ss) \in k + 1 .. Len(ss)
  BY ListedFacts
<1>2. Lengths(p[k], ss[k + 1], p[k + 1]) /\ Elements(p[k], ss[k + 1], p[k + 1])
  BY ConcatenatedStep
<1>3. /\ Len(p[k + 1]) <= Len(p[Len(ss)])
      /\ \A x \in 1 .. Len(p[k + 1]) : p[Len(ss)][x] = p[k + 1][x]
  BY <1>1, ConcatenatedGrows
<1>4. /\ \A x \in 1 .. Len(ss[k + 1]) : Len(p[k]) + x \in 1 .. Len(p[k + 1])
      /\ Len(p[k]) + Len(ss[k + 1]) = Len(p[k + 1])
  <2> DEFINE a == Len(p[k])   b == Len(ss[k + 1])   c == Len(p[k + 1])
  <2>1. a \in Nat /\ b \in Nat /\ c = a + b
    BY <1>2 DEF Lengths
  <2> HIDE DEF a, b, c
  <2>2. (\A x \in 1 .. b : a + x \in 1 .. c) /\ a + b = c
    BY <2>1
  <2> QED
    BY <2>2 DEF a, b, c
<1>5. \A x \in 1 .. Len(ss[k + 1]) : p[k + 1][Len(p[k]) + x] = ss[k + 1][x]
  BY <1>2 DEF Elements
<1>6. \A x \in 1 .. Len(ss[k + 1]) : p[Len(ss)][Len(p[k]) + x] = ss[k + 1][x]
  BY <1>3, <1>4, <1>5
<1> QED
  BY <1>2, <1>3, <1>4, <1>6 DEF Holds

\* A number that grows with each step is at least the number of steps.
LEMMA Growing ==
    ASSUME NEW n \in Nat, NEW L, \A k \in 0 .. n : L[k] \in Nat,
           \A k \in 0 .. n - 1 : L[k] < L[k + 1]
    PROVE  n <= L[n]
<1> DEFINE T == {k \in Nat : k <= n => k <= L[k]}
<1>1. 0 \in T
  OBVIOUS
<1>2. ASSUME NEW k \in Nat, k \in T PROVE k + 1 \in T
  <2> SUFFICES ASSUME k + 1 <= n PROVE k + 1 <= L[k + 1]
    OBVIOUS
  <2>1. k \in 0 .. n - 1 /\ k \in 0 .. n /\ k + 1 \in 0 .. n /\ k <= L[k]
    BY <1>2
  <2> QED
    BY <2>1
<1> HIDE DEF T
<1>3. n \in T
  BY <1>1, <1>2, NatSet
<1> QED
  BY <1>3 DEF T
-------------------------------------------------------------------------------
(* Q words. *)

LEMMA HexvalOfDigit == \A x \in 0 .. 15 : hexval(Digits16[x]) = x /\ Digits16[x] \in Int
  BY DEF hexval, Digits16

\* A character is sent as itself, as _ or as an escape, from which it can be told.
LEMMA EscapedFacts ==
    ASSUME NEW c \in 1 .. 255
    PROVE  /\ Escaped(c) \in Seq(Int)
           /\ \/ Len(Escaped(c)) = 1 /\ Escaped(c)[1] = 95 /\ c = Space
              \/ Len(Escaped(c)) = 1 /\ Escaped(c)[1] = c /\ c \notin {61, 95}
              \/ /\ Len(Escaped(c)) = 3 /\ Escaped(c)[1] = 61
                 /\ hexval(Escaped(c)[2]) * 16 + hexval(Escaped(c)[3]) = c
<1>1. CASE c = Space \/ c \in 33 .. 126 \ {61, 63, 95}
  BY <1>1 DEF Escaped, Space
<1>2. CASE ~ (c = Space \/ c \in 33 .. 126 \ {61, 63, 95})
  <2>1. c \div 16 \in 0 .. 15 /\ c % 16 \in 0 .. 15 /\ (c \div 16) * 16 + (c % 16) = c
    OBVIOUS
  <2>2. Escaped(c) = <<61, Digits16[c \div 16], Digits16[c % 16]>>
    BY <1>2 DEF Escaped
  <2> QED
    BY <2>1, <2>2, HexvalOfDigit
<1> QED
  BY <1>1, <1>2

\* A longer front is the shorter one and the next element.
LEMMA NextFront ==
    ASSUME NEW S, NEW t \in Seq(S), NEW k \in 0 .. Len(t) - 1
    PROVE  Append(SubSeq(t, 1, k), t[k + 1]) = SubSeq(t, 1, k + 1)
  OBVIOUS

LEMMA WholeFront ==
    ASSUME NEW S, NEW t \in Seq(S)
    PROVE  SubSeq(t, 1, Len(t)) = t /\ SubSeq(t, 1, 0) = <<>>
  OBVIOUS

LEMMA SeqFacts ==
    ASSUME NEW S, NEW t \in Seq(S)
    PROVE  Len(t) \in Nat /\ DOMAIN t = 1 .. Len(t) /\ \A i \in 1 .. Len(t) : t[i] \in S
  OBVIOUS

\* A round takes back one character.
Unquotes(s, k, c, out) ==
    /\ Unquote(s, <<k + 1, out>>) = <<k + Len(Escaped(c)) + 1, Append(out, c)>>
    /\ Len(Escaped(c)) \in {1, 3}

LEMMA UnquoteStep ==
    ASSUME NEW s, NEW k \in Nat, Len(s) \in Nat, NEW c \in 1 .. 255, Holds(s, k, Escaped(c)), NEW out
    PROVE  Unquotes(s, k, c, out)
<1> USE DEF Unquotes
<1> DEFINE e == Escaped(c)
<1>1. \/ Len(e) = 1 /\ e[1] = 95 /\ c = Space
      \/ Len(e) = 1 /\ e[1] = c /\ c \notin {61, 95}
      \/ Len(e) = 3 /\ e[1] = 61 /\ hexval(e[2]) * 16 + hexval(e[3]) = c
  BY EscapedFacts
<1> HIDE DEF e
<1>2. k + Len(e) <= Len(s) /\ \A x \in 1 .. Len(e) : s[k + x] = e[x]
  BY DEF e, Holds
<1>3. CASE Len(e) = 1
  <2>1. s[k + 1] = e[1] /\ ~ (k + 1 > Len(s))
    BY <1>2, <1>3
  <2>2. Unquote(s, <<k + 1, out>>) = <<(k + 1) + 1, Append(out, c)>>
    BY <1>1, <1>3, <2>1 DEF Unquote
  <2> QED
    BY <1>3, <2>2 DEF e
<1>4. CASE Len(e) = 3
  <2>1. 1 \in 1 .. Len(e) /\ 2 \in 1 .. Len(e) /\ 3 \in 1 .. Len(e)
    BY <1>4
  <2>2. k + 2 = (k + 1) + 1 /\ k + 3 = (k + 1) + 2 /\ ~ (k + 1 > Len(s))
    BY <1>2, <1>4
  <2>3. s[k + 1] = e[1] /\ s[(k + 1) + 1] = e[2] /\ s[(k + 1) + 2] = e[3]
    BY <1>2, <2>1, <2>2
  <2>4. Unquote(s, <<k + 1, out>>) = <<(k + 1) + 3, Append(out, c)>>
    BY <1>1, <1>4, <2>2, <2>3 DEF Unquote
  <2>5. (k + 1) + 3 = k + 3 + 1
    OBVIOUS
  <2> QED
    BY <1>4, <2>4, <2>5 DEF e
<1> QED
  BY <1>1, <1>3, <1>4

AllEscaped(t) == [i \in DOMAIN t |-> Escaped(t[i])]

LEMMA AllEscapedFacts ==
    ASSUME NEW t \in Seq(1 .. 255)
    PROVE  /\ Listed(AllEscaped(t), Int) /\ Len(AllEscaped(t)) = Len(t)
           /\ \A i \in 1 .. Len(t) : AllEscaped(t)[i] = Escaped(t[i]) /\ t[i] \in 1 .. 255
           /\ Len(t) \in Nat
<1>1. Len(t) \in Nat /\ DOMAIN t = 1 .. Len(t) /\ \A i \in 1 .. Len(t) : t[i] \in 1 .. 255
  BY SeqFacts
<1>2. \A i \in 1 .. Len(t) : Escaped(t[i]) \in Seq(Int)
  BY <1>1, EscapedFacts
<1> QED
  BY <1>1, <1>2 DEF Listed, AllEscaped

\* So each round takes back one more.
LEMMA UnquoteRound ==
    ASSUME NEW t \in Seq(1 .. 255), NEW p, Concatenated(p, Int, AllEscaped(t)), NEW k \in 0 .. Len(t) - 1,
           Len(p[Len(t)]) \in Nat
    PROVE  /\ Unquote(p[Len(t)], <<Len(p[k]) + 1, SubSeq(t, 1, k)>>)
                  = <<Len(p[k + 1]) + 1, SubSeq(t, 1, k + 1)>>
           /\ Len(p[k]) < Len(p[k + 1])
<1> DEFINE c == t[k + 1]
           s == p[Len(t)]
           a == Len(p[k])
           b == Len(p[k + 1])
           e == Len(Escaped(c))
           front == SubSeq(t, 1, k)
<1>1. k + 1 \in 1 .. Len(t) /\ Len(AllEscaped(t)) = Len(t)
  BY AllEscapedFacts
<1>2. AllEscaped(t)[k + 1] = Escaped(c) /\ c \in 1 .. 255 /\ Listed(AllEscaped(t), Int)
  BY <1>1, AllEscapedFacts
<1>3. Lengths(p[k], AllEscaped(t)[k + 1], p[k + 1]) /\ Holds(s, a, AllEscaped(t)[k + 1])
  BY <1>1, <1>2, ConcatenatedHolds
<1>4. a \in Nat /\ e \in Nat /\ b = a + e /\ Holds(s, a, Escaped(c))
  BY <1>2, <1>3 DEF Lengths
<1>5. SubSeq(t, 1, k + 1) = Append(front, c)
  BY NextFront
<1>6. Len(s) \in Nat
  OBVIOUS
<1>7. /\ Unquote(s, <<a + 1, front>>) = <<a + e + 1, Append(front, c)>>
      /\ e \in {1, 3}
  <2> HIDE DEF a, c, s, front
  <2>1. a \in Nat /\ Len(s) \in Nat /\ c \in 1 .. 255 /\ Holds(s, a, Escaped(c))
    BY <1>2, <1>4, <1>6
  <2>2. Unquotes(s, a, c, front)
    BY <2>1, UnquoteStep
  <2> QED
    BY <2>2 DEF Unquotes
<1> HIDE DEF a, b, e
<1>8. a + e + 1 = b + 1 /\ a < b
  BY <1>4, <1>7
<1> QED
  BY <1>5, <1>7, <1>8 DEF a, b

\* What was quoted is unquoted again.
LEMMA QuotedBack ==
    ASSUME NEW t \in Seq(1 .. 255)
    PROVE  Written(Quoted(t), Unquote) = t
<1>1. PICK p : Concatenated(p, Int, AllEscaped(t))
  BY AllEscapedFacts, ConcatenatedExists
<1> DEFINE n == Len(t)
           s == p[n]
           L == [k \in 0 .. n |-> Len(p[k])]
           u == [k \in 0 .. n |-> <<L[k] + 1, SubSeq(t, 1, k)>>]
<1>2. Quoted(t) = s
  <2>1. FlattenSeq(AllEscaped(t)) = p[Len(AllEscaped(t))]
    BY <1>1, AllEscapedFacts, Flattened
  <2> QED
    BY <2>1, AllEscapedFacts DEF Quoted, AllEscaped
<1>3. n \in Nat /\ L[0] = 0 /\ L[n] = Len(s) /\ \A k \in 0 .. n : L[k] \in Nat
  BY <1>1, AllEscapedFacts DEF Concatenated
<1>4. \A k \in 0 .. n - 1 : L[k] < L[k + 1] /\ u[k + 1] = Unquote(s, u[k])
  <2> SUFFICES ASSUME NEW k \in 0 .. n - 1
               PROVE  L[k] < L[k + 1] /\ u[k + 1] = Unquote(s, u[k])
    OBVIOUS
  <2>1. k \in 0 .. n /\ k + 1 \in 0 .. n /\ Len(s) \in Nat
    BY <1>3
  <2>2. /\ L[k] = Len(p[k]) /\ L[k + 1] = Len(p[k + 1])
        /\ u[k] = <<Len(p[k]) + 1, SubSeq(t, 1, k)>>
        /\ u[k + 1] = <<Len(p[k + 1]) + 1, SubSeq(t, 1, k + 1)>>
    BY <2>1
  <2>3. /\ Unquote(s, <<Len(p[k]) + 1, SubSeq(t, 1, k)>>)
               = <<Len(p[k + 1]) + 1, SubSeq(t, 1, k + 1)>>
        /\ Len(p[k]) < Len(p[k + 1])
    BY <1>1, <2>1, UnquoteRound
  <2> HIDE DEF u, L
  <2> QED
    BY <2>2, <2>3
<1>5. u[0] = <<1, <<>>>> /\ u[n] = <<L[n] + 1, t>>
  <2>1. u[0] = <<L[0] + 1, SubSeq(t, 1, 0)>> /\ u[n] = <<L[n] + 1, SubSeq(t, 1, n)>>
    BY <1>3
  <2> HIDE DEF u, L
  <2> QED
    BY <1>3, <2>1, WholeFront
<1> HIDE DEF L, u
<1>6. n <= Len(s) /\ Len(s) \in Nat
  BY <1>3, <1>4, Growing
<1>7. Unquote(s, u[n]) = u[n]
  <2>1. u[n][1] > Len(s)
    <3>1. u[n][1] = L[n] + 1
      BY <1>5
    <3> QED
      BY <1>3, <1>6, <3>1
  <2> QED
    BY <2>1 DEF Unquote
<1> HIDE DEF s
<1>8. Written(s, Unquote) = u[n][2]
  BY <1>3, <1>4, <1>5, <1>6, <1>7, UnquoteKnown
<1> QED
  BY <1>2, <1>5, <1>8
-------------------------------------------------------------------------------
(* B words. *)

LEMMA Base64valOfDigit ==
    \A x \in 0 .. 63 : base64val(Digits64[x]) = x /\ Digits64[x] \in Int /\ Digits64[x] # Pad
<1>1. \A x, y \in 0 .. 63 : Digits64[x] = Digits64[y] => x = y
  <2>1. \A x \in 0 .. 63 : \/ x < 26 /\ Digits64[x] = 65 + x
                           \/ 26 <= x /\ x < 52 /\ Digits64[x] = 71 + x
                           \/ 52 <= x /\ x < 62 /\ Digits64[x] = x - 4
                           \/ x = 62 /\ Digits64[x] = 43
                           \/ x = 63 /\ Digits64[x] = 47
    BY DEF Digits64
  <2> QED
    BY <2>1
<1>2. \A x \in 0 .. 63 : Digits64[x] \in Int /\ Digits64[x] # Pad
  BY DEF Digits64, Pad
<1>3. \A x \in 0 .. 63 : base64val(Digits64[x]) = x
  BY <1>1 DEF base64val
<1> QED
  BY <1>2, <1>3

\* The bits of three octets in four digits, and back.
Split(a, b, c, d0, d1, d2, d3) ==
    /\ d0 = a \div 4
    /\ d1 = (a % 4) * 16 + b \div 16
    /\ d2 = (b % 16) * 4 + c \div 64
    /\ d3 = c % 64

Rejoined(a, b, c, d0, d1, d2, d3) ==
    /\ d0 \in 0 .. 63 /\ d1 \in 0 .. 63 /\ d2 \in 0 .. 63 /\ d3 \in 0 .. 63
    /\ ((d0 * 4) % 256) + ((d1 \div 16) % 4) = a
    /\ ((d1 % 16) * 16) + ((d2 \div 4) % 16) = b
    /\ ((d2 % 4) * 64) + d3 = c

LEMMA GroupBits ==
    ASSUME NEW a \in 0 .. 255, NEW b \in 0 .. 255, NEW c \in 0 .. 255,
           NEW d0, NEW d1, NEW d2, NEW d3, Split(a, b, c, d0, d1, d2, d3)
    PROVE  Rejoined(a, b, c, d0, d1, d2, d3)
<1>1. d0 \in 0 .. 63 /\ a = d0 * 4 + (a % 4) /\ a % 4 \in 0 .. 3
  BY DEF Split
<1>2. b \div 16 \in 0 .. 15 /\ b = (b \div 16) * 16 + (b % 16) /\ b % 16 \in 0 .. 15
  OBVIOUS
<1>3. c \div 64 \in 0 .. 3 /\ c = (c \div 64) * 64 + (c % 64) /\ c % 64 \in 0 .. 63 /\ d3 = c % 64
  BY DEF Split
<1>4. d1 \in 0 .. 63 /\ d1 \div 16 = a % 4 /\ d1 % 16 = b \div 16
  BY <1>1, <1>2 DEF Split
<1>5. d2 \in 0 .. 63 /\ d2 \div 4 = b % 16 /\ d2 % 4 = c \div 64
  BY <1>2, <1>3 DEF Split
<1>6. ((d0 * 4) % 256) + ((d1 \div 16) % 4) = a
  BY <1>1, <1>4
<1>7. ((d1 % 16) * 16) + ((d2 \div 4) % 16) = b
  BY <1>2, <1>4, <1>5
<1>8. ((d2 % 4) * 64) + d3 = c
  BY <1>3, <1>5
<1> QED
  BY <1>1, <1>3, <1>4, <1>5, <1>6, <1>7, <1>8 DEF Rejoined

\* The groups of base 64, and the octets of one: 0 stands for what is missing.
Groups(t) == (Len(t) + 2) \div 3
Octet(t, i) == IF i <= Len(t) THEN t[i] ELSE 0

\* The digits of the group behind position 4 g.
Digits(s, g, a, b, c, two, three) ==
    /\ s[4 * g + 1] = Digits64[a \div 4]
    /\ s[4 * g + 2] = Digits64[(a % 4) * 16 + b \div 16]
    /\ s[4 * g + 3] = IF two THEN Digits64[(b % 16) * 4 + c \div 64] ELSE Pad
    /\ s[4 * g + 4] = IF three THEN Digits64[c % 64] ELSE Pad

LEMMA Base64Groups ==
    ASSUME NEW t \in Seq(1 .. 255)
    PROVE  Groups(t) \in Nat /\ Len(ToBase64(t)) = 4 * Groups(t) /\ Len(t) <= 3 * Groups(t)
  BY DEF Groups, ToBase64

LEMMA Base64Digits ==
    ASSUME NEW t \in Seq(1 .. 255), NEW g \in 0 .. Groups(t) - 1
    PROVE  Digits(ToBase64(t), g, Octet(t, 3 * g + 1), Octet(t, 3 * g + 2), Octet(t, 3 * g + 3),
                  3 * g + 2 <= Len(t), 3 * g + 3 <= Len(t))
<1>1. Len(t) \in Nat /\ Groups(t) \in Nat
  BY Base64Groups
<1>2. \A r \in 0 .. 3 : /\ 4 * g + (r + 1) \in 1 .. 4 * Groups(t)
                        /\ ((4 * g + (r + 1)) - 1) \div 4 = g /\ ((4 * g + (r + 1)) - 1) % 4 = r
  BY <1>1
<1> DEFINE at(i) == IF i <= Len(t) THEN t[i] ELSE 0
           digit(h, r) ==
            CASE r = 0 -> Digits64[at(3 * h + 1) \div 4]
              [] r = 1 -> Digits64[(at(3 * h + 1) % 4) * 16 + at(3 * h + 2) \div 16]
              [] r = 2 -> IF 3 * h + 2 > Len(t) THEN Pad
                          ELSE Digits64[(at(3 * h + 2) % 16) * 4 + at(3 * h + 3) \div 64]
              [] r = 3 -> IF 3 * h + 3 > Len(t) THEN Pad ELSE Digits64[at(3 * h + 3) % 64]
           s == [i \in 1 .. 4 * Groups(t) |-> digit((i - 1) \div 4, (i - 1) % 4)]
<1>3. ToBase64(t) = s
  BY DEF ToBase64, Groups
<1>4. \A r \in 0 .. 3 : s[4 * g + (r + 1)] = digit(g, r)
  <2> HIDE DEF digit
  <2> QED
    BY <1>2
<1> HIDE DEF s
<1>5. s[4 * g + 1] = digit(g, 0) /\ s[4 * g + 2] = digit(g, 1)
      /\ s[4 * g + 3] = digit(g, 2) /\ s[4 * g + 4] = digit(g, 3)
  <2> HIDE DEF digit
  <2> QED
    BY <1>4
<1>6. at(3 * g + 1) = Octet(t, 3 * g + 1) /\ at(3 * g + 2) = Octet(t, 3 * g + 2)
      /\ at(3 * g + 3) = Octet(t, 3 * g + 3)
  BY DEF Octet
<1> HIDE DEF at
<1>7. (3 * g + 2 > Len(t) <=> ~ (3 * g + 2 <= Len(t))) /\ (3 * g + 3 > Len(t) <=> ~ (3 * g + 3 <= Len(t)))
  BY <1>1
<1>8. /\ digit(g, 0) = Digits64[at(3 * g + 1) \div 4]
      /\ digit(g, 1) = Digits64[(at(3 * g + 1) % 4) * 16 + at(3 * g + 2) \div 16]
      /\ digit(g, 2) = IF 3 * g + 2 > Len(t) THEN Pad
                       ELSE Digits64[(at(3 * g + 2) % 16) * 4 + at(3 * g + 3) \div 64]
      /\ digit(g, 3) = IF 3 * g + 3 > Len(t) THEN Pad ELSE Digits64[at(3 * g + 3) % 64]
  OBVIOUS
<1> HIDE DEF digit
<1> QED
  BY <1>3, <1>5, <1>6, <1>7, <1>8 DEF Digits

\* A round takes the octets from the digits of a group.
Unpacks(s, g, out, a, b, c, two, three) ==
    FromBase64(s, <<4 * g + 1, out>>) =
        IF three THEN <<4 * (g + 1) + 1, out \o <<a, b, c>>>>
        ELSE <<Len(s) + 1, out \o (IF two THEN <<a, b>> ELSE <<a>>)>>

GroupAt(s, g, a, b, c, two, three) ==
    /\ g \in Nat /\ Len(s) \in Nat /\ 4 * g + 1 <= Len(s)
    /\ a \in 0 .. 255 /\ b \in 0 .. 255 /\ c \in 0 .. 255
    /\ two \in BOOLEAN /\ three \in BOOLEAN /\ (three => two)
    /\ Digits(s, g, a, b, c, two, three)

LEMMA FromBase64Step ==
    ASSUME NEW s, NEW g, NEW out, NEW a, NEW b, NEW c, NEW two, NEW three,
           GroupAt(s, g, a, b, c, two, three)
    PROVE  Unpacks(s, g, out, a, b, c, two, three)
<1> USE DEF GroupAt
<1> DEFINE i == 4 * g + 1
           d0 == a \div 4
           d1 == (a % 4) * 16 + b \div 16
           d2 == (b % 16) * 4 + c \div 64
           d3 == c % 64
           one == ((base64val(s[i]) * 4) % 256) + ((base64val(s[i + 1]) \div 16) % 4)
           second == ((base64val(s[i + 1]) % 16) * 16) + ((base64val(s[i + 2]) \div 4) % 16)
           third == ((base64val(s[i + 2]) % 4) * 64) + base64val(s[i + 3])
<1>1. /\ d0 \in 0 .. 63 /\ d1 \in 0 .. 63 /\ d2 \in 0 .. 63 /\ d3 \in 0 .. 63
      /\ ((d0 * 4) % 256) + ((d1 \div 16) % 4) = a
      /\ ((d1 % 16) * 16) + ((d2 \div 4) % 16) = b
      /\ ((d2 % 4) * 64) + d3 = c
  <2>1. Split(a, b, c, d0, d1, d2, d3)
    BY DEF Split
  <2> HIDE DEF d0, d1, d2, d3, i, one, second, third
  <2> QED
    <3>1. Rejoined(a, b, c, d0, d1, d2, d3)
      BY <2>1, GroupBits, Zenon
    <3> QED
      BY ONLY <3>1 DEF Rejoined
<1>2. /\ s[i] = Digits64[d0] /\ s[i + 1] = Digits64[d1]
      /\ s[i + 2] = (IF two THEN Digits64[d2] ELSE Pad)
      /\ s[i + 3] = (IF three THEN Digits64[d3] ELSE Pad)
  <2>1. i + 1 = 4 * g + 2 /\ i + 2 = 4 * g + 3 /\ i + 3 = 4 * g + 4
    OBVIOUS
  <2> QED
    BY <2>1 DEF Digits
<1>3. ~ (i > Len(s)) /\ i + 4 = 4 * (g + 1) + 1
  OBVIOUS
<1> HIDE DEF d0, d1, d2, d3
<1>4. /\ base64val(s[i]) = d0 /\ base64val(s[i + 1]) = d1
      /\ two => base64val(s[i + 2]) = d2 /\ s[i + 2] # Pad
      /\ ~ two => s[i + 2] = Pad
      /\ three => base64val(s[i + 3]) = d3 /\ s[i + 3] # Pad
      /\ ~ three => s[i + 3] = Pad
  BY <1>1, <1>2, Base64valOfDigit
<1>5. /\ one = a
      /\ two => second = b
      /\ three => third = c
  BY <1>1, <1>4
<1>6. FromBase64(s, <<i, out>>) =
         IF i > Len(s) THEN <<i, out>>
         ELSE IF s[i + 2] = Pad THEN <<Len(s) + 1, out \o <<one>>>>
         ELSE IF s[i + 3] = Pad THEN <<Len(s) + 1, out \o <<one, second>>>>
         ELSE <<i + 4, out \o <<one, second, third>>>>
  BY DEF FromBase64
<1> HIDE DEF i, one, second, third
<1>7. FromBase64(s, <<i, out>>) =
         IF three THEN <<4 * (g + 1) + 1, out \o <<a, b, c>>>>
         ELSE <<Len(s) + 1, out \o (IF two THEN <<a, b>> ELSE <<a>>)>>
  <2>1. CASE three
    BY <1>3, <1>4, <1>5, <1>6, <2>1
  <2>2. CASE two /\ ~ three
    BY <1>3, <1>4, <1>5, <1>6, <2>2
  <2>3. CASE ~ two
    BY <1>3, <1>4, <1>5, <1>6, <2>3
  <2> QED
    BY <2>1, <2>2, <2>3
<1> QED
  BY <1>7 DEF Unpacks, i

\* What is appended one by one is concatenated.
LEMMA ManyAppended ==
    ASSUME NEW S, NEW x \in Seq(S), NEW a \in S, NEW b \in S, NEW c \in S
    PROVE  /\ Append(x, a) = x \o <<a>>
           /\ Append(Append(x, a), b) = x \o <<a, b>>
           /\ Append(Append(Append(x, a), b), c) = x \o <<a, b, c>>
<1>1. \A y \in Seq(S), e \in S : Append(y, e) = y \o <<e>> /\ Append(y, e) \in Seq(S)
  OBVIOUS
<1>2. <<a>> \in Seq(S) /\ <<b>> \in Seq(S) /\ <<c>> \in Seq(S) /\ <<a, b>> \in Seq(S)
  OBVIOUS
<1>3. <<a>> \o <<b>> = <<a, b>> /\ <<a, b>> \o <<c>> = <<a, b, c>>
  <2> DEFINE y == <<a>> \o <<b>>   z == <<a, b>> \o <<c>>
  <2>1. /\ Len(<<a>>) = 1 /\ Len(<<b>>) = 1 /\ Len(<<c>>) = 1 /\ Len(<<a, b>>) = 2
        /\ <<a>>[1] = a /\ <<b>>[1] = b /\ <<c>>[1] = c /\ <<a, b>>[1] = a /\ <<a, b>>[2] = b
    OBVIOUS
  <2>2. y \in Seq(S) /\ Len(y) = 2 /\ y[1] = a /\ y[2] = b
    BY <1>2, <2>1, ConcatProperties
  <2>3. z \in Seq(S) /\ Len(z) = 3 /\ z[1] = a /\ z[2] = b /\ z[3] = c
    BY <1>2, <2>1, ConcatProperties
  <2> HIDE DEF y, z
  <2>4. y = <<a, b>>
    <3>1. \A i \in 1 .. Len(y) : y[i] = <<a, b>>[i]
      BY <2>1, <2>2
    <3> QED
      BY <1>2, <2>1, <2>2, <3>1, SeqEqual
  <2>5. z = <<a, b, c>>
    <3>1. <<a, b, c>> \in Seq(S) /\ Len(<<a, b, c>>) = 3
      OBVIOUS
    <3>2. \A i \in 1 .. Len(z) : z[i] = <<a, b, c>>[i]
      BY <2>3
    <3> QED
      BY <2>3, <3>1, <3>2, SeqEqual
  <2> QED
    BY <2>4, <2>5 DEF y, z
<1>4. (x \o <<a>>) \o <<b>> = x \o (<<a>> \o <<b>>)
  BY <1>2, ConcatAssociative
<1>5. (x \o <<a, b>>) \o <<c>> = x \o (<<a, b>> \o <<c>>)
  BY <1>2, ConcatAssociative
<1>6. Append(x, a) = x \o <<a>> /\ Append(x, a) \in Seq(S)
  BY <1>1
<1>7. Append(Append(x, a), b) = x \o <<a, b>> /\ Append(Append(x, a), b) \in Seq(S)
  <2>1. Append(Append(x, a), b) = Append(x, a) \o <<b>> /\ Append(Append(x, a), b) \in Seq(S)
    BY <1>1, <1>6
  <2> QED
    BY ONLY <2>1, <1>3, <1>4, <1>6, Zenon
<1>8. Append(Append(Append(x, a), b), c) = Append(Append(x, a), b) \o <<c>>
  BY <1>1, <1>7
<1> QED
  BY ONLY <1>3, <1>5, <1>6, <1>7, <1>8, Zenon

\* Of a sequence of so many, the first three and what is left.
LEMMA FirstOfMore ==
    ASSUME NEW S, NEW t \in Seq(S), NEW k \in Nat, k < Len(t)
    PROVE  /\ k + 3 <= Len(t) =>
                 FirstOf(t, k + 3) = FirstOf(t, k) \o <<t[k + 1], t[k + 2], t[k + 3]>>
           /\ k + 2 = Len(t) => FirstOf(t, k + 3) = FirstOf(t, k) \o <<t[k + 1], t[k + 2]>>
           /\ k + 1 = Len(t) => FirstOf(t, k + 3) = FirstOf(t, k) \o <<t[k + 1]>>
<1> DEFINE x == SubSeq(t, 1, k)
<1>1. FirstOf(t, k) = x /\ Len(t) \in Nat
  BY DEF FirstOf
<1>2. x \in Seq(S) /\ \A i \in 1 .. Len(t) : t[i] \in S
  OBVIOUS
<1>3. SubSeq(t, 1, k + 1) = Append(x, t[k + 1]) /\ t[k + 1] \in S
  BY <1>1, NextFront
<1>4. ASSUME k + 2 <= Len(t)
      PROVE  SubSeq(t, 1, k + 2) = Append(Append(x, t[k + 1]), t[k + 2]) /\ t[k + 2] \in S
  <2>1. k + 1 \in 0 .. Len(t) - 1 /\ (k + 1) + 1 = k + 2 /\ k + 2 \in 1 .. Len(t)
    BY <1>1, <1>4
  <2>2. SubSeq(t, 1, (k + 1) + 1) = Append(SubSeq(t, 1, k + 1), t[(k + 1) + 1])
    BY <2>1, NextFront
  <2> QED
    BY <1>2, <1>3, <2>1, <2>2
<1>5. ASSUME k + 3 <= Len(t)
      PROVE  SubSeq(t, 1, k + 3) = Append(Append(Append(x, t[k + 1]), t[k + 2]), t[k + 3])
             /\ t[k + 3] \in S
  <2>1. k + 2 \in 0 .. Len(t) - 1 /\ (k + 2) + 1 = k + 3 /\ k + 3 \in 1 .. Len(t) /\ k + 2 <= Len(t)
    BY <1>1, <1>5
  <2>2. SubSeq(t, 1, (k + 2) + 1) = Append(SubSeq(t, 1, k + 2), t[(k + 2) + 1])
    BY <2>1, NextFront
  <2> QED
    BY <1>2, <1>4, <2>1, <2>2
<1> HIDE DEF x
<1>6. \A e1, e2, e3 \in S : /\ Append(x, e1) = x \o <<e1>>
                            /\ Append(Append(x, e1), e2) = x \o <<e1, e2>>
                            /\ Append(Append(Append(x, e1), e2), e3) = x \o <<e1, e2, e3>>
  BY <1>2, ManyAppended
<1>7. CASE k + 3 <= Len(t)
  <2>1. FirstOf(t, k + 3) = SubSeq(t, 1, k + 3)
    BY <1>1, <1>7 DEF FirstOf
  <2>2. k + 2 <= Len(t) /\ k + 2 # Len(t) /\ k + 1 # Len(t)
    BY <1>1, <1>7
  <2> QED
    BY <1>1, <1>3, <1>4, <1>5, <1>6, <1>7, <2>1, <2>2
<1>8. CASE k + 2 = Len(t)
  <2>1. FirstOf(t, k + 3) = SubSeq(t, 1, k + 2)
    BY <1>1, <1>8 DEF FirstOf
  <2>2. k + 2 <= Len(t) /\ ~ (k + 3 <= Len(t)) /\ k + 1 # Len(t)
    BY <1>1, <1>8
  <2> QED
    BY <1>1, <1>3, <1>4, <1>6, <2>1, <2>2
<1>9. CASE k + 1 = Len(t)
  <2>1. FirstOf(t, k + 3) = SubSeq(t, 1, k + 1)
    BY <1>1, <1>9 DEF FirstOf
  <2>2. ~ (k + 3 <= Len(t)) /\ k + 2 # Len(t)
    BY <1>1, <1>9
  <2> QED
    BY <1>1, <1>3, <1>6, <2>1, <2>2
<1> QED
  BY <1>1, <1>7, <1>8, <1>9

LEMMA FromBase64Round ==
    ASSUME NEW t \in Seq(1 .. 255), NEW g \in 0 .. Groups(t) - 1
    PROVE  FromBase64(ToBase64(t), <<4 * g + 1, FirstOf(t, 3 * g)>>)
               = <<4 * (g + 1) + 1, FirstOf(t, 3 * (g + 1))>>
<1> DEFINE s == ToBase64(t)
           k == 3 * g
           front == FirstOf(t, k)
           a == Octet(t, k + 1)
           b == Octet(t, k + 2)
           c == Octet(t, k + 3)
           two == k + 2 <= Len(t)
           three == k + 3 <= Len(t)
<1>1. /\ Groups(t) \in Nat /\ Len(s) = 4 * Groups(t) /\ Len(t) <= 3 * Groups(t)
      /\ Len(t) \in Nat /\ Groups(t) = (Len(t) + 2) \div 3
  BY Base64Groups DEF Groups
<1>2. g \in Nat /\ k \in Nat /\ k < Len(t) /\ k + 3 = 3 * (g + 1)
  BY <1>1
<1>3. Digits(s, g, a, b, c, two, three)
  BY Base64Digits
<1>4. /\ a \in 0 .. 255 /\ b \in 0 .. 255 /\ c \in 0 .. 255
      /\ a = t[k + 1] /\ (two => b = t[k + 2]) /\ (three => c = t[k + 3])
  <2>1. \A i \in Nat \ {0} : i <= Len(t) => t[i] \in 0 .. 255
    <3>1. \A i \in 1 .. Len(t) : t[i] \in 1 .. 255
      BY SeqFacts
    <3> QED
      BY <1>1, <3>1
  <2>2. \A i \in Nat \ {0} : Octet(t, i) \in 0 .. 255 /\ (i <= Len(t) => Octet(t, i) = t[i])
    BY <2>1 DEF Octet
  <2>3. k + 1 \in Nat \ {0} /\ k + 2 \in Nat \ {0} /\ k + 3 \in Nat \ {0} /\ k + 1 <= Len(t)
    BY <1>1, <1>2
  <2> HIDE DEF k
  <2> QED
    BY <2>2, <2>3
<1>5. two \in BOOLEAN /\ three \in BOOLEAN /\ (three => two) /\ Len(s) \in Nat /\ 4 * g + 1 <= Len(s)
  BY <1>1, <1>2
<1>6. /\ ~ three => Len(s) + 1 = 4 * (g + 1) + 1
      /\ ~ three /\ two => k + 2 = Len(t)
      /\ ~ two => k + 1 = Len(t)
  <2> DEFINE len == Len(t)   n == Groups(t)   m == Len(s)
  <2>1. /\ n \in Nat /\ m = 4 * n /\ len \in Nat /\ n = (len + 2) \div 3
        /\ g \in 0 .. n - 1 /\ 3 * g < len
    BY <1>1, <1>2
  <2> HIDE DEF len, n, m
  <2>2. /\ ~ (3 * g + 3 <= len) => m + 1 = 4 * (g + 1) + 1
        /\ ~ (3 * g + 3 <= len) /\ 3 * g + 2 <= len => 3 * g + 2 = len
        /\ ~ (3 * g + 2 <= len) => 3 * g + 1 = len
    BY <2>1
  <2> QED
    BY <2>2 DEF len, n, m
<1>7. /\ three => FirstOf(t, k + 3) = front \o <<t[k + 1], t[k + 2], t[k + 3]>>
      /\ k + 2 = Len(t) => FirstOf(t, k + 3) = front \o <<t[k + 1], t[k + 2]>>
      /\ k + 1 = Len(t) => FirstOf(t, k + 3) = front \o <<t[k + 1]>>
  BY <1>2, FirstOfMore
<1> HIDE DEF s, k, front, a, b, c, two, three
<1>8. Unpacks(s, g, front, a, b, c, two, three)
  <2>1. GroupAt(s, g, a, b, c, two, three)
    BY <1>2, <1>3, <1>4, <1>5 DEF GroupAt
  <2> QED
    BY <2>1, FromBase64Step, Zenon
<1>9. FromBase64(s, <<4 * g + 1, front>>) =
         IF three THEN <<4 * (g + 1) + 1, front \o <<a, b, c>>>>
         ELSE <<Len(s) + 1, front \o (IF two THEN <<a, b>> ELSE <<a>>)>>
  BY <1>8 DEF Unpacks
<1>10. FromBase64(s, <<4 * g + 1, front>>) = <<4 * (g + 1) + 1, FirstOf(t, k + 3)>>
  <2>1. CASE three
    BY <1>4, <1>5, <1>7, <1>9, <2>1
  <2>2. CASE ~ three /\ two
    BY <1>4, <1>6, <1>7, <1>9, <2>2
  <2>3. CASE ~ three /\ ~ two
    BY <1>4, <1>6, <1>7, <1>9, <2>3
  <2> QED
    BY <2>1, <2>2, <2>3
<1> QED
  BY <1>2, <1>10 DEF s, front, k

\* What was sent in base 64 is what is read.
LEMMA ToBase64Back ==
    ASSUME NEW t \in Seq(1 .. 255)
    PROVE  Written(ToBase64(t), FromBase64) = t
<1> DEFINE n == Groups(t)
           s == ToBase64(t)
           u == [k \in 0 .. n |-> <<4 * k + 1, FirstOf(t, 3 * k)>>]
<1>1. n \in Nat /\ Len(s) = 4 * n /\ Len(t) <= 3 * n /\ Len(t) \in Nat
  BY Base64Groups
<1>2. \A k \in 0 .. n : u[k] = <<4 * k + 1, FirstOf(t, 3 * k)>>
  OBVIOUS
<1> HIDE DEF u
<1>3. u[0] = <<1, <<>>>>
  <2>1. FirstOf(t, 3 * 0) = <<>>
    BY <1>1, WholeFront DEF FirstOf
  <2>2. 4 * 0 + 1 = 1 /\ 0 \in 0 .. n
    BY <1>1
  <2> QED
    BY <1>2, <2>1, <2>2
<1>4. u[n] = <<4 * n + 1, t>>
  <2>1. FirstOf(t, 3 * n) = t
    <3>1. FirstOf(t, 3 * n) = SubSeq(t, 1, Len(t))
      BY <1>1 DEF FirstOf
    <3> QED
      BY <3>1, WholeFront
  <2> QED
    BY <1>1, <1>2, <2>1
<1>5. \A k \in 0 .. n - 1 : u[k + 1] = FromBase64(s, u[k])
  <2> SUFFICES ASSUME NEW k \in 0 .. n - 1 PROVE u[k + 1] = FromBase64(s, u[k])
    OBVIOUS
  <2>1. k \in 0 .. n /\ k + 1 \in 0 .. n
    BY <1>1
  <2>2. FromBase64(s, <<4 * k + 1, FirstOf(t, 3 * k)>>)
            = <<4 * (k + 1) + 1, FirstOf(t, 3 * (k + 1))>>
    BY FromBase64Round
  <2> HIDE DEF s, n
  <2>3. u[k] = <<4 * k + 1, FirstOf(t, 3 * k)>> /\ u[k + 1] = <<4 * (k + 1) + 1, FirstOf(t, 3 * (k + 1))>>
    BY <1>2, <2>1
  <2> QED
    BY ONLY <2>2, <2>3, Zenon
<1>6. FromBase64(s, u[n]) = u[n]
  <2>1. u[n][1] > Len(s)
    <3>1. u[n][1] = 4 * n + 1
      BY <1>4
    <3> QED
      BY <1>1, <3>1
  <2> QED
    BY <2>1 DEF FromBase64
<1>7. n <= Len(s) /\ Len(s) \in Nat
  BY <1>1
<1> HIDE DEF s, n
<1>8. Written(s, FromBase64) = u[n][2]
  BY <1>1, <1>3, <1>5, <1>6, <1>7, FromBase64Known
<1> QED
  BY <1>4, <1>8 DEF s
-------------------------------------------------------------------------------
(* Headers. *)

\* f is all of a, or its first r.
Leading(f, a, r) == /\ Len(f) \in Nat /\ Len(f) <= r
                    /\ Len(a) < r => f = a
                    /\ r <= Len(a) => Len(f) = r
                    /\ \A x \in 1 .. Len(f) : x <= Len(a) /\ f[x] = a[x]

LEMMA FirstOfFacts ==
    ASSUME NEW S, NEW a \in Seq(S), NEW r \in Nat
    PROVE  FirstOf(a, r) \in Seq(S) /\ Leading(FirstOf(a, r), a, r)
<1>1. Len(a) \in Nat /\ \A i \in 1 .. Len(a) : a[i] \in S
  OBVIOUS
<1> DEFINE n == IF r < Len(a) THEN r ELSE Len(a)
<1>2. n \in Nat /\ n <= Len(a) /\ n <= r /\ (Len(a) < r => n = Len(a)) /\ (r <= Len(a) => n = r)
  BY <1>1
<1>3. FirstOf(a, r) = SubSeq(a, 1, n)
  BY DEF FirstOf
<1> HIDE DEF n
<1>4. /\ SubSeq(a, 1, n) \in Seq(S) /\ Len(SubSeq(a, 1, n)) = n
      /\ \A x \in 1 .. n : SubSeq(a, 1, n)[x] = a[x]
  BY <1>1, <1>2
<1> DEFINE f == FirstOf(a, r)
<1>5. n = Len(a) => f = a
  <2>1. SubSeq(a, 1, Len(a)) = a
    BY WholeFront
  <2> QED
    BY ONLY <1>3, <2>1, Zenon DEF f
<1>6. f \in Seq(S) /\ Len(f) = n /\ \A x \in 1 .. n : f[x] = a[x]
  BY <1>3, <1>4
<1> HIDE DEF f
<1>7. Leading(f, a, r)
  BY <1>1, <1>2, <1>5, <1>6 DEF Leading
<1> QED
  BY <1>6, <1>7 DEF f

\* The first of one sequence are those of a longer one, if it has so many.
LEMMA FirstOfLonger ==
    ASSUME NEW S, NEW a \in Seq(S), NEW b \in Seq(S), NEW r \in Nat, r <= Len(a), Len(a) <= Len(b),
           \A x \in 1 .. Len(a) : b[x] = a[x]
    PROVE  FirstOf(b, r) = FirstOf(a, r)
<1> DEFINE f == FirstOf(a, r)   g == FirstOf(b, r)
<1>1. Len(a) \in Nat /\ Len(b) \in Nat
  OBVIOUS
<1>0. f \in Seq(S) /\ g \in Seq(S) /\ Leading(f, a, r) /\ Leading(g, b, r)
  BY FirstOfFacts
<1> HIDE DEF f, g
<1>2. f \in Seq(S) /\ Len(f) = r /\ \A x \in 1 .. r : x <= Len(a) /\ f[x] = a[x]
  BY <1>0, <1>1 DEF Leading
<1>3. g \in Seq(S) /\ Len(g) = r /\ \A x \in 1 .. r : g[x] = b[x]
  BY <1>0, <1>1 DEF Leading
<1>4. \A x \in 1 .. r : x \in 1 .. Len(a)
  BY <1>1
<1>5. \A x \in 1 .. Len(g) : g[x] = f[x]
  BY <1>2, <1>3, <1>4
<1>6. g = f
  BY <1>2, <1>3, <1>5, SeqEqual
<1> QED
  BY <1>6 DEF f, g

\* The first of two sequences are the first of the one, and of the other what there is room for.
LEMMA FirstOfConcat ==
    ASSUME NEW S, NEW a \in Seq(S), NEW b \in Seq(S), NEW r \in Nat
    PROVE  FirstOf(a \o b, r) = FirstOf(a, r) \o FirstOf(b, r - Len(FirstOf(a, r)))
<1> DEFINE c == a \o b
<1>1. /\ Len(a) \in Nat /\ Len(b) \in Nat /\ c \in Seq(S) /\ Len(c) = Len(a) + Len(b)
      /\ \A x \in 1 .. Len(a) : c[x] = a[x]
      /\ \A x \in 1 .. Len(b) : c[Len(a) + x] = b[x]
  BY ConcatFacts DEF Lengths, Elements
<1> HIDE DEF c
<1>2. CASE r <= Len(a)
  <2>1. FirstOf(c, r) = FirstOf(a, r)
    BY <1>1, <1>2, FirstOfLonger
  <2>2. Len(FirstOf(a, r)) = r /\ FirstOf(a, r) \in Seq(S) /\ r - r = 0
    BY <1>2, FirstOfFacts DEF Leading
  <2>3. FirstOf(b, 0) = <<>>
    BY <1>1, WholeFront DEF FirstOf
  <2> QED
    BY <2>1, <2>2, <2>3, ConcatEmptySeq DEF c
<1>3. CASE Len(a) < r
  <2> DEFINE d == r - Len(a)   f == FirstOf(b, d)   g == FirstOf(c, r)   h == a \o f
  <2>1. FirstOf(a, r) = a /\ d \in Nat
    <3>1. Leading(FirstOf(a, r), a, r)
      BY FirstOfFacts
    <3> QED
      BY <1>1, <1>3, <3>1 DEF Leading
  <2>0. f \in Seq(S) /\ Leading(f, b, d) /\ g \in Seq(S) /\ Leading(g, c, r)
    BY <1>1, <2>1, FirstOfFacts
  <2>2. /\ f \in Seq(S) /\ Len(f) \in Nat
        /\ \A x \in 1 .. Len(f) : x <= Len(b) /\ f[x] = b[x]
        /\ (Len(b) < d => f = b) /\ (d <= Len(b) => Len(f) = d)
    <3> HIDE DEF f, d, g, h
    <3> QED
      BY <2>0 DEF Leading
  <2>3. /\ g \in Seq(S) /\ Len(g) \in Nat
        /\ \A x \in 1 .. Len(g) : x <= Len(c) /\ g[x] = c[x]
        /\ (Len(c) < r => g = c) /\ (r <= Len(c) => Len(g) = r)
    <3> HIDE DEF f, d, g, h
    <3> QED
      BY <2>0 DEF Leading
  <2>4. /\ h \in Seq(S) /\ Len(h) = Len(a) + Len(f)
        /\ \A x \in 1 .. Len(a) : h[x] = a[x]
        /\ \A x \in 1 .. Len(f) : h[Len(a) + x] = f[x]
    BY <2>2, ConcatFacts DEF Lengths, Elements
  <2>5. d = r - Len(a)
    OBVIOUS
  <2> HIDE DEF d, f, g, h
  <2>6. Len(g) = Len(h)
    <3>1. Len(b) < d => Len(f) = Len(b)
      BY <2>2
    <3>2. Len(c) < r => Len(g) = Len(c)
      BY <2>3
    <3> QED
      BY <1>1, <2>2, <2>3, <2>4, <2>5, <3>1, <3>2
  <2>7. \A x \in 1 .. Len(g) : g[x] = h[x]
    <3> SUFFICES ASSUME NEW x \in 1 .. Len(g) PROVE g[x] = h[x]
      OBVIOUS
    <3>1. g[x] = c[x] /\ x \in Nat /\ x >= 1 /\ x <= Len(a) + Len(f)
      BY <2>2, <2>3, <2>4, <2>6
    <3>2. CASE x <= Len(a)
      <4>1. x \in 1 .. Len(a)
        BY <1>1, <3>1, <3>2
      <4> QED
        BY <1>1, <2>4, <3>1, <4>1
    <3>3. CASE ~ (x <= Len(a))
      <4> DEFINE y == x - Len(a)
      <4>1. y \in 1 .. Len(f) /\ Len(a) + y = x
        BY <1>1, <2>2, <3>1, <3>3
      <4> HIDE DEF y
      <4>2. y \in 1 .. Len(b) /\ f[y] = b[y]
        BY <1>1, <2>2, <4>1
      <4>3. c[Len(a) + y] = b[y] /\ h[Len(a) + y] = f[y]
        BY <1>1, <2>4, <4>1, <4>2
      <4> QED
        BY <3>1, <4>1, <4>2, <4>3
    <3> QED
      BY <3>2, <3>3
  <2>8. g = h
    BY <2>3, <2>4, <2>6, <2>7, SeqEqual
  <2> QED
    BY <2>1, <2>8 DEF d, f, g, h, c
<1> QED
  BY <1>1, <1>2, <1>3

\* A word means what it was made of.
LEMMA WordBack ==
    ASSUME NEW c, c.enc \in {"Q", "B"}, c.text \in Seq(1 .. 255), NEW d
    PROVE  rfc2047DecodeWord(Sent(c), d) = FirstOf(c.text, d)
<1>1. Sent(c).enc = c.enc /\ Sent(c).charset = "utf-8"
  BY DEF Sent
<1>2. CASE c.enc = "Q"
  <2>1. Sent(c).text = Quoted(c.text)
    BY <1>2 DEF Sent
  <2>2. Written(Quoted(c.text), Unquote) = c.text
    BY QuotedBack
  <2> QED
    BY <1>1, <1>2, <2>1, <2>2 DEF rfc2047DecodeWord
<1>3. CASE c.enc = "B"
  <2>1. Sent(c).text = ToBase64(c.text)
    BY <1>3 DEF Sent
  <2>2. Written(ToBase64(c.text), FromBase64) = c.text
    BY ToBase64Back
  <2> QED
    BY <1>1, <1>3, <2>1, <2>2 DEF rfc2047DecodeWord
<1> QED
  BY <1>2, <1>3

LEMMA SentFacts ==
    ASSUME NEW c
    PROVE  /\ Sent(c).enc = c.enc
           /\ c.enc = "none" => Sent(c).text = c.text
  BY DEF Sent

PartsOf(chunks) == {Gap} \cup {Sent(chunks[i]) : i \in 1 .. Len(chunks)}
Blocks(chunks) == [i \in DOMAIN chunks |-> Block(chunks, i)]
TextsOf(chunks) == [i \in DOMAIN chunks |-> chunks[i].text]

\* p is where each block begins in the header, m what the chunks before mean.
Layout(chunks, p, m) == /\ IsText(chunks)
                        /\ Concatenated(p, PartsOf(chunks), Blocks(chunks))
                        /\ Concatenated(m, 1 .. 255, TextsOf(chunks))

LEMMA TextFacts ==
    ASSUME NEW chunks, IsText(chunks)
    PROVE  /\ Len(chunks) \in Nat /\ DOMAIN chunks = 1 .. Len(chunks)
           /\ \A i \in 1 .. Len(chunks) : /\ chunks[i].enc \in {"none", "Q", "B"}
                                          /\ chunks[i].text \in Seq(1 .. 255)
<1> DEFINE C == [enc : {"none", "Q", "B"}, text : Seq(1 .. 255)]
<1>1. chunks \in Seq(C)
  BY DEF IsText
<1>2. \A c \in C : c.enc \in {"none", "Q", "B"} /\ c.text \in Seq(1 .. 255)
  OBVIOUS
<1> HIDE DEF C
<1> QED
  BY <1>1, <1>2, SeqFacts

LEMMA BlocksListed ==
    ASSUME NEW chunks, IsText(chunks)
    PROVE  /\ Listed(Blocks(chunks), PartsOf(chunks)) /\ Len(Blocks(chunks)) = Len(chunks)
           /\ \A i \in 1 .. Len(chunks) : Blocks(chunks)[i] = Block(chunks, i)
           /\ Listed(TextsOf(chunks), 1 .. 255) /\ Len(TextsOf(chunks)) = Len(chunks)
           /\ \A i \in 1 .. Len(chunks) : TextsOf(chunks)[i] = chunks[i].text
<1> DEFINE S == PartsOf(chunks)
<1>1. Len(chunks) \in Nat /\ DOMAIN chunks = 1 .. Len(chunks)
  BY TextFacts
<1>2. \A i \in 1 .. Len(chunks) : Gap \in S /\ Sent(chunks[i]) \in S
  BY DEF PartsOf
<1> HIDE DEF S
<1>3. \A a, b \in S : <<a, b>> \in Seq(S) /\ <<b>> \in Seq(S)
  OBVIOUS
<1>4. \A i \in 1 .. Len(chunks) : Block(chunks, i) \in Seq(S)
  BY <1>2, <1>3 DEF Block
<1>5. \A i \in 1 .. Len(chunks) : chunks[i].text \in Seq(1 .. 255)
  BY TextFacts
<1>6. Listed(Blocks(chunks), S) /\ Len(Blocks(chunks)) = Len(chunks)
  BY <1>1, <1>4 DEF Listed, Blocks
<1>7. Listed(TextsOf(chunks), 1 .. 255) /\ Len(TextsOf(chunks)) = Len(chunks)
  BY <1>1, <1>5 DEF Listed, TextsOf
<1> QED
  BY <1>1, <1>6, <1>7 DEF S, Blocks, TextsOf

LEMMA LayoutExists ==
    ASSUME NEW chunks, IsText(chunks)
    PROVE  \E p, m : /\ Layout(chunks, p, m)
                     /\ Header(chunks) = p[Len(chunks)] /\ Meaning(chunks) = m[Len(chunks)]
<1>1. PICK p : Concatenated(p, PartsOf(chunks), Blocks(chunks))
  BY BlocksListed, ConcatenatedExists
<1>2. PICK m : Concatenated(m, 1 .. 255, TextsOf(chunks))
  BY BlocksListed, ConcatenatedExists
<1>3. FlattenSeq(Blocks(chunks)) = p[Len(Blocks(chunks))]
  BY <1>1, BlocksListed, Flattened
<1>4. FlattenSeq(TextsOf(chunks)) = m[Len(TextsOf(chunks))]
  BY <1>2, BlocksListed, Flattened
<1>5. Header(chunks) = p[Len(chunks)] /\ Meaning(chunks) = m[Len(chunks)]
  BY <1>3, <1>4, BlocksListed DEF Header, Meaning, Blocks, TextsOf
<1> QED
  BY <1>1, <1>2, <1>5 DEF Layout

\* Chunk k + 1 is sent in a word behind another one.
Follows(chunks, k) == k > 0 /\ chunks[k].enc # "none" /\ chunks[k + 1].enc # "none"

\* Where chunk k + 1 stands in the header, and in the meaning.
Place(chunks, parts, a, b, k) ==
    /\ a \in Nat /\ b \in Nat /\ Len(parts) \in Nat /\ b <= Len(parts)
    /\ Follows(chunks, k) => /\ b = a + 2 /\ parts[a + 1] = Gap
                             /\ parts[a + 2] = Sent(chunks[k + 1])
    /\ ~ Follows(chunks, k) => b = a + 1 /\ parts[a + 1] = Sent(chunks[k + 1])

LEMMA PlaceFacts ==
    ASSUME NEW chunks, NEW p, NEW m, Layout(chunks, p, m), NEW k \in 0 .. Len(chunks) - 1
    PROVE  Place(chunks, p[Len(chunks)], Len(p[k]), Len(p[k + 1]), k)
<1> DEFINE n == Len(chunks)   ss == Blocks(chunks)   S == PartsOf(chunks)   parts == p[n]
           a == Len(p[k])   b == Len(p[k + 1])   e == Block(chunks, k + 1)
<1>1. IsText(chunks) /\ Concatenated(p, S, ss) /\ Listed(ss, S) /\ Len(ss) = n /\ n \in Nat
  BY BlocksListed, TextFacts DEF Layout
<1>2. k + 1 \in 1 .. n /\ ss[k + 1] = e
  BY <1>1, BlocksListed
<1>3. Lengths(p[k], e, p[k + 1]) /\ Holds(parts, a, e)
  BY <1>1, <1>2, ConcatenatedHolds
<1>4. p \in [0 .. n -> Seq(S)]
  BY <1>1 DEF Concatenated
<1>5. parts \in Seq(S)
  BY <1>1, <1>4
<1>6. Len(parts) \in Nat
  BY <1>5
<1>7. /\ Follows(chunks, k) => e = <<Gap, Sent(chunks[k + 1])>>
      /\ ~ Follows(chunks, k) => e = <<Sent(chunks[k + 1])>>
  BY <1>1, <1>2 DEF Block, Follows
<1>8. a \in Nat /\ b = a + Len(e) /\ a + Len(e) <= Len(parts) /\ \A x \in 1 .. Len(e) : parts[a + x] = e[x]
  BY <1>3 DEF Lengths, Holds
<1> HIDE DEF a, b, e, parts
<1>9. CASE Follows(chunks, k)
  <2>1. Len(e) = 2 /\ e[1] = Gap /\ e[2] = Sent(chunks[k + 1])
    BY <1>7, <1>9
  <2>2. parts[a + 1] = Gap /\ parts[a + 2] = Sent(chunks[k + 1]) /\ b = a + 2 /\ b \in Nat /\ b <= Len(parts)
    BY <1>6, <1>8, <2>1
  <2>3. Place(chunks, parts, a, b, k)
    BY <1>6, <1>8, <1>9, <2>2 DEF Place
  <2> QED
    BY <2>3 DEF parts, a, b
<1>10. CASE ~ Follows(chunks, k)
  <2>1. Len(e) = 1 /\ e[1] = Sent(chunks[k + 1])
    BY <1>7, <1>10
  <2>2. parts[a + 1] = Sent(chunks[k + 1]) /\ b = a + 1 /\ b \in Nat /\ b <= Len(parts)
    BY <1>6, <1>8, <2>1
  <2>3. Place(chunks, parts, a, b, k)
    BY <1>6, <1>8, <1>10, <2>2 DEF Place
  <2> QED
    BY <2>3 DEF parts, a, b
<1> QED
  BY <1>9, <1>10

(***************************************************************************)
(* The rounds of rfc2047_decode, at position a + 1 with out written.       *)
(***************************************************************************)
Room(parts, a, out, room) ==
    /\ a \in Nat /\ Len(parts) \in Nat /\ a + 1 <= Len(parts)
    /\ room \in Nat /\ Len(out) \in Nat /\ Len(out) < room

Coded(c) == c.enc \in {"Q", "B"} /\ c.text \in Seq(1 .. 255)

\* The next part is a word.
AtWord(parts, a, out, room, c) ==
    Room(parts, a, out, room) /\ Coded(c) /\ parts[a + 1] = Sent(c)

\* It is the space between two words.
AtGap(parts, a, out, room, c) ==
    /\ Room(parts, a, out, room) /\ a > 0 /\ a + 2 <= Len(parts) /\ out \o <<>> = out
    /\ Coded(c) /\ parts[a + 1] = Gap /\ parts[a + 2] = Sent(c)

\* It is plain text, before a word or at the end.
AtPlain(parts, a, out, room, c, d) ==
    /\ Room(parts, a, out, room) /\ a + 2 <= Len(parts)
    /\ c.enc = "none" /\ parts[a + 1] = Sent(c) /\ ~ Ignored(c.text, a > 0)
    /\ Coded(d) /\ parts[a + 2] = Sent(d)

AtLast(parts, a, out, room, c) ==
    Room(parts, a, out, room) /\ a + 1 = Len(parts) /\ c.enc = "none" /\ parts[a + 1] = Sent(c)

\* A round from behind part a to behind part b, where more is written.
Goes(parts, a, out, room, b, more) == DecodePart(parts, <<a + 1, out>>, room) = <<b + 1, more>>

LEMMA WordRound ==
    ASSUME NEW parts, NEW a, NEW out, NEW room, NEW c, AtWord(parts, a, out, room, c)
    PROVE  Goes(parts, a, out, room, a + 1, out \o FirstOf(c.text, room - Len(out)))
<1> USE DEF AtWord
<1> DEFINE i == a + 1   left == room - Len(out)
<1>1. /\ i \in Nat /\ ~ (i > Len(parts)) /\ left # 0 /\ i + 1 = (a + 1) + 1 /\ i \in i .. Len(parts)
  BY DEF Room
<1>2. parts[i].enc # "none" /\ parts[i] = Sent(c)
  BY SentFacts DEF Coded
<1>3. rfc2047DecodeWord(Sent(c), left) = FirstOf(c.text, left)
  BY WordBack DEF Coded
<1> HIDE DEF Goes, i, left
<1>4. ~ (\A j \in i .. Len(parts) : parts[j].enc = "none")
  BY <1>1, <1>2
<1>5. DecodePart(parts, <<i, out>>, room) = <<i + 1, out \o rfc2047DecodeWord(parts[i], left)>>
  BY <1>1, <1>2, <1>4 DEF DecodePart, left
<1> QED
  BY <1>1, <1>2, <1>3, <1>5 DEF Goes, i, left

LEMMA GapRound ==
    ASSUME NEW parts, NEW a, NEW out, NEW room, NEW c, AtGap(parts, a, out, room, c)
    PROVE  Goes(parts, a, out, room, a + 2, out \o FirstOf(c.text, room - Len(out)))
<1> USE DEF AtGap
<1> DEFINE i == a + 1   left == room - Len(out)
<1>1. /\ i \in Nat /\ ~ (i > Len(parts)) /\ left # 0 /\ i + 1 = a + 2 /\ i + 2 = (a + 2) + 1
      /\ i + 1 \in i .. Len(parts) /\ i > 1 /\ left \in Nat
  BY DEF Room
<1>2. parts[i + 1].enc # "none" /\ parts[i + 1] = Sent(c)
  BY <1>1, SentFacts DEF Coded
<1>3. parts[i].enc = "none" /\ parts[i].text = <<32, 32, 32>>
  BY DEF Gap, Space
<1>4. Ignored(parts[i].text, i > 1)
  <2>1. \A j \in DOMAIN <<32, 32, 32>> : <<32, 32, 32>>[j] = 32
    OBVIOUS
  <2> HIDE DEF i
  <2> QED
    BY <1>1, <1>3, <2>1 DEF Ignored
<1>5. rfc2047DecodeWord(Sent(c), left) = FirstOf(c.text, left)
  BY WordBack DEF Coded
<1>6. left - Len(<<>>) = left
  BY <1>1
<1> HIDE DEF Goes, i, left
<1>7. ~ (\A j \in i .. Len(parts) : parts[j].enc = "none")
  BY <1>1, <1>2
<1>8. DecodePart(parts, <<i, out>>, room)
          = <<i + 2, (out \o <<>>) \o rfc2047DecodeWord(parts[i + 1], left - Len(<<>>))>>
  BY <1>1, <1>3, <1>4, <1>7 DEF DecodePart, left
<1> QED
  BY <1>1, <1>2, <1>5, <1>6, <1>8 DEF Goes, i, left

LEMMA PlainRound ==
    ASSUME NEW parts, NEW a, NEW out, NEW room, NEW c, NEW d, AtPlain(parts, a, out, room, c, d),
           NEW f, f = FirstOf(c.text, room - Len(out))
    PROVE  Goes(parts, a, out, room, a + 2,
                (out \o f) \o FirstOf(d.text, (room - Len(out)) - Len(f)))
<1> USE DEF AtPlain
<1> DEFINE i == a + 1   left == room - Len(out)
<1>1. /\ i \in Nat /\ ~ (i > Len(parts)) /\ left # 0 /\ i + 1 = a + 2 /\ i + 2 = (a + 2) + 1
      /\ i + 1 \in i .. Len(parts) /\ (i > 1 <=> a > 0)
  BY DEF Room
<1>2. parts[i + 1].enc # "none" /\ parts[i + 1] = Sent(d)
  BY <1>1, SentFacts DEF Coded
<1>3. parts[i].enc = "none" /\ parts[i].text = c.text
  BY SentFacts
<1>4. ~ Ignored(parts[i].text, i > 1)
  BY <1>1, <1>3 DEF Ignored
<1>5. rfc2047DecodeWord(Sent(d), left - Len(f)) = FirstOf(d.text, left - Len(f))
  BY WordBack DEF Coded
<1>6. f = FirstOf(parts[i].text, left)
  BY <1>3
<1> HIDE DEF Goes, i, left
<1>7. ~ (\A j \in i .. Len(parts) : parts[j].enc = "none")
  BY <1>1, <1>2
<1>8. DecodePart(parts, <<i, out>>, room)
          = <<i + 2, (out \o f) \o rfc2047DecodeWord(parts[i + 1], left - Len(f))>>
  BY <1>1, <1>3, <1>4, <1>6, <1>7 DEF DecodePart, left
<1> QED
  BY <1>1, <1>2, <1>5, <1>8 DEF Goes, i, left

LEMMA LastRound ==
    ASSUME NEW parts, NEW a, NEW out, NEW room, NEW c, AtLast(parts, a, out, room, c)
    PROVE  Goes(parts, a, out, room, a + 1, out \o FirstOf(c.text, room - Len(out)))
<1> USE DEF AtLast
<1> DEFINE i == a + 1   left == room - Len(out)
<1>1. /\ i \in Nat /\ ~ (i > Len(parts)) /\ left # 0 /\ Len(parts) + 1 = (a + 1) + 1
      /\ \A j \in i .. Len(parts) : j = i
  BY DEF Room
<1>2. parts[i].enc = "none" /\ parts[i].text = c.text
  BY SentFacts
<1> HIDE DEF Goes, i, left
<1>3. \A j \in i .. Len(parts) : parts[j].enc = "none"
  BY <1>1, <1>2
<1>4. DecodePart(parts, <<i, out>>, room) = <<Len(parts) + 1, out \o FirstOf(parts[i].text, left)>>
  BY <1>1, <1>3 DEF DecodePart, left
<1> QED
  BY <1>1, <1>2, <1>4 DEF Goes, i, left

\* It ends at the end of the header or of the destination.
LEMMA DoneRound ==
    ASSUME NEW parts, NEW a \in Nat, NEW out, NEW room \in Nat, Len(parts) \in Nat, Len(out) \in Nat,
           a + 1 > Len(parts) \/ Len(out) = room
    PROVE  DecodePart(parts, <<a + 1, out>>, room) = <<a + 1, out>>
<1> DEFINE at == <<a + 1, out>>
<1>1. at[1] = a + 1 /\ at[2] = out
  OBVIOUS
<1> HIDE DEF at
<1>2. at[1] > Len(parts) \/ room - Len(at[2]) = 0
  BY <1>1
<1>3. DecodePart(parts, at, room) = at
  BY <1>2 DEF DecodePart
<1> QED
  BY <1>3 DEF at

\* What there is room for of the meaning grows by what there is room for of a chunk.
Adds(m, k, text, room) ==
    /\ m[k] \in Seq(1 .. 255) /\ Len(m[k]) \in Nat /\ FirstOf(m[k], room) = m[k] /\ m[k] \o <<>> = m[k]
    /\ FirstOf(m[k + 1], room) = m[k] \o FirstOf(text, room - Len(m[k]))

\* What the chunks mean, one after the other.
Means(chunks, m) ==
    /\ \A k \in 0 .. Len(chunks) : m[k] \in Seq(1 .. 255) /\ Len(m[k]) \in Nat
    /\ \A k \in 0 .. Len(chunks) - 1 : /\ m[k + 1] = m[k] \o chunks[k + 1].text
                                       /\ chunks[k + 1].text \in Seq(1 .. 255)
    /\ Len(chunks) \in Nat /\ m[0] = <<>>

LEMMA MeaningFacts ==
    ASSUME NEW chunks, NEW p, NEW m, Layout(chunks, p, m)
    PROVE  Means(chunks, m)
<1>1. Len(chunks) \in Nat /\ Len(TextsOf(chunks)) = Len(chunks) /\ IsText(chunks)
  BY TextFacts, BlocksListed DEF Layout
<1>2. /\ \A k \in 0 .. Len(chunks) : m[k] \in Seq(1 .. 255)
      /\ \A k \in 0 .. Len(chunks) - 1 : m[k + 1] = m[k] \o TextsOf(chunks)[k + 1]
      /\ m[0] = <<>>
  BY <1>1 DEF Layout, Concatenated
<1>3. \A k \in 0 .. Len(chunks) - 1 : k + 1 \in 1 .. Len(chunks)
  BY <1>1
<1>4. \A k \in 0 .. Len(chunks) : Len(m[k]) \in Nat
  BY <1>2
<1>5. \A i \in 1 .. Len(chunks) : TextsOf(chunks)[i] = chunks[i].text /\ chunks[i].text \in Seq(1 .. 255)
  BY <1>1, TextFacts, BlocksListed
<1> QED
  BY <1>1, <1>2, <1>3, <1>4, <1>5 DEF Means

LEMMA MeaningGrows ==
    ASSUME NEW chunks, NEW p, NEW m, Layout(chunks, p, m), NEW k \in 0 .. Len(chunks) - 1,
           NEW room \in Nat, Len(m[k]) < room
    PROVE  Adds(m, k, chunks[k + 1].text, room)
<1> DEFINE S == 1 .. 255   x == m[k]   t == chunks[k + 1].text   y == m[k + 1]
<1>0. Means(chunks, m)
  BY MeaningFacts
<1>1. x \in Seq(S) /\ Len(x) \in Nat /\ y = x \o t /\ t \in Seq(S)
  <2>1. k \in 0 .. Len(chunks)
    BY <1>0 DEF Means
  <2> QED
    BY <1>0, <2>1 DEF Means
<1> HIDE DEF S, x, y, t
<1>2. Leading(FirstOf(x, room), x, room)
  BY <1>1, FirstOfFacts
<1>3. FirstOf(x, room) = x
  BY <1>2 DEF Leading, x
<1>4. FirstOf(x \o t, room) = FirstOf(x, room) \o FirstOf(t, room - Len(FirstOf(x, room)))
  BY <1>1, FirstOfConcat
<1>5. x \o <<>> = x
  BY <1>1, ConcatEmptySeq
<1>6. FirstOf(y, room) = x \o FirstOf(t, room - Len(x))
  BY ONLY <1>1, <1>3, <1>4, Zenon
<1> QED
  BY <1>1, <1>3, <1>5, <1>6 DEF Adds, S, x, y, t

AddsTwice(m, k, text, next, room) ==
    LET f == FirstOf(text, room - Len(m[k])) IN
    FirstOf(m[k + 2], room) = (m[k] \o f) \o FirstOf(next, (room - Len(m[k])) - Len(f))

LEMMA MeaningGrowsTwice ==
    ASSUME NEW chunks, NEW p, NEW m, Layout(chunks, p, m), NEW k \in 0 .. Len(chunks) - 2,
           NEW room \in Nat, Len(m[k]) < room
    PROVE  AddsTwice(m, k, chunks[k + 1].text, chunks[k + 2].text, room)
<1> DEFINE S == 1 .. 255   x == m[k]   y == m[k + 1]   z == m[k + 2]
           t == chunks[k + 1].text   v == chunks[k + 2].text
           f == FirstOf(t, room - Len(x))
<1>0. Means(chunks, m) /\ Len(chunks) \in Nat
  BY MeaningFacts DEF Means
<1>1. k \in 0 .. Len(chunks) - 1 /\ k + 1 \in 0 .. Len(chunks) - 1 /\ (k + 1) + 1 = k + 2
      /\ k + 1 \in 0 .. Len(chunks)
  BY <1>0
<1>2. y \in Seq(S) /\ z = y \o v /\ v \in Seq(S) /\ t \in Seq(S) /\ Len(x) \in Nat /\ x \in Seq(S)
  <2>1. m[(k + 1) + 1] = m[k + 1] \o chunks[(k + 1) + 1].text /\ chunks[(k + 1) + 1].text \in Seq(S)
    BY <1>0, <1>1 DEF Means
  <2>2. m[k + 1] \in Seq(S) /\ chunks[k + 1].text \in Seq(S)
    BY <1>0, <1>1 DEF Means
  <2>3. m[k] \in Seq(S) /\ Len(m[k]) \in Nat
    BY <1>0, <1>1 DEF Means
  <2> QED
    BY <1>1, <2>1, <2>2, <2>3
<1>3. FirstOf(y, room) = x \o f
  <2>1. Adds(m, k, chunks[k + 1].text, room)
    BY <1>1, MeaningGrows
  <2> QED
    BY <2>1 DEF Adds
<1>4. room - Len(x) \in Nat /\ f = FirstOf(t, room - Len(x))
  BY <1>2
<1> HIDE DEF S, x, y, z, t, v, f
<1>5. f \in Seq(S) /\ Len(f) \in Nat
  BY <1>2, <1>4, FirstOfFacts DEF Leading
<1>6. Len(x \o f) = Len(x) + Len(f)
  BY <1>2, <1>5, ConcatProperties
<1>7. FirstOf(y \o v, room) = FirstOf(y, room) \o FirstOf(v, room - Len(FirstOf(y, room)))
  BY <1>2, FirstOfConcat
<1>8. room - Len(x \o f) = (room - Len(x)) - Len(f)
  BY <1>2, <1>5, <1>6
<1>9. FirstOf(z, room) = (x \o f) \o FirstOf(v, (room - Len(x)) - Len(f))
  BY ONLY <1>2, <1>3, <1>7, <1>8, Zenon
<1> QED
  BY <1>9 DEF AddsTwice, f, x, z, t, v

\* The state of the loop when it has come to chunk k + 1, and the chunks it comes to.
Station(p, m, k, room) == <<Len(p[k]) + 1, FirstOf(m[k], room)>>
Stop(chunks, k) == k \in {0, Len(chunks)} \/ chunks[k].enc # "none"

\* From one of these states it goes to a later one.
Advances(chunks, p, m, k, room) ==
    \E j \in k + 1 .. Len(chunks) :
        /\ Stop(chunks, j)
        /\ DecodePart(p[Len(chunks)], Station(p, m, k, room), room) = Station(p, m, j, room)

LEMMA HeaderRound ==
    ASSUME NEW chunks, NEW p, NEW m, Layout(chunks, p, m), NEW k \in 0 .. Len(chunks) - 1,
           NEW room \in Nat, Len(m[k]) < room, Stop(chunks, k)
    PROVE  Advances(chunks, p, m, k, room)
<1> DEFINE n == Len(chunks)   parts == p[n]   a == Len(p[k])   b == Len(p[k + 1])
           c == chunks[k + 1]   out == m[k]   left == room - Len(out)
<1>1. n \in Nat /\ IsText(chunks) /\ k + 1 \in 1 .. n /\ k + 1 \in k + 1 .. n
  BY TextFacts DEF Layout
<1>2. Place(chunks, parts, a, b, k)
  BY PlaceFacts
<1>3. Adds(m, k, c.text, room)
  BY MeaningGrows
<1>4. c.enc \in {"none", "Q", "B"} /\ c.text \in Seq(1 .. 255)
  BY <1>1, TextFacts
<1>5. Station(p, m, k, room) = <<a + 1, out>> /\ FirstOf(m[k + 1], room) = out \o FirstOf(c.text, left)
      /\ Len(out) \in Nat /\ out \o <<>> = out
  BY <1>3 DEF Adds, Station
<1>6. Room(parts, a, out, room)
  <2> HIDE DEF parts, a, b, out
  <2> QED
    BY <1>2, <1>5 DEF Place, Room, out
<1>7. Station(p, m, k + 1, room) = <<b + 1, out \o FirstOf(c.text, left)>>
  BY <1>5 DEF Station
<1>8. c.enc # "none" => Coded(c) /\ Stop(chunks, k + 1)
  BY <1>4 DEF Coded, Stop
<1>9. ASSUME Stop(chunks, k + 1),
             DecodePart(parts, <<a + 1, out>>, room) = <<b + 1, out \o FirstOf(c.text, left)>>
      PROVE  Advances(chunks, p, m, k, room)
  BY <1>1, <1>5, <1>7, <1>9 DEF Advances
<1> HIDE DEF parts, a, b, left
<1>10. CASE Follows(chunks, k)
  <2>1. Coded(c)
    BY <1>8, <1>10 DEF Follows
  <2>2. b = a + 2 /\ parts[a + 1] = Gap /\ parts[a + 2] = Sent(c) /\ b <= Len(parts) /\ a \in Nat
    BY <1>2, <1>10 DEF Place
  <2>3. a > 0
    <3>1. k - 1 \in 0 .. n - 1 /\ (k - 1) + 1 = k
      BY <1>1, <1>10 DEF Follows
    <3>2. Place(chunks, p[Len(chunks)], Len(p[k - 1]), Len(p[(k - 1) + 1]), k - 1)
      BY <3>1, PlaceFacts
    <3>3. Place(chunks, p[Len(chunks)], Len(p[k - 1]), a, k - 1)
      BY <3>1, <3>2 DEF a
    <3> QED
      BY <3>3 DEF Place
  <2> HIDE DEF c, out
  <2>4. AtGap(parts, a, out, room, c)
    BY <1>5, <1>6, <2>1, <2>2, <2>3 DEF AtGap
  <2>5. Goes(parts, a, out, room, a + 2, out \o FirstOf(c.text, room - Len(out)))
    BY <2>4, GapRound, Zenon
  <2> QED
    BY <1>8, <1>9, <2>2, <2>5, <1>10 DEF Goes, left, Follows, c
<1>11. CASE ~ Follows(chunks, k) /\ c.enc # "none"
  <2>1. Coded(c) /\ b = a + 1 /\ parts[a + 1] = Sent(c)
    BY <1>2, <1>8, <1>11 DEF Place
  <2> HIDE DEF c, out
  <2>2. AtWord(parts, a, out, room, c)
    BY <1>6, <2>1 DEF AtWord
  <2>3. Goes(parts, a, out, room, a + 1, out \o FirstOf(c.text, room - Len(out)))
    BY <2>2, WordRound, Zenon
  <2> QED
    BY <1>8, <1>9, <1>11, <2>1, <2>3 DEF Goes, left
<1>12. CASE c.enc = "none" /\ k + 1 = n
  <2>1. ~ Follows(chunks, k)
    BY <1>12 DEF Follows
  <2>2. parts[a + 1] = Sent(c) /\ b = a + 1
    BY <1>2, <2>1 DEF Place
  <2>3. b = Len(parts) /\ Stop(chunks, k + 1)
    BY <1>12 DEF b, parts, Stop
  <2> HIDE DEF c, out
  <2>4. AtLast(parts, a, out, room, c)
    BY <1>6, <1>12, <2>2, <2>3 DEF AtLast
  <2>5. Goes(parts, a, out, room, a + 1, out \o FirstOf(c.text, room - Len(out)))
    BY <2>4, LastRound, Zenon
  <2> QED
    BY <1>9, <2>2, <2>3, <2>5 DEF Goes, left
<1>13. CASE c.enc = "none" /\ k + 1 # n
  <2> DEFINE d == chunks[k + 2]   f == FirstOf(c.text, left)   e == Len(p[k + 2])
  <2>1. ~ Follows(chunks, k) /\ ~ Follows(chunks, k + 1)
    BY <1>13 DEF Follows
  <2>2. /\ k + 1 \in 0 .. n - 1 /\ k \in 0 .. n - 2 /\ (k + 1) + 1 = k + 2 /\ k + 2 \in 1 .. n
        /\ k + 2 \in k + 1 .. n /\ k + 2 \in 2 .. n /\ (k + 2) - 1 = k + 1
        /\ (k > 0 => k + 1 \in 2 .. n - 1)
    BY <1>1, <1>13
  <2>3. Place(chunks, parts, b, e, k + 1)
    <3>1. Place(chunks, p[Len(chunks)], Len(p[k + 1]), Len(p[(k + 1) + 1]), k + 1)
      BY <2>2, PlaceFacts
    <3> QED
      BY <2>2, <3>1 DEF parts, b
  <2>4. d.enc # "none" /\ d.enc \in {"none", "Q", "B"} /\ d.text \in Seq(1 .. 255)
    BY <1>1, <1>13, <2>2, TextFacts DEF IsText
  <2>5. Coded(d) /\ Stop(chunks, k + 2)
    BY <2>4 DEF Coded, Stop
  <2>6. ~ Ignored(c.text, a > 0)
    <3>1. CASE k = 0
      <4>1. p[0] = <<>>
        BY DEF Layout, Concatenated
      <4>2. ~ (a > 0)
        BY <3>1, <4>1 DEF a
      <4> QED
        BY <4>2 DEF Ignored
    <3>2. CASE k > 0
      <4>1. ~ Ignored(c.text, TRUE)
        BY <1>1, <1>13, <2>2, <3>2 DEF IsText
      <4> QED
        BY <4>1 DEF Ignored
    <3> QED
      BY <1>1, <3>1, <3>2
  <2>7. /\ a \in Nat /\ b = a + 1 /\ parts[a + 1] = Sent(c) /\ e = b + 1 /\ parts[b + 1] = Sent(d)
        /\ e <= Len(parts)
    <3> HIDE DEF c, d, e
    <3> QED
      BY <1>2, <2>1, <2>2, <2>3 DEF Place, c, d
  <2>8. FirstOf(m[k + 2], room) = (out \o f) \o FirstOf(d.text, left - Len(f))
    <3>1. AddsTwice(m, k, chunks[k + 1].text, chunks[k + 2].text, room)
      BY <2>2, MeaningGrowsTwice
    <3> QED
      BY <3>1 DEF AddsTwice, left
  <2>9. Station(p, m, k + 2, room) = <<e + 1, (out \o f) \o FirstOf(d.text, left - Len(f))>>
    BY <2>8 DEF Station
  <2> HIDE DEF c, d, e, f, out
  <2>10. a + 2 <= Len(parts) /\ parts[a + 2] = Sent(d) /\ e = a + 2
    <3>1. b + 1 = a + 2
      BY <2>7
    <3> QED
      BY <2>7, <3>1
  <2>11. f = FirstOf(c.text, room - Len(out))
    BY DEF f, left
  <2>12. AtPlain(parts, a, out, room, c, d)
    BY <1>6, <1>13, <2>5, <2>6, <2>7, <2>10 DEF AtPlain
  <2>13. Goes(parts, a, out, room, a + 2,
               (out \o f) \o FirstOf(d.text, (room - Len(out)) - Len(f)))
    BY <2>11, <2>12, PlainRound, Zenon
  <2>14. DecodePart(parts, Station(p, m, k, room), room) = Station(p, m, k + 2, room)
    BY <1>5, <2>9, <2>10, <2>13 DEF Goes, left
  <2> QED
    BY <2>2, <2>5, <2>14 DEF Advances, parts
<1> QED
  BY <1>10, <1>11, <1>12, <1>13

\* A later chunk stands further behind.
LEMMA FurtherBehind ==
    ASSUME NEW chunks, NEW p, NEW m, Layout(chunks, p, m)
    PROVE  /\ \A k \in 0 .. Len(chunks) : Len(p[k]) \in Nat /\ Len(p[k]) <= Len(p[Len(chunks)])
           /\ \A k \in 0 .. Len(chunks) : \A j \in k + 1 .. Len(chunks) : Len(p[k]) < Len(p[j])
           /\ Len(p[Len(chunks)]) \in Nat /\ p[0] = <<>>
<1> DEFINE n == Len(chunks)   ss == Blocks(chunks)   S == PartsOf(chunks)
<1>1. IsText(chunks) /\ Concatenated(p, S, ss) /\ Listed(ss, S) /\ Len(ss) = n /\ n \in Nat
  BY BlocksListed, TextFacts DEF Layout
<1>2. p \in [0 .. n -> Seq(S)] /\ p[0] = <<>>
  BY <1>1 DEF Concatenated
<1>3. \A k \in 0 .. n : Len(p[k]) \in Nat
  <2>1. \A k \in 0 .. n : p[k] \in Seq(S)
    BY <1>2
  <2> QED
    BY <2>1
<1>4. \A k \in 0 .. n : \A j \in k .. n : Len(p[k]) <= Len(p[j])
  <2> SUFFICES ASSUME NEW k \in 0 .. n PROVE \A j \in k .. n : Len(p[k]) <= Len(p[j])
    OBVIOUS
  <2>1. \A j \in k .. Len(ss) : /\ Len(p[k]) <= Len(p[j])
                                /\ \A x \in 1 .. Len(p[k]) : p[j][x] = p[k][x]
    BY <1>1, ConcatenatedGrows
  <2> QED
    BY <1>1, <2>1
<1>5. \A k \in 0 .. n - 1 : Len(p[k]) < Len(p[k + 1])
  <2> SUFFICES ASSUME NEW k \in 0 .. n - 1 PROVE Len(p[k]) < Len(p[k + 1])
    OBVIOUS
  <2> DEFINE a == Len(p[k])   b == Len(p[k + 1])
  <2>1. Place(chunks, p[Len(chunks)], a, b, k)
    BY PlaceFacts
  <2> HIDE DEF a, b
  <2>2. a \in Nat /\ b \in Nat /\ (b = a + 1 \/ b = a + 2)
    BY <2>1 DEF Place
  <2>3. a < b
    BY <2>2
  <2> QED
    BY <2>3 DEF a, b
<1>6. ASSUME NEW k \in 0 .. n, NEW j \in k + 1 .. n PROVE Len(p[k]) < Len(p[j])
  <2>1. k \in 0 .. n - 1 /\ k + 1 \in 0 .. n /\ j \in 0 .. n
    BY <1>1
  <2>2. Len(p[k]) < Len(p[k + 1]) /\ Len(p[k + 1]) <= Len(p[j])
    BY <1>4, <1>5, <2>1
  <2> DEFINE a == Len(p[k])   b == Len(p[k + 1])   c == Len(p[j])
  <2>3. a \in Nat /\ b \in Nat /\ c \in Nat /\ a < b /\ b <= c
    BY <1>3, <2>1, <2>2
  <2> HIDE DEF a, b, c
  <2>4. a < c
    BY <2>3
  <2> QED
    BY <2>4 DEF a, c
<1>7. n \in 0 .. n /\ \A k \in 0 .. n : n \in k .. n
  BY <1>1
<1> QED
  BY <1>2, <1>3, <1>4, <1>6, <1>7

\* What there is no room for does not count.
LEMMA NoRoomLeft ==
    ASSUME NEW chunks, NEW p, NEW m, Layout(chunks, p, m), NEW k \in 0 .. Len(chunks),
           NEW room \in Nat, room <= Len(m[k])
    PROVE  FirstOf(m[Len(chunks)], room) = FirstOf(m[k], room)
<1> DEFINE n == Len(chunks)   ss == TextsOf(chunks)   S == 1 .. 255
<1>1. IsText(chunks) /\ Concatenated(m, S, ss) /\ Listed(ss, S) /\ Len(ss) = n /\ n \in Nat
  BY BlocksListed, TextFacts DEF Layout
<1>2. n \in k .. n /\ n \in 0 .. n
  BY <1>1
<1>3. Len(m[k]) <= Len(m[n]) /\ \A x \in 1 .. Len(m[k]) : m[n][x] = m[k][x]
  <2>1. \A j \in k .. Len(ss) : /\ Len(m[k]) <= Len(m[j])
                                /\ \A x \in 1 .. Len(m[k]) : m[j][x] = m[k][x]
    BY <1>1, ConcatenatedGrows
  <2> QED
    BY <1>1, <1>2, <2>1
<1>4. Means(chunks, m)
  BY MeaningFacts
<1>5. m[k] \in Seq(S) /\ m[n] \in Seq(S)
  BY <1>2, <1>4 DEF Means
<1> DEFINE a == m[k]   b == m[n]
<1> HIDE DEF n, a, b, S
<1>6. FirstOf(b, room) = FirstOf(a, room)
  BY <1>3, <1>5, FirstOfLonger DEF a, b
<1> QED
  BY <1>6 DEF a, b, n

\* Each round goes on, or everything is done.
Ahead(chunks, p, m, k, room) ==
    \E j \in k .. Len(chunks) :
        /\ Stop(chunks, j)
        /\ DecodePart(p[Len(chunks)], Station(p, m, k, room), room) = Station(p, m, j, room)
        /\ j = k => FirstOf(m[k], room) = FirstOf(m[Len(chunks)], room)

LEMMA RoundAhead ==
    ASSUME NEW chunks, NEW p, NEW m, Layout(chunks, p, m), NEW k \in 0 .. Len(chunks),
           Stop(chunks, k), NEW room \in Nat
    PROVE  Ahead(chunks, p, m, k, room)
<1> DEFINE n == Len(chunks)   parts == p[n]   a == Len(p[k])   out == FirstOf(m[k], room)
<1>0. Means(chunks, m)
  BY MeaningFacts
<1>1. n \in Nat /\ Means(chunks, m) /\ k \in k .. n
  <2>1. n \in Nat
    BY <1>0 DEF Means
  <2> QED
    BY <1>0, <2>1
<1>2. m[k] \in Seq(1 .. 255) /\ Len(m[k]) \in Nat
  BY <1>1 DEF Means
<1>3. Len(parts) \in Nat /\ a \in Nat
  BY FurtherBehind
<1>4. out \in Seq(1 .. 255) /\ Leading(out, m[k], room)
  BY <1>2, FirstOfFacts
<1>5. ASSUME a + 1 > Len(parts) \/ Len(out) = room, out = FirstOf(m[n], room)
      PROVE  Ahead(chunks, p, m, k, room)
  <2>1. Len(out) \in Nat
    BY <1>4 DEF Leading
  <2> HIDE DEF a, out, parts
  <2>2. DecodePart(parts, <<a + 1, out>>, room) = <<a + 1, out>>
    BY <1>3, <1>5, <2>1, DoneRound
  <2>3. DecodePart(p[Len(chunks)], Station(p, m, k, room), room) = Station(p, m, k, room)
    BY <2>2 DEF Station, parts, a, out
  <2> QED
    BY <1>1, <1>5, <2>3 DEF Ahead, out
<1>6. CASE k = n
  <2>1. a + 1 > Len(parts)
    BY <1>3, <1>6
  <2> QED
    BY <1>5, <1>6, <2>1
<1>7. CASE room <= Len(m[k])
  <2>1. Len(out) = room
    BY <1>4, <1>7 DEF Leading
  <2>2. out = FirstOf(m[n], room)
    BY <1>7, NoRoomLeft
  <2> QED
    BY <1>5, <2>1, <2>2
<1>8. CASE k # n /\ Len(m[k]) < room
  <2>1. k \in 0 .. n - 1
    BY <1>1, <1>8
  <2>2. Advances(chunks, p, m, k, room)
    BY <1>8, <2>1, HeaderRound
  <2>3. \A j \in k + 1 .. n : j \in k .. n /\ j # k
    BY <1>1
  <2> QED
    BY <2>2, <2>3 DEF Advances, Ahead
<1> QED
  BY <1>2, <1>6, <1>7, <1>8

(***************************************************************************)
(* The loop stays in these states, and gets one part ahead at least in     *)
(* each round until nothing changes any more: so it has ended after as     *)
(* many rounds as there are parts.                                         *)
(***************************************************************************)
Stations(chunks, p, m, room) == {Station(p, m, k, room) : k \in {j \in 0 .. Len(chunks) : Stop(chunks, j)}}

\* x is one of them, and the next is further ahead, or x and what is wanted.
Ongoing(A, x, next, end, wanted) ==
    /\ x[1] \in Nat /\ x[1] <= end /\ next \in A
    /\ x[1] < next[1] \/ (next = x /\ x[2] = wanted)

LEMMA StationsFacts ==
    ASSUME NEW chunks, NEW p, NEW m, Layout(chunks, p, m), NEW room \in Nat,
           NEW x \in Stations(chunks, p, m, room)
    PROVE  Ongoing(Stations(chunks, p, m, room), x, DecodePart(p[Len(chunks)], x, room),
                   Len(p[Len(chunks)]) + 1, FirstOf(m[Len(chunks)], room))
<1> DEFINE n == Len(chunks)   A == Stations(chunks, p, m, room)
<1>1. PICK k \in 0 .. n : Stop(chunks, k) /\ x = Station(p, m, k, room)
  BY DEF Stations
<1>2. Ahead(chunks, p, m, k, room)
  BY <1>1, RoundAhead
<1>3. PICK j \in k .. n : /\ Stop(chunks, j)
                          /\ DecodePart(p[n], x, room) = Station(p, m, j, room)
                          /\ j = k => FirstOf(m[k], room) = FirstOf(m[n], room)
  BY <1>1, <1>2 DEF Ahead
<1> DEFINE y == Station(p, m, j, room)   a == Len(p[k])   b == Len(p[j])   end == Len(p[n])
<1>4. n \in Nat /\ j \in 0 .. n
  <2>1. IsText(chunks)
    BY DEF Layout
  <2>2. n \in Nat
    BY <2>1, TextFacts
  <2> QED
    BY <1>1, <1>3, <2>2
<1>5. y \in A
  BY <1>3, <1>4 DEF Stations
<1>6. a \in Nat /\ b \in Nat /\ end \in Nat /\ a <= end /\ (j # k => a < b)
  <2>1. j # k => j \in k + 1 .. n
    BY <1>4
  <2> QED
    BY <1>4, <2>1, FurtherBehind
<1>7. x[1] = a + 1 /\ x[2] = FirstOf(m[k], room) /\ y[1] = b + 1
  BY <1>1 DEF Station
<1>8. j = k => y = x
  BY <1>1
<1> HIDE DEF y, a, b, A, end
<1>9. x[1] \in Nat /\ x[1] <= end + 1 /\ (x[1] < y[1] \/ j = k)
  BY <1>6, <1>7
<1>10. Ongoing(A, x, y, end + 1, FirstOf(m[n], room))
  BY <1>3, <1>5, <1>7, <1>8, <1>9 DEF Ongoing
<1> QED
  BY <1>3, <1>10 DEF y, A, end

LEMMA EndReached ==
    ASSUME NEW A, NEW r \in [Nat -> A], NEW end \in Nat, NEW wanted, r[0][1] = 1,
           \A i \in Nat : Ongoing(A, r[i], r[i + 1], end + 1, wanted),
           \A i \in Nat : r[i + 1] = r[i] => r[i + 2] = r[i + 1]
    PROVE  r[end][2] = wanted
<1> DEFINE T == {i \in Nat : i < r[i][1] \/ (r[i + 1] = r[i] /\ r[i][2] = wanted)}
<1>1. \A i \in Nat : /\ r[i][1] \in Nat /\ r[i][1] <= end + 1
                     /\ r[i][1] < r[i + 1][1] \/ (r[i + 1] = r[i] /\ r[i][2] = wanted)
  BY DEF Ongoing
<1>2. 0 \in T
  OBVIOUS
<1>3. ASSUME NEW i \in Nat, i \in T PROVE i + 1 \in T
  <2>1. i + 1 \in Nat /\ (i + 1) + 1 = i + 2
    OBVIOUS
  <2>2. CASE r[i + 1] = r[i] /\ r[i][2] = wanted
    <3>1. r[(i + 1) + 1] = r[i + 1] /\ r[i + 1][2] = wanted
      BY <2>1, <2>2
    <3> QED
      BY <2>1, <3>1
  <2>3. CASE i < r[i][1] /\ r[i][1] < r[i + 1][1]
    <3>1. r[i][1] \in Nat /\ r[i + 1][1] \in Nat
      BY <1>1, <2>1
    <3>2. i + 1 < r[i + 1][1]
      BY <2>3, <3>1
    <3> QED
      BY <2>1, <3>2
  <2> QED
    BY <1>1, <1>3, <2>2, <2>3
<1>4. end \in T
  <2> HIDE DEF T
  <2> QED
    BY <1>2, <1>3, NatSet
<1>5. ~ (end < r[end][1] /\ r[end][1] < r[end + 1][1])
  <2>1. end + 1 \in Nat
    OBVIOUS
  <2>2. r[end][1] \in Nat /\ r[end + 1][1] \in Nat /\ r[end + 1][1] <= end + 1
    BY <1>1, <2>1
  <2> QED
    BY <2>2
<1> QED
  BY <1>1, <1>4, <1>5

\* What is sent is what is read, as far as there is room.
LEMMA HeaderBack ==
    ASSUME NEW chunks, IsText(chunks), NEW size \in Nat \ {0}
    PROVE  rfc2047_decode(Header(chunks), size) = FirstOf(Meaning(chunks), size - 1)
<1> DEFINE n == Len(chunks)   room == size - 1
<1>1. PICK p, m : /\ Layout(chunks, p, m)
                  /\ Header(chunks) = p[n] /\ Meaning(chunks) = m[n]
  BY LayoutExists
<1> DEFINE A == Stations(chunks, p, m, room)   parts == p[n]   start == Station(p, m, 0, room)
           F == [i \in Nat |-> [x \in A |-> DecodePart(parts, x, room)]]
           wanted == FirstOf(m[n], room)
<1>2. room \in Nat /\ n \in Nat /\ 0 \in 0 .. n
  BY <1>1, TextFacts
<1>3. Len(parts) \in Nat /\ p[0] = <<>>
  BY <1>1, FurtherBehind
<1>4. start = <<1, <<>>>>
  <2>1. m[0] = <<>>
    <3>1. Means(chunks, m)
      BY <1>1, MeaningFacts
    <3> QED
      BY <3>1 DEF Means
  <2>2. FirstOf(<<>>, room) = <<>>
    BY <1>2 DEF FirstOf
  <2> QED
    BY <1>3, <2>1, <2>2 DEF Station
<1>5. start \in A
  BY <1>2 DEF Stations, Stop
<1>6. \A x \in A : Ongoing(A, x, DecodePart(parts, x, room), Len(parts) + 1, wanted)
  BY <1>1, <1>2, StationsFacts
<1> HIDE DEF A, parts, start, wanted, room
<1>7. \A x \in A : DecodePart(parts, x, room) \in A
  BY <1>6 DEF Ongoing
<1>8. PICK r : Run(r, A, start, F)
  <2>1. F \in [Nat -> [A -> A]]
    BY <1>7
  <2> HIDE DEF F
  <2> QED
    BY <1>5, <2>1, RunExists
<1>9. r \in [Nat -> A] /\ r[0] = start /\ \A i \in Nat : r[i + 1] = DecodePart(parts, r[i], room)
  BY <1>8 DEF Run
<1> HIDE DEF F
<1>10. \A i \in Nat : Ongoing(A, r[i], r[i + 1], Len(parts) + 1, wanted)
  BY <1>6, <1>9
<1>11. \A i \in Nat : r[i + 1] = r[i] => r[i + 2] = r[i + 1]
  <2> SUFFICES ASSUME NEW i \in Nat, r[i + 1] = r[i] PROVE r[i + 2] = r[i + 1]
    OBVIOUS
  <2>1. i + 1 \in Nat /\ (i + 1) + 1 = i + 2
    OBVIOUS
  <2>2. r[(i + 1) + 1] = DecodePart(parts, r[i + 1], room) /\ r[i + 1] = DecodePart(parts, r[i], room)
    BY <1>9, <2>1
  <2> QED
    BY <2>1, <2>2
<1>12. r[Len(parts)][2] = wanted
  <2>1. r[0][1] = 1
    BY <1>4, <1>9
  <2> QED
    BY <1>3, <1>9, <1>10, <1>11, <2>1, EndReached
<1>13. rfc2047_decode(parts, size) = r[Len(parts)][2]
  <2>1. r = [i \in Nat |-> r[i]]
    BY <1>9
  <2>2. \A i \in Nat : r[i + 1] = DecodePart(parts, r[i], size - 1)
    BY <1>9 DEF room
  <2>3. r[0] = <<1, <<>>>> /\ Len(parts) \in Nat
    BY <1>3, <1>4, <1>9
  <2> QED
    BY ONLY <2>1, <2>2, <2>3, DecodeEnds, Zenon
<1> QED
  BY <1>1, <1>12, <1>13 DEF parts, wanted, room

-------------------------------------------------------------------------------
(* The notifier with headers.                                              *)

HeadersInv == IsText(subject)

LEMMA EmptyIsText == IsText(<<>>)
  BY DEF IsText

LEMMA HeadersStart == HeadersInit => HeadersInv
  BY EmptyIsText DEF HeadersInit, HeadersInv

LEMMA HeadersStep == HeadersInv /\ [HeadersNext]_headerVars => HeadersInv'
<1> SUFFICES ASSUME HeadersInv, [HeadersNext]_headerVars PROVE HeadersInv'
  OBVIOUS
<1>1. CASE HeadersNext
  <2>1. subject' \in Texts \/ subject' = <<>>
    BY <1>1 DEF HeadersNext
  <2> QED
    BY <2>1, HeadersAssumption, EmptyIsText DEF HeadersInv
<1>2. CASE UNCHANGED headerVars
  <2>1. subject' = subject
    BY <1>2 DEF headerVars
  <2> QED
    BY <2>1 DEF HeadersInv, IsText
<1> QED
  BY <1>1, <1>2

LEMMA HeadersInvDecodes == HeadersInv => DecodesBack
<1> SUFFICES ASSUME IsText(subject), NEW size \in Sizes
             PROVE  rfc2047_decode(Header(subject), size) = FirstOf(Meaning(subject), size - 1)
  BY DEF HeadersInv, DecodesBack
<1>1. size \in Nat \ {0}
  BY HeadersAssumption
<1> QED
  BY <1>1, HeaderBack

(***************************************************************************)
(* What a sender wrote is read, cut to the room there is, for any texts in *)
(* any number of words of either encoding and any size of the destination. *)
(***************************************************************************)
THEOREM DecodesBackAlways == HeadersSpec => []DecodesBack
  BY HeadersStart, HeadersStep, HeadersInvDecodes, PTL DEF HeadersSpec

(***************************************************************************)
(* The headers add nothing to what the notifier does, so that all that was *)
(* proved of it holds of it with headers, too.                             *)
(***************************************************************************)
THEOREM HeadersAreNotified == HeadersSpec => Spec
<1>1. HeadersInit => Init
  BY DEF HeadersInit
<1>2. [HeadersNext]_headerVars => [Next]_vars
  <2>1. HeadersNext => Next
    BY DEF HeadersNext
  <2>2. UNCHANGED headerVars => UNCHANGED vars
    BY DEF headerVars
  <2> QED
    BY <2>1, <2>2
<1> QED
  BY <1>1, <1>2, PTL DEF HeadersSpec, Spec
===============================================================================
