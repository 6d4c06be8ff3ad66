# Verification of ESP-NJE

ESP-NJE is the firmware of an ESP32 that shows information on an NJE-105, a
Japanese LED message board: the time, what foobar2000 plays, the weather, a word
of the day, and new mail. This directory holds TLA+ models of it, the TLC
configurations that check them on small instances, and proofs checked by TLAPS.

## The system

The firmware is a set of FreeRTOS tasks that share a few global objects without
locks.

| part | state | operations | used by |
|---|---|---|---|
| **message manager** `src/nje/message_mgr.cpp` | three bitsets of 99 bits: which message numbers of a kind (normal, commercial, emergency) are in use | reserve, update, hide, remove, remove_all | views, mail callback, state changes |
| **application** `src/main.cpp` | `current_state` (BOOT, IDLE, EXCLUSIVE, OTAFVU), `sys_msg`, `mail_map` | setup, loop, change_state, sercon_line_callback, mail_cb | everything |
| **views** `include/views` | the number each view reserved, what it drew last | update | loop |
| **firmware updates** `src/network/otafvu.cpp` | that of ArduinoOTA | get_ready, on_error, shut_up_and_explode | own task |
| **mail notifier** `src/service/imap/client.cpp` | IMAP state, receive buffer, download queue, `known_ids` | poll, process_line, manual_check, download_one, deinit | one task per account; calls mail_cb |
| **serial console** `src/service/sercon.cpp` | line buffer, write position | its task | calls sercon_line_callback, which waits for the board line |
| **board commands, board line** `src/nje/swif.cpp`, `src/nje/hwif.cpp` | the UART | set_message, delete_message, reset, settings; send_pkt | manager, console, admin panel |
| **admin panel** `src/network/admin_panel.cpp` | none | show the caches, save settings, send settings, reset the board, reboot | own task |
| **network manager** `src/network/netmgr.cpp` | flags of the initial connection, name and password | startup, wifi_event, is_up, connect | setup, which waits for it; events of the WiFi library |
| **foobar2000 client** `src/service/foo_client.cpp` | title, artist, playing, time of the last change | its task | FooView |
| **weather, word of the day** `src/service/weather.cpp`, `wordnik.cpp` | a cache behind a semaphore, the time of the last store, the interval | their tasks, get_current, get_last_update | their views, the panel's page |
| **RFC 2047 decoder** `src/service/imap/rfc2047.cpp` | none | rfc2047_decode | the notifier, for a name and a subject |
| **clock, preferences** | | | |

What is hard about it:

* *Numbers.* `find_next_free` returns the number below the lowest one in use. A
  hidden view's bit is cleared although the view keeps the number; numbers above
  the lowest are never handed out again; `-1` ("ran out") is passed on to
  `bitset::test`, which throws, which restarts the chip. The number 0 also means
  "none" in two places. Whether two owners ever end up with the same message
  depends on the order of all of this.
* *Interleaving.* The main task, the console, the updater and one notifier per
  account call the manager, `change_state` and `mail_map` with no exclusion.
  `current_state` is read first and acted upon later, and assigned after a sweep
  over 99 messages.
* *Restarts.* The board has its own memory and keeps what it shows when the ESP32
  restarts with empty lists.
* *Replies without names.* The notifier tags every IMAP command `A001`, ends IDLE
  with a command whose reply arrives while it already waits for another, and ignores
  what the server reports meanwhile. It keeps a queue, a buffer and a set of message
  numbers across connections, and the server renumbers its messages.
* *Values read piece by piece.* `foo_client` writes the artist before it takes its
  semaphore and the time of the last change after the values; the view reads the time,
  the state, the artist and the title one after the other. A packet to the board is four
  writes that those of another task, or a restart, can cut.
* *Late events.* `wifi_event` sleeps for five seconds in the task that hands out events, so
  what it handles next is about an attempt that is over; the library tries again by itself, too.
* *Parts of lines and answers.* The console starts at the beginning of its buffer again
  whatever it has read behind a line, and reads nothing while it waits for the board. The weather is
  stamped before its last part is stored; the time of the last word is read without its semaphore.
* *Callbacks.* A notifier announces a message and later reports it gone, by a
  number that only means something within one mailbox.

`PROJECT.json` lists each such place by line ("hazards") with the properties that
speak about it.

## The modules

```
MessageNumbers ------------ MessageNumbersProofs
   |                                |
MessageSlots    (abstract)          |--------------------
   |  implemented by                |          |         |
MessageManager ------------ MessageManagerProofs         |
   |         \                                |         |
ManagerCalls  Firmware ------------------ FirmwareProofs  |
   |    \      /  |                                       |
   |    BitWords MCFirmware                               |
   ------------------------------------------ ManagerCallsProofs

ImapNotifier   Rfc2047        NjeLine   SerialConsole        NetworkManager   Feeds
  |     \       /                 \        /                          \        /
  |    ImapHeaders             ConsoleToBoard                        Services     FooClient
  |         |                   |          |                             |            |
  |   MCImapHeaders   MCConsoleToBoard   ConsoleToBoardProofs     ServicesProofs  FooClientProofs
ImapNotifierProofs
```

**MessageNumbers** has the constants of `attribute.h` and the two pure functions of
the manager. A bitset is the set of its set bits; `_Find_first` is `FindFirst`.

**MessageSlots** says what callers may rely on: a slot is granted to a caller, shown
with a content, withdrawn; everything of a kind can be withdrawn at once; a restart
forgets the grants; the display may lose messages on its own.

**MessageManager** is the class as called by one task at a time, one action per
method: `reserved` is the three lists, `board` the memory of the NJE-105 as it results
from the set and delete lines sent. The board is external: it stores what a set line
says, erases what a delete line says, and keeps it across a restart of the ESP32.
What was drawn by an earlier run, or typed on the console, is `Foreign`.

**BitWords** is how a bitset is stored: `WordOf` is the part of a set in the word that holds a
bit, `StoreWord` what the set becomes when that word is written back.

**ManagerCalls** takes the same methods apart: each call is a sequence of reads and
writes of a word of the bitset and of lines to the board, and any number of callers
run them at once. A `set` or `reset` loads a word and stores it back, so a change by
another caller in between is lost. `overlapped` records whether two calls ever were
under way together.

**Firmware** composes the application, the views and the updater around the
manager. `pc` says where each task is: `main` (setup, then loop), `console`, `ota` and
one task per mail account. A step reads or assigns `current_state` or accesses a list of the
manager once. A call of the manager is therefore two steps, and `call` says where each task
is in one: `reserve` has found a number and is to mark it (`mark`), `update` has tested the bit and
is to set it and draw (`draw`), `hide` has erased and is to reset (`reset`), `remove` is to reset once more (`again`).
`call.word` is the word of the list as the first step loaded it, with the bit changed; the second step stores it, and
with it whatever it holds of other tasks' bits. `Show`, `Hide` and `Remove` are the calls as the application makes them. `num` is the number each view holds, `mailMap`
the map of mail_cb, `known` what each notifier has announced. An exception
(`Abort`) stops every task; `Panic` restarts. The environment brings the network up,
lets the clock tick, makes mails appear and disappear in any order, types console
lines, presses the panel's buttons and starts, fails or ends updates. Whether a
service has something new for its view is left open, so the views draw and hide at
any time; the failure branch of WotdView is kept although its semaphore waits for ever.
Two auxiliary variables record that a sweep of exclusive mode or of an update has
begun (`wiped`), that two calls of the manager were under way at once (`raced`), and that two accounts
have dealt with mails of the same sequence number (`collided`). They end what some properties claim, and nothing the code does depends on them.

**MCFirmware** gives Firmware's constants their values for TLC, and defines
`NumbersSpec`, Firmware without the changes of state. The run of it ends a behaviour once it is disturbed
(`CONSTRAINT Undisturbed`) and takes accounts and mails as interchangeable (`Alike`), which they are: every mailbox may
have every mail. The run of the changes of state ends a behaviour once two calls overlap (`Solo`).

**ImapNotifier** is one notifier with the server it talks to. `state`, `known`, `queue`
and `expunged` are the members of the class, `rx` what is in its receive buffer.
`toServer` and `toClient` are the two directions of the connection; `Transmit` is `send`.
An action of the notifier reads one line and does all that `process_line` does with
it, the commands it sends included; while `download_one` waits (`fetching`), every line
but a tagged one is swallowed. The constant `World` names what may happen to it: a
connection that fails or is closed by the server, an outage, a refused command, a
line that arrives in two parts, deleted mail. `Drops` bounds how often a connection ends.

The server is external, and the following is assumed of it: it answers commands in
order, reports changes only while the notifier idles, gives a mail its position in the session's
mailbox as a number, follows EXPUNGE with EXISTS, and completes SEARCH with a line
that holds `OK SEARCH`, as Gmail's does. Of the code these are choices of the model:

* In `download_one` the error of a read is taken for a length and the bytes before
  the buffer are written: the firmware restarts, or each download fails.
* A read of 0, which means a closed connection, is taken for no data: the notifier stays.
* Headers are one line; the blocks they are read in are left out. The callback runs
  at once.
* `download_one` ends at a line with `A001 OK` or `A001 BAD` (`EndsDownload`). A number that is not in the mailbox is answered
  with BAD; after a NO it reads on for ever.
* A failed `connect` runs `deinit`, which deletes the task it runs in.

`shown` records what the callback was last told of each number, `leftover` what
outlived a connection: numbers still in the queue, or a line joined to an old part.

**FooClient** is `foo_task`, the server, and `FooView::update`, with a step for every
access to `artist_buf`, `title_buf`, `play_sts` and `last_recv`. The semaphore is held in
`Held`; the view's reads under it are one step each, and either side's wait may time out
while the other has it. A line is of type 111 (playing), 112 (stopped or paused) or
none of these, or a rest of one that was cut by the boundary of a `recv`; an empty rest makes
`parse_field` return null, and the firmware restart. A socket that cannot be opened restarts it,
too: the function of a task must not return. `now` is the tick count; ticks between
which nothing is stamped are not told apart. `missed` records the cases in which the view has no
reason to look again at what changed.

**Rfc2047** is the decoder: characters are numbers, a header is a sequence of encoded words and the
plain text between them. Every loop is a function that takes the position in the input and what has been written to
the next ones (`Unquote`, `FromBase64`, and `DecodePart` for `rfc2047_decode`), iterated by `Written`; `dlen` is the room
left, `found_encoded` that the part is not the first. The second half is what a sender does: both encodings, words
separated by the space that folding leaves (`Gap`). A text (`IsText`) is a sequence of chunks, sent in a word or as they
are; two chunks of plain text do not meet, and between two words they are more than space, which has no meaning
there. **ImapHeaders** puts it into the notifier: the mail that is announced carries what
its sender wrote (`subject`), and the text the callback is given is compared with it.

**NetworkManager** is `netmgr.cpp` with the WiFi library it is called by, which is external:

* The library queues an event for what happens to the station, and waits while the queue is full.
  When its event task takes STA_DISCONNECTED it clears `status` and may join again by itself, by a
  disconnect (another event) and a begin; then `wifi_event` runs. Both are in `Disconnected`.
* `WiFi.begin` for the network the station is joining or in does nothing.
* `handler = "delay"` is the sleep inside `wifi_event`: events wait, the station goes on.
* `is_up` tests `AP_STARTED_BIT != 0` before the `&`; the bit is the lowest one, so the result is right.

**Feeds** is the weather and the word of the day; `feed` says which one a behaviour follows, since
they share nothing. A cached value is the version of the server's answer each of its two parts
belongs to; `fresh` says that the time of the last store is not the one the view has seen. The weather stamps
between its parts, the word after both; WeatherView copies all of it under the semaphore, WotdView reads the time
before. `save_int`, `Minutes` and `TicksOf` are how an interval is entered, read and multiplied in 32 bits.

**Services** is `setup` with both: it starts the network, waits for `is_up`, opens the panel, starts
the feed, constructs its view. A request can only be answered while the station has an address.
The panel's page takes the feed's semaphore, which does not exist until the feed is started
(`OpenPage`): FreeRTOS asserts, and the firmware restarts. Name and password are saved one by one, and the
power may fail in between. What the preferences hold survives a restart, nothing else does.

**NjeLine** is `send_pkt`: a packet is four pieces (break, time, text, break) that go into
a transmit buffer of the UART driver one by one, waiting for room; a restart empties the buffer and
ends what was being sent. The board, which is external, takes what stands between two
breaks for a line. `coming_in` is what it has received since the last break, `received` the
lines so far that are a packet. `send_utf_string` converts into 129 bytes on the stack and does not look at the
length, nor does `send_pkt` refuse more than 128 (`hwif.cpp:41`). The texts that are longer are `TooLong`: what
is sent of one is `Overlong`, anything but a packet, or the firmware restarts, as the overrun happens to leave it.

**SerialConsole** is `sercon_task`: a line that is typed consists of pieces, the last of which ends in
the newline; `linebuf` is the buffer up to the write position, `rest` what stands behind
`current` in the loop over lines. **ConsoleToBoard** joins it to NjeLine: a line is passed on with
`send_utf_string` (`PassOn`), and the task is in the callback until `send_pkt` returns (`LineDone`). Packets are
then the texts the console may cut, which are `TooLong` if they are of more than `PacketRoom` pieces, and one other task draws.
**MCConsoleToBoard** has a line of two pieces, one of one, and one of three, which fills the buffer and is too long for a packet.

## The runs

| run | question | bounds |
|---|---|---|
| manager | do the lists and the board agree, are grants new, does the class implement MessageSlots | 3 numbers, 2 kinds, 1 content |
| calls | is the class linearizable until two calls overlap; does an undisturbed sweep leave nothing | 3 numbers in words of 2 bits, 2 callers |
| firmware_numbers | do two views, the greeting and the mails of two accounts share four numbers without collision, and has all that is shown somebody to take it down, through exhaustion, abort and restart | 4 numbers, 2 views, 2 accounts, 2 mails that may be in either mailbox |
| firmware | who may leave which state; is the display really given up; does a sweep find all that is shown | 2 numbers, 1 view, 1 account, all changes of state |
| firmware_live | does giving up take hold, does the time come back, does the application use the manager as it is specified | 3 numbers, 1 view, raw lines, all changes of state |
| imap_session | is every reply taken for its command's, is IDLE always ended, are exactly the unread mails announced | 3 mails, 2 numbers in a line, everything of `World`, 2 connections that end |
| imap_live | is mail announced, with what its sender wrote, and read mail withdrawn in the end | 3 mails, 1 connection that fails; some 600 headers, 6 sizes of the buffer |
| imap_reconnect | *(violated)* does the notifier reconnect when it has lost a connection | 1 mail, 1 outage, 1 lost connection |
| imap_expunge | *(violated)* is only mail withdrawn that has disappeared or was read | 3 mails, deletions |
| foo_client | does the board come to show what is played, artist and title of one track | 2 tracks, 2 changes, 1 loss, cut or missing socket |
| serial | are lines never joined, does an undisturbed packet arrive as a line, does send_pkt return, does what is typed reach the board | 2 of 3 lines, buffer of 3 pieces, packet of 2, receive buffer of 2, transmit buffer of 1, a drawing, a restart |
| services | does setup get past its wait, is a lost network joined again, does the board come to show one whole, last answer | 3 changes of range, 2 events queued, 2 answers, 2 restarts; every interval |

*Why the bounds are enough.* Two views, the greeting and two mails want five of four numbers,
so every order of allocation reaches the end of the list, and the two accounts' callbacks meet
inside each other, with one number or two. Three numbers and words of two bits put two numbers in one word and
one in another. In Firmware all numbers are in one word: what is in two can only disturb each other less.
One view is enough for the state runs: what matters is a task that has
seen IDLE and draws later, and TimeView is the one that is always drawn; it and a mail are two owners of two numbers. firmware_live has no
account: with one it is too large, and what an account's task may call is proved for every number of them (UsesManagerAlways). Three mails are the
fewest with one before and one behind a deleted one, and more than fit into a line
of two. Two ended connections let one leave something behind in the attempt that
follows another. Three lines of the player (at connection and two changes) put two
of them into one tick, one block, or one update of the view. A line and
a drawing meet inside send_pkt in every way, and room for one piece stops a writer after each write; a line
of two pieces may be read in two parts or with the beginning of another, and one restart leaves
something half sent before a packet that must arrive. Three changes of range take a network away,
bring it back and take it away again; two events are one the handler sleeps over and one behind it. The
headers have all lengths about one group of base 64, characters each encoding escapes, and up to three
chunks, so that a word and space come first, between and last.

With `Foreign` and `Blank` given the same value a foreign message counts as erased; the
firmware never reads the board, and firmware_live, where raw lines matter, tells them
apart. Deadlock is not checked in the runs of ImapNotifier, FooClient and ConsoleToBoard: a notifier whose task
has been deleted, a client whose server has closed the connection, or a console whose buffer is full does stop,
and so does everything once the bounded changes are used up.

*What the properties except.* What the code does not give is said in the properties, not left out of the models.
NoSharing and SlotShowsOwner speak of the time until one of three things has happened: a sweep
of exclusive mode has emptied the list of numbers that views keep (`wiped`); two calls of the manager have been
under way at once (`raced`), so that both may reserve one number or a word stored late undo the other's bit; or two accounts
have dealt with one sequence number (`collided`), under which `mail_map` has one entry: when message 1 disappears
from one of two mailboxes, that of the other stays for good, or is taken over. After each the code does share numbers
or leave messages behind. SlotShowsOwner also
says nothing of number 0, which mail_cb and TimeView take for "none": the mail or greeting that was given it stays.
SweepsFindAll and UsesManager speak of the time until calls overlap, for the same reason. UpdateStays names who may
end an update's mode: a restart, and whoever was inside a change of state when it began (`Belated`), since
`current_state` is assigned last: setup or the console then gives the display back while the update goes on. Accurate leaves out mailboxes that mail was deleted from,
a list of unread mail longer than the buffer, and numbers found before a connection was lost.
ShowsPlayed and IsShown leave out the cases of `missed`: a line cut in two, a second change in the tick
the view has just seen, `play_sts` cleared after the view has acted on the stamp that precedes it,
and waits that time out. `PROJECT.json` lists each as a hazard.
Echoed is about lines that fit into the buffer and a packet and begin to arrive when all before have been read: what comes with the end
of another line is lost in part, and a line that fills the buffer without an end leaves the console deaf. UntornArrives is about packets of at most 128 bytes. It leaves out pieces the
receive buffer had no room for and packets that another task's writes were mixed into. SetupGoesOn leaves out a network that gave an
address and stays away while setup waits: neither the access point nor an end of the wait comes.
IntervalsKept claims an interval is kept up to 71 minutes only; from 72 on the product wraps, so the default
of the word of the day, 120 minutes, is 48, and 859 minutes are half a second.

In the violated runs the code is taken as it is:

* *imap_reconnect*: a connection is lost: the read of it fails, and `client.cpp:87` logs "mbedtls_ssl_read returned
  -0x%x, will reconnect". The network is still down when the notifier connects again. `connect` fails and calls `deinit`, which deletes the notifier's own task
  (`client.cpp:561`). No mail is announced until a restart.
* *imap_expunge*: three unread mails; the first is deleted, so the others become 1 and 2, while
  `known_ids` keeps 2 and 3. A change of the third, now 2, withdraws the notification of the
  second. `client.h:33` says the callback reports messages that disappeared.

## Fairness

FreeRTOS runs tasks of one priority in turn, and the main task, which has the highest, yields
in every `delay` and UART wait; so each task's own steps are weakly fair.

* firmware_live: every task; also that the network comes up and the clock goes on (`WF(WifiUp)`,
  `WF(Tick)`), which setup and TimeView wait for. Nothing is assumed of mail, operators,
  the panel or updates.
* imap_live, imap_reconnect: the notifier; the server answers and reports in time; an outage
  ends. Nothing is assumed of the mailbox. That a connection fails is never assumed.
* foo_client: `foo_task`, in which a connection succeeds in the end, and the view. Nothing is
  assumed of the player. That the semaphore is given back follows from the first.
* serial: the console, setup and the writers go on, the UART sends, the terminal sends what has been typed.
  Nothing is assumed of what is typed or drawn, nor that the ESP32 does or does not restart.
* services: setup polls for ever; the event task goes on; an attempt to join ends, a network the station is in
  gives it an address, one that has gone is noticed; the feed's task and its view run. Answers do
  not fail for ever while the station is online (strong fairness of a successful `Fetch`). The view is strongly fair: FreeRTOS gives
  a semaphore to the task of the highest priority that waits, and the view's is the highest there is.

## The proofs

`MessageManagerProofs`, for every `MsgCount` from 1 to 126, every set of kinds and
every set of contents:

* `TypeCorrect`, `ShownIsReservedAlways`, `GrantsAreNewAlways`: `Spec` implies that the types
  hold, that whatever this run has on the board has its bit set, and that reserve
  hands out only numbers that are neither taken nor shown. The inductive invariant is
  `TypeOK /\ ShownIsReserved`: GrantsAreNew follows in each step because the number found is below
  all that are taken (`FindNextFreeFacts`), and what is not taken is not shown.
* `Refinement`: `Spec => ImplementsSlots`, step by step. remove_all, which erases the messages
  whose bits it finds, withdraws *everything* only because of ShownIsReserved.

`ManagerCallsProofs`, for any callers, any width of a word, any number of messages:

* `TypeCorrect`. The loop of remove_all is the only place where a number may be beyond the last
  (`CallOk`): it is tested before the number is used.
* `LinearUntilOverlapAlways`, `SweepLeavesNothingAlways`, from `SoloInv`: while calls have not overlapped, one
  task at most is in a call (`Alone`), and its call is in step with its list (`InStep`): the word it has loaded is
  the list's, reserve still stores the number `find_next_free` gave, remove_all has left no bit below the
  number it is at. Each statement then either changes nothing of `Settled`, the lists as far as calls have
  taken effect (`Silent`), or is the one with which reserve, update or hide takes effect (`Reserves`,
  `Draws`, `Erases`). What is on the board is in `Settled` (`Shown`), so a sweep that has left no bit has left no message.

`FirmwareProofs`, for any numbers, accounts, mails, views and raw lines:

* `TypeCorrect`: every variable of the application keeps its type. The invariant is TypeOK with
  what it needs of the places the tasks are at; one lemma per action.
* `UpdateStaysAlways`, `DisplayFrozenAlways`: action properties for which the types are enough, since a task
  draws only from a place it gets to by reading IDLE, and DisplayFrozen waits for those that are at one.
* `UsesManagerAlways`, `ManagerRefined`, from `SysInv` and `CallInv`: until calls overlap (`raced`), one task at most is in a
  call (`OneCall`), and its call is in step with the list (`InSync`): the word to be stored is the list's with one bit
  changed, and what `reserve` found is still free. So each step is an operation of MessageManager on `Settled`, the lists as far as the calls under way
  have taken effect, or none, and the application without a race is a behaviour of MessageManager, hence of MessageSlots.
* `SweepsFindAllAlways`: until then what this run has on the board has its bit set, so a sweep leaves nothing of it. It follows from the
  refinement and from what each operation of MessageManager does (`ManagerMarks`).

* `NoSharingAlways`, from `SharingInv` on top of these. The time's number lies below those of the other views, since
  TimeView is constructed last, and is never given back (`TimeTaken`, `ViewsAbove`); so a number that a hidden view
  keeps, and that counts as free, lies above it, while `reserve` hands out the one below the lowest in use (`RestTaken`:
  what the greeting and the mails hold has its bit set, or is being erased, `Leaving`). `LinkedMain` and `LinkedMail` tie a call to the place
  that makes it. `reserve` finds a number in one access and marks it in a later one; that it is still nobody's rests on `OneCall`.

SlotShowsOwner is only model-checked.

`ServicesProofs`, for any number of changes, versions and restarts and any room in the queue of events:

* `ShownWholeAlways`, `ShownCurrentAlways`, from `FeedInv` (`FeedCorrect`): the parts of the cache differ only
  while the task holds the semaphore between its stores (`Parts`), and a store not yet drawn shows in the
  stamps, or WotdView has compared these already and is still to copy (`Stamped`, `Current`). ShownCurrent
  alone is not inductive: that the weather may stamp before its last part needs `Parts` and the semaphore.
* `TypeCorrect`, in which the length of the queue is what needs proof (`Short`): events are added while there is room,
  but `ap_fallback` adds up to three at once to a queue it has taken one from, and the station is off afterwards, so it does so once.
* `IntervalsKeptAlways` is arithmetic, for every interval a preference can hold (`EveryIntervalKept`): up to 71 minutes the
  product stays below 2^32, and a wrapped one is smaller than the true one. `Bits`, `Settings` carry it to the state.
* `SomeoneRetriesAlways`, from `NetInv`: SomeoneRetries says nothing before the first address is dealt
  with, so `Attempt` says what is queued until then: no loss while the station joins, every address in front of
  every loss, and a loss behind an address if the station has gone again.

`ImapNotifierProofs`, for any number of mails, lost connections and lines in parts:

* `TypeCorrect`. That a number the server reports is one of `Numbers` needs that no mail has two positions
  (`Distinct`) and that a sequence without repetition is no longer than the set it is of.
* `OwnReplyAlways`, `IdleIsEndedAlways`, from `DialogueInv`: for each state of the notifier, what may be under way in
  the two directions of an open connection (`OnConnect` to `OnIdle`), and that nothing is if it is not open (`Lost`). While
  the notifier waits for SEARCH, the replies to IDLE, and to SELECT behind a line that was joined to an old
  part (`Stale`), may precede it, but none that it would take for the one to SEARCH.
* `AccurateAlways`, from `AccurateInv` on top of these. Accurate speaks of quiet states only; what leads to them is that a set of
  numbers `Fits` the unread mail of the view, up to what lines on their way still tell (a mail read, new mail), and that it is
  the set of the numbers known, found or asked for (`Kept`), unless the line did not hold it (`Agrees`). `Staged` says for each
  state where that set is: in the server's reply behind lines without meaning, in `queue` while the reply ends, in `Kept` while
  headers come and while the notifier idles. `Mailed` says that a line tells nothing untrue of the mailbox; `Early`, that a
  connection begins with an empty queue. That a set that does not fit the line is larger than `LineIds` unread mails
  is again counting. Deletions and a queue that outlives a connection, which Accurate excepts, cannot be undone
  but by a restart, which clears all (`CleanStep`).
* `DecodesBackAlways`, for any texts and any size of the buffer, from `HeaderBack`. A loop is a recursion over the naturals, of
  which the provers know nothing, so its values are those of a run (`Run`), which exists and is unique since `<` is well
  founded. Each round of an inner loop takes back a character or a group of three (`AllEscaped`, `Groups`, `Split`
  and `Rejoined` for the bits), so a word means what it was made of. The rounds of `rfc2047_decode` stay in the states in
  which some chunks are dealt with and what there was room for is written (`Stations`), and each goes on by a part at least,
  unless the input or the room is at an end: after as many rounds as there are parts it is.
* `HeadersAreNotified`: with headers it is still the notifier, so all of the above holds with them.

`FooClientProofs`, for any number of changes and losses:

* `TypeCorrect`; `ShowsPlayedAlways`, from `FooInv`. A line in work is in the buffers as far as `foo_task` has come (`InWork`),
  the newest line that was not handled is of what is played (`UpToDate`), and what a view has read since it saw the last stamp is
  the status (`Seen`), unless `foo_task` is about to stamp again. `Failed` is about a socket failure, where the
  stamp precedes the clearing of `play_sts`: a view that has seen it already is one of the cases of `missed`.

`ConsoleToBoardProofs`, for any writers, packets, lines and buffer sizes, if
what the console can cut off is among the packets (`CutsAssumption`):

* `UntornArrivesAlways`, of packets that are not `TooLong`, while others may be. `LineInv` speaks of `Sent`, what the board is receiving and what the buffer holds
  behind it: the packet of an undisturbed task is its end, as far as it is written (`Undisturbed`), and a written one
  is in it or has arrived (`Arrives`). When a break is sent, the board forgets what precedes it; that no packet is lost
  by that needs that it has received no other break since (`OneBreak`, `BreakFacts`). It is proved of NjeLine by itself,
  and every behaviour of the system is one of NjeLine (`LineOfSystem`).
* `NeverJoinsAlways`. `ConsoleInv` speaks of `Stream`, everything typed that is not yet cut, in order: of two pieces side by
  side the first ends its line, or the second continues it, or pieces of it were lost (`Linked`). Cutting, giving up
  and restarting leave an end of it, and losing a piece leaves it linked (`LoseOne`).
* `SystemTypeCorrect`: no buffer outgrows its size, and between reads the console holds no line.

The modules about the manager and the application rest on lemmas about the numbers in `MessageNumbersProofs` (`HwIdInjective`,
`LeastExists`, `FindFirstIsLeast`, `FindNextFreeFacts`); that a set of numbers has a least element comes from
the library's theorem that `<` is well founded on the naturals.

The constants are assumed to be what the runs and the code make them: what this run draws is neither an erased nor a
foreign message (`ContentsAssumption`, `FirmwareAssumption`, `CallersAssumption`), counts are natural numbers and sizes positive
(`MsgCountAssumption`, `WordBitsAssumption`, `LineAssumption`, `FooAssumption`, `ImapAssumption`, `ServicesAssumption`); what senders write is text in the above sense (`HeadersAssumption`).

Only model-checked: liveness, which is out of the prover's reach (in firmware_live, imap_live, foo_client, serial
and services).

## Not modelled

See "components" in `PROJECT.json`. Texts, attributes and character sets are data no
property depends on. Undefined behaviour of two tasks inside `std::map` at once is not
modelled: the map's operations are atomic here. `NetworkManager::connect`, `weather_stop` and the demo mode are
called by nobody. A DHCP server that never answers, encoded words that are malformed or cut by the 64 bytes of
`name` (`client.cpp:197`), and the blocks of a header are left out. The console writes a 0 one byte behind a full
buffer, which changes nothing it reads. UTF-8 to Shift JIS is a third party's table; only that it writes as much as it is given is modelled (`Overlong`).

## Plan

1. Firmware with the callbacks of an abstract ImapNotifier: `known` and the numbers it
   reports after EXPUNGE against `mail_map`.
