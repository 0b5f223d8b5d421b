# avb-applications in TLA+

A TLA+ development kept beside the Renesas R-Car AVB applications: modules that
model the programs' control, TLC configurations that check them on small
instances, and TLAPS proofs of what matters most for instances of any size.
Source paths below are relative to `src/avb-demoapps/`.

1. [The system](#1-the-system)
2. [The modules and the code](#2-the-modules-and-the-code)
3. [What TLC checks](#3-what-tlc-checks)
4. [What is proved](#4-what-is-proved)
5. [What the checks found](#5-what-the-checks-found)
6. [What is not modelled](#6-what-is-not-modelled)
7. [Plan](#7-plan)

To check a configuration: `tlc -config AcmpListener.cfg MCAcmpListener`. To check
the proofs of a module: `tlapm AcmpListenerProofs.tla`.

## 1. The system

An AVB network carries streams from talkers to listeners. Three protocols prepare
them: AVDECC finds the stations and connects their streams, MSRP reserves the
bandwidth, and a kernel driver transmits and receives the packets. The repository
holds a library or a program for each, and a launcher that combines them.

| component | state | operations | talks to |
|---|---|---|---|
| **ACMP listener** `lib/avdecc/acmp.c` | per sink a stream info slot (connected, talker, private unique id); a table of 4 commands in flight with deadline and retry flag | five message handlers, a timeout pass | controllers and talkers by multicast frames; the application polls the slots |
| **ACMP talker** `lib/avdecc/acmp.c` | per source a linked list of connected listeners and a 16 bit `connection_count` | four message handlers; setters of stream id, address, VLAN | listeners, controllers; the application polls the count |
| **ADP** `lib/avdecc/adp.c` | request flags, reannounce timer, link state, grandmaster ids | advertise, answer discovery, depart | the network; called by the monitor thread and by the application |
| **AVDECC context** `lib/avdecc/avdecc.c` | `data_lock`, the monitor thread, halt flag, socket | select loop that runs ADP, AECP and ACMP under the lock; setters (locked), getters (unlocked) | the application's threads |
| **AECP** `lib/avdecc/aecp.c` | none | answers READ_DESCRIPTOR from descriptors fixed at start | controllers |
| **entity description** `lib/avdecc/avdecc_entity.c`, `common.c` | descriptors, filled once | YAML parsing, raw socket set-up | start of the program |
| **MSRP client** `lib/msrp` | table of 8 listeners and its counter, `talker_found`, halt flag, UDP socket | monitor thread; advertise, ready, leave, query, destroy | the external daemon mrpd; the application polls counter and flag |
| **mrpdummy** `mrpdummy/mrpdummy.c` | one MSRP context, `sigint` | reserve as talker or listener, hold, withdraw | MSRP client; its parent reads "reservation completion" from a pipe |
| **stream device ring** `demo/common/eavb_device.c`, `lib/eavb` | `rp`, `wp`, `remain`, `filled`, entry buffer | push and take entries, in two parts where they pass the end | the driver's FIFO |
| **simple_talker, simple_listener** `demo/simple` | fill position `p`, sequence number, `read_end`, repeat count | process loops from or to a file | stream device, MSRP client |
| **avblauncher** `avblauncher/avblauncher.c` | per stream a thread, child processes, flags shared with main; MAAP reservation; lists of domains and contexts | start daemons, reserve, connect, stream, disconnect, clean up | every other component |
| **avbtool** `avbtool/avbtool.c`, **AVTP accessors** `lib/avtp`, demo helpers | none worth the name | ioctls, bit fields, wrappers | |

How they interact: the AVDECC monitor thread owns ACMP, ADP and AECP and takes
`data_lock` once for each turn of its loop; the application (avblauncher) polls
`avdecc_get_connection_count` and
`avdecc_get_connected_from_listener_stream_info` without the lock and starts or
stops streaming by them. The MSRP monitor thread owns the table of listeners; the
application polls `msrp_exist_listener` and `msrp_exist_talker`. Between stations
there are only frames, which may be lost, repeated, delayed or reordered.

What is hard, and what makes each component correct:

- *ACMP listener.* Several commands for one sink in flight at once; answers that
  come late, twice or from the wrong talker; a table of four slots; a retry. A sink
  must be bound only by an answer to a live command, never be rebound under the
  stream, be released only for the stream it has, and the controller must be told
  the truth, once, for each command.
- *ACMP talker.* Lists whose records are freed; allocation that fails in the
  middle; a 16 bit count that is decremented without a test. Removing one listener
  must take no other along, and the count must stand for the listeners.
- *ACMP as a whole.* Controllers, listener and talker must agree when the network
  is quiet; a command must be answered.
- *MSRP client.* Notifications and answers to queries mix in one bounded socket;
  notifications are repeated and lost, and some are about other streams. The counter
  must be the number of stations in the table, nobody may be kept for ever or
  missed for ever.
- *AVDECC context.* A lock that error paths keep; a halt that must still send
  ENTITY_DEPARTING; getters and a setter without the lock. Calls must return, a frame
  must be answered from one setting of a stream, the context be freed unused.
- *ADP.* The last that is heard must be the departure; a grandmaster id that is written
  while it is read, or announced while the link is down, must become known in the end.
- *Ring and process loops.* Partial transfers, wrap-around, end of file, SIGINT with
  packets in the driver: no packet in the driver's hands may be overwritten, none
  lost or repeated.
- *avblauncher.* Threads, children and signals: every reservation is withdrawn,
  every child ended, every id released, on every error path.

`PROJECT.json` lists these as hazards, each at its line, with the properties that
cover it.

## 2. The modules and the code

| module | models | its code |
|---|---|---|
| `AcmpTypes` | ACMP frames, message types, statuses | `avdecc_internal.h`, `acmp_tx_*` |
| `LinearSearch` | the loops that stop at the first (or keep the last) match | all table searches |
| `AcmpListener` | the listener state machine | `acmp.c` |
| `AcmpSink` | *abstract*: what an application sees of a sink | refined by `AcmpListener` |
| `AcmpTalker` | the talker state machine | `acmp.c` |
| `AcmpNetwork` | controllers, a listener and a talker on one network | composition of the two |
| `Msrp` | the MSRP client, its monitor thread and mrpd | `lib/msrp` |
| `Adp` | announcing, being discovered and departing | `adp.c` |
| `Avdecc` | monitor thread, application thread and `data_lock`, over `Adp` | `avdecc.c` |
| `CInt` | an `uint64_t` assigned to an `int` | `framenums` in both loops |
| `EavbDevice` | the ring of entries and the driver's queue | `eavb_device.c`, `lib/eavb` |
| `SimpleTalker` | the talker's loop, over `EavbDevice` | `simple_talker.c` |
| `SimpleListener` | the listener's loop, over `EavbDevice` | `simple_listener.c` |
| `MrpDummy` | the child that reserves a stream | `mrpdummy.c` |
| `Launcher` | avblauncher: main and its threads, over `MrpDummy` | `avblauncher.c` |
| `MC...` | bounds for TLC | |
| `...Proofs` | theorems for TLAPS | |

**AcmpListener.** `infos` is `acmp_listener_stream_infos` and `inflight` the table
`acmp_listener_inflight_commands`, with `NoCommand` where the timeout field is 0; `tx`
holds the frames the last step gave to `send_data`, so that properties can speak of
them. A step is one handler, since the monitor thread runs each under `data_lock`.
The five handlers keep the code's names. Searches by unique id go over the slots'
*private* copies of the id: validity is tested against the descriptors
(`ValidListenerUnique`), lookup against the slots (`SlotsNamed`), and the two come
apart because `acmp_remove_listener_stream_info` clears a slot with `memset`, its
unique id included (`Removed`). A refused `send_data` is a choice (`sent`). Deadlines
are abstracted: `StatePass` lets any set of armed commands expire, each with its
retransmission sent or refused. The network is open: any message of `Inputs` may
arrive at any time, which includes loss, duplication, reordering and answers nobody
asked for.

**AcmpTalker.** `pairs` is the list of live records of each source, `dangling` says
that the last of them still points at a freed one: `acmp_remove_listener_pair` relinks
neither the head (it changes its own copy of the head pointer, so the head record
stays, `Unlinked`) nor the tail's predecessor (`DanglingAfter`). A walk along such a
pointer is undefined in C; the model then stops and claims nothing more
(`monitor = "undefined"`). `Allocations` holds the outcomes of `calloc`, a failed one
drops the list (`DropList`). `CountRange` is 65536 in the code.

**AcmpNetwork** instantiates both with a set `net` of frames in transit.
`ListenerReceives` and `TalkerReceives` are the handlers with the frame taken from and
the output put into `net`. Controllers are external: they have one command
outstanding, sinks of their own, and the care the module's comment describes. `Lossy`
lets frames between listener and talker vanish and timeouts fire.

**Msrp.** `devices` and `listeners` are the table and the counter of `struct
msrp_ctx`, `talker_found` and `halt_flag` its flags, `thread` the state of the monitor
thread and `inbox` the datagrams in its socket. `Receive` is `recv`, `msg_process` and
the attribute's handler in one step: the application reads a single word of what it
changes (the counter, or `talker_found`). External: `declared` and `talker`, what the
stations declare for the context's stream; mrpd, which notifies a client it has heard
of (`known`) and answers a query (`queried`) with one datagram per declaration, in any
order, or with one datagram for all, which the client reads the first declaration of
(`AnswerDatagrams`); the socket buffer, which drops what does not fit. `Parsed` is what
the parser lets through: `parse_msrp_query` looks for the state of a declaration behind
a second "R=", so an answer that has but one declaration is dropped, and one with more
(`more`) is handed on. Three history variables serve the properties alone: `dropped`,
`complete` (the last query's answer and everything after it fitted) and `heard` (the
stations whose last notification about the stream fitted). Declarations keep only what the code tells apart, the substates up to and above `asking_failed`.

**Adp and Avdecc.** `Adp` has the state of `adp_state_process` and the parts it consists of;
`Avdecc` puts them into the places of the monitor thread (`monitor`) and adds the
application's thread (`app`, with what its call has still to write, `todo`, and from
which `value`). The application calls the functions of `avdecc.h` in any order, which
contains avblauncher's. Between `Lock` and `Return` the thread holds `data_lock`, so its
steps are split only where it reads what is written *without* the lock: `halt_flag` at the
beginning and at the end of a pass, and the grandmaster id, which is compared
(`Check`), copied (`CopyGrandmaster`) and sent (`SendAvailable`) while
`adp_set_grandmaster_id` writes it byte by byte (`WriteGrandmaster`, two parts stand for
the bytes). `departed` and `heard`
are what has left the host. `stream_info` holds for each field the call that set it, which
tells mixtures apart. The paths that keep the lock are there: `CheckFails`,
`SetterFails`, `Return` after a halt, and `Receive` into the endless loop of
`acmp_talker_state_machine` (section 5, 1).

**EavbDevice and SimpleTalker.** `rp`, `wp`, `remain`, `filled` and `entrybuf` are those of
`struct eavb_device`; `queue` is the external driver's, of which it has sent `done`. An
entry is known by the page it names. One action stands for each part of `process_loop`:
`Wait`, `Fill`, `ReadFails` or `AllocFails` (`talker_process`), `Push`, `Take`, and `Stop` or `Continue` for the
tests at the end of a turn. The file is a sequence of portions of one packet each; a
read returns as many as there is room for or are left, or from a `pipe` fewer. `page` and
`number` are what the pages hold. In mode "poll" the driver may accept or return
anything, in "nowait" at least one entry, in "waitall" all. `disturbed` remembers what
the order of packets does not survive: a driver that accepts a part only or announces
room when it has every entry, and a read or an allocation that fails. The limit is the option
`framenums` (`uint64_t`) as an `int` (`ToInt`): a large one may become another, none, or negative, and then
the first push fails.

**SimpleListener** is `filedump_loop` over the same ring, again with one action for each of its
parts: `Wait`, `Push`, `Take`, `Process` once for each packet taken, `WriteOut` for the `writev` that
follows, `Check`. Packets are known
by the order in which the talker sent them; `Receive` puts the next one into the oldest
empty entry, `Lose` drops it. `page` is what each page holds, `p` the position
`filedump_process` reads from, which moves apart from `rp`: `take_entry` gives the whole batch back to
the application before its first payload is read. `error` and `seqno` are those of
`verify_1722packet`. `seen` are the packets `filedump_process` has looked at, `iov` how many of the last
ones it has gathered. `WriteOut` puts any number of these into the file (`written`) and counts the others
(`unwritten`): an error of `writev` leaves out all, a short write a part, and neither is noticed, as
the check `ret < -1` never holds. `AllocFails` is the return without memory, which counts what was
taken as `dropped` and leaves `p` behind. `TakeFraction` is an error of `take_entry` in the mode that waits
for all: the device is set to wait for one (`blocking`), for good, and asked again. Other errors of
the driver, and a negative limit, end the loop (`DriverFails`).

**MrpDummy and Launcher.** `Launcher` has the state of `main` (`main`, `orders`, the MAAP
reservation), of one `streaming_thread` for each context (`pc`, the stages of the function by
the names of what they do, `Stages`) and of the application each thread forks (`app`);
`MrpDummy`, which it extends, that of the mrpdummy which each thread forks for its reservation. A
context's stages follow from its configuration (`HasStage`, `After`), so the order in which
`streaming_thread` tests `use_avdecc`, `use_gptp` and `use_srp` is in one place. Exits by the
label `end` are "bailed": they pass by the clean-up. `Interrupt` is SIGINT from the
terminal. It reaches every process; in the launcher one thread takes it, and only that
one's `read` or `waitpid` returns EINTR (`Interrupted`), which is why `wait_child_process` may return
before its child has ended. A child between `fork` and `exec` has its parent's handler and
loses the signal, one between `exec` and `signal` is ended by it (`Signal`). The line "reservation
completion" goes through the child's buffer (`stdout`) before it is in the pipe, since stdio does
not flush a pipe at the end of a line. `Connect` computes the commands that join
the VLAN and the domains as `connect_avb_network` does, and `Registered` what mrpdummy makes of the class and the
priority it is given. A release of the MAAP address may fail to be sent or be refused, which nobody
looks at: maap_daemon then keeps the reservation (`Released`). `MonitorStops` ends the AVDECC thread with `data_lock`, and `Manage`,
whose calls take the lock, then waits for ever. Two histories serve the properties: `made`, mrpdummy
has made the reservation, and `deaf`, SIGINT came before the application was executed. MAAP's answers, mrpd's notifications, connections over AVDECC and the ends
of applications are external.

Definitions commented "Mutant:" are variants of the definition that follows them, with a
mistake in it; they are not part of any specification, and show what the properties
notice.

## 3. What TLC checks

| run | module | bounds | what it shows |
|---|---|---|---|
| `acmp_listener` | `MCAcmpListener` | 2 sinks, table of 2, 2 talkers with 2 sources, 2 sequence ids, one id no sink has | six properties of the listener against every message in any order |
| `acmp_talker` | `MCAcmpTalker` | 1 source, 2 listeners with 2 sinks, lists up to 4, count modulo 8, `calloc` may fail | lists and counts under every sequence of commands |
| `acmp_talker_loop` | `MCAcmpTalker` | the same | *violation*: GET_TX_CONNECTION loops for ever |
| `acmp_network` | `MCAcmpNetwork` | 2 controllers with a sink and 4 commands each, 2 sources, no loss | all stations agree when quiet |
| `acmp_network_lossy` | `MCAcmpNetwork` | 1 controller, 2 sinks, 2 commands, table of 1, losses and timeouts | a command that finds room is answered |
| `acmp_network_slots` | `MCAcmpNetwork` | as `acmp_network` | *violation*: a sink loses its slot |
| `msrp` | `MCMsrp` | 2 stations and a talker, 2 streams, 2 slots, socket of 2 datagrams | counter and table follow the stations |
| `msrp_query` | `MCMsrp` | 1 station | *violation*: a query does not find the talker |
| `avdecc` | `MCAvdecc` | a grandmaster id that differs from the initial one in both parts, 2 settings of a stream | the two threads: three safety properties; calls return, a halt and a grandmaster are announced |
| `simple_talker` | `MCSimpleTalker` | ring of 3, at most 1 entry taken at once, file of 4 packets, limits 0, 2, 5, 9, 12, 14 and an `int` of -6..5, sequence numbers modulo 2 | the ring, and the order, numbering and completeness of what is sent |
| `simple_listener` | `MCSimpleListener` | ring of 4, at most 2 entries taken at once, 6 packets, limits as above, sequence numbers modulo 3 | gaps are noticed; the file lacks what failed writes left out and nothing else; a limit is accounted for |
| `launcher` | `MCLauncher` | 2 contexts in 4 configurations, MAAP ids 0 and 1, 2 retries | reservations, children and threads under SIGINT and failures of start-up, forks, AVDECC threads, reservations and releases |

The properties:

- `ConnectedSlotIsOwn`: a connected slot is the one its sink's descriptor was given,
  though cleared slots answer to id 0; every search relies on it.
- `SinkLifecycle`: `AcmpListener` implements `AcmpSink`. No sink is rebound without
  being released, although two CONNECT_RX_COMMANDs for one sink may be in flight; a
  sink other than 0 is bound at most once.
- `ConnectConsumesCommand`, `DisconnectNamesBoundStream`, `SuccessMeansBound`,
  `CommandsStable`, `ReleaseAnswers`: a response binds its own sink alone, to
  the stream it names, and uses up one CONNECT_TX_COMMAND in flight with its sequence id and no
  other (so a late one binds nothing, unless another command with that id is in flight:
  the code matches by nothing else); a sink is released only with an answer that names its stream; SUCCESS is said only of a sink
  that is bound; no command in the table is overwritten, nor its retry given back; no
  command is released silently.
- `RequestAnswered`: from the controller's command to its answer, an answer comes in the end.
- `FreedBehindLive`, `ListenersLeaveByOwnCommand`, `CountFallsForKnownListener`: the
  head of a list is never a freed record; a listener leaves only by its own command or
  with all others when `calloc` fails; the count falls only by the command of a listed
  listener.
- `StationsAgree`, `BoundIsListed`: controllers, listener and talker agree on all
  connections whenever the network is quiet.
- `CountsStations`, `NobodyKept`, `NobodyMissed`: the counter is the number of stations
  in the table, none twice; unless a datagram was lost, nobody stays in the table who is
  gone; a ready station whose last notification reached the socket is in the table once the
  socket is read, whatever was lost before (a query does not make up for what was lost).
- `StreamInfoWhole`, `NothingAfterDeparting`: whoever answers a frame finds id,
  address and VLAN from one call; after ENTITY_DEPARTING no ENTITY_AVAILABLE is heard.
- `CallsReturn`, `TerminateReturns`, `HaltIsAnnounced`: with the exceptions they name, which
  are the paths that keep the lock. `GrandmasterAnnounced`: the last grandmaster id
  set becomes known once the link stays up, whatever was read in the middle.
- `RingConsistent`: positions and counters agree with the driver's queue, and each entry
  comes back to its own place. `SentInOrder`: what the driver has and will send are the next
  portions of the file, so that no page it has is overwritten. `NumberedInOrder`: AVTP
  sequence numbers follow them. `SentAtEnd`: a loop that ends by itself has sent the file, or
  the number of packets asked for, which is `framenums` as an `int`.
- `FileIsStream`: a gap between the last two packets seen is noticed as far as sequence numbers
  tell. While no allocation has failed, the packets seen, those taken, and those the driver has
  completed are together, in this order, what was received, so no packet is lost, seen
  twice or overwritten while it waits, and the file is what was seen but for what `writev` left out.
  `FramesAtEnd`: when a loop ends by itself, the packets written, left out by writes and dropped without
  memory are as many as `framenums`, as an `int`.
- `ReservedBeforeStreaming`: a talker's application and what follows a listener's
  reservation come after mrpdummy has made it (the reservation may be gone again by then, an mrpdummy that ended without
  one does not do). `StreamsBeforeDomains`: when main takes domains and addresses back, what is left
  are an mrpdummy that was sent SIGINT in the course of a SIGINT and may have lost it, an application that has been
  told to end, one that was not executed yet when SIGINT came or was forked after it, and that of a listener
  whose mrpdummy could not be started. `TakenBack`: what is left of domains and VLAN is what mrpdummy refused to leave, and of
  addresses a reservation whose release failed or whose id is 0; a launcher that gives up has told maap_daemon to release what
  it had the first answer for. `PressingEnds`: SIGINT, pressed as often as it takes, ends the launcher, unless a
  monitor thread does not end, or a streaming thread waits for the `data_lock` that one has ended with.
  `EndedAppReleases`: an application that ends takes its reservation with it.

*Why the bounds are enough.* Sinks and sources are independent but for three
couplings: slots that answer to id 0 (two sinks show it), the shared command table
(two slots show reuse, order and overflow, as no code tells one slot from another but
by position) and sequence ids (two show equal and different ones). Removal from a list
distinguishes head, middle and tail, so lists of four hold each with a neighbour; a
count modulo 8 passes 0 as it would modulo 65536. Two stations show confusion of
stations, and a socket of two datagrams loses single notifications as well as parts of
an answer. Grandmaster ids of two parts show a mixture, which more parts would show again; two
settings of a stream are what a mixture needs. A ring of three has a first, a middle and
a last entry and wraps at every offset; the file is longer than the ring; one limit is
within it, one beyond the file, and with an `int` of -6..5 the others become negative (9), none (12) and
small (14), the three things that can come of a limit above INT_MAX; sequence numbers wrap within a ring. Most safety properties are moreover proved for all values (section 4).
`VIEW` leaves out `tx`, an output nothing reads back and which the action properties
read only as `tx'`; `SYMMETRY` permutes stations where no property is temporal beyond
one step. In the `msrp` run a constraint stops exploration at states whose monitor
thread has ended: nothing changes for the application afterwards. `CHECK_DEADLOCK
FALSE` stands where the system may stop: a talker whose thread is lost, and
controllers that have issued their commands.
`Avdecc` needs no bound but its constants; avblauncher sets the grandmaster id once for each
context, so one new id is what the code writes, and it differs from the initial
one in each part so that every mixture is a third id. In the `launcher` run the four configurations are two
reservations at once with different domains; AVDECC, gPTP and MAAP beside a context whose file
has an error; AVDECC on the listener's side beside a context that uses nothing; and one class with two priorities, the
error of `connect_avb_network`. Two contexts suffice for what threads share, main and the signal. A listener's ring of four
with at most two taken at once leaves a batch at every offset, the end of the ring within it.
The packets outnumber the ring and each limit.

*Fairness.* `AcmpNetwork!Fairness`: the monitor thread comes back to
`acmp_state_process` for ever (the select loop has a timeout) and the clock advances,
so a command that stays armed meets a pass after its deadline; the listener and the
controllers read their sockets. No fairness is assumed
of the network, the talker or controllers' commands: the liveness properties hold even
if no talker ever answers. `Avdecc!Fairness`: each thread runs when it can (weak), gets the
mutex that is free again and again (strong: the threads sleep in `select` or between
calls while they do not hold it), and the timer expires; no error, no call and no change
of the link is assumed. The fairness of `Launcher` is in its `Spec`: main, each streaming thread and
each mrpdummy take the steps they can, a child comes from `fork` to `exec`, and an application that
was told by SIGINT to end does. None is assumed of gPTP (`Capable`), of connections, of mrpd's
notifications, of applications that end by themselves or of whoever presses the keys; `PressingEnds`
has that as its premise. The liveness of the monitor thread supposes that the talker
role has not lost it (section 5).

## 4. What is proved

For every value of the constants, under the named assumptions of the modules (finite
sets of stations, tables of any size, `CountRange` from 3 to 65536, any set of
deliverable messages). `StationsAssumption` repeats for the composition what `AcmpListener` and `AcmpTalker`
assume of their constants.

**AcmpListenerProofs.** `IInv == TypeOK /\ ConnectedSlotIsOwn` is inductive. TypeOK alone is
not enough: a search by unique id could then end in a slot of another sink, and
nothing could be said of what a handler changes. With it `FindIsOwn` and `RemovedIsOwn`
say where searches end, and every other property follows from one step in a state of
the invariant: `TypeCorrect`, `ConnectedSlotsAreOwn`, `ImplementsSinkLifecycle` (the
refinement: initial states map to initial states, each handler to a bind, a release or
a stutter of one sink), `ConnectionUsesUpCommand`, `ReleaseNamesBoundStream`,
`CommandsNeverOverwritten`, `ReleasedCommandsAreAnswered`, `SuccessIsTrue`.

**AcmpTalkerProofs.** `IInv == TypeOK /\ FreedBehindLive`: a tail record is freed only behind a
head that stays. `TypeCorrect`, `HeadNeverFreed`, `ListenersNeverTakenAlong`,
`CountFallsOnlyForKnown`. The lemma `RemoveAtKeeps` says that taking one record out of a
list keeps every other.

**AcmpNetworkProofs.** The agreement of the stations, which needs both state machines and the
controllers at once. Its hypothesis is `CarefulNetwork`, which the constants of the run
`acmp_network` satisfy (`RunsAreCareful`): no frame is lost, though any may be overtaken by any other; the controllers ask for
the slot first and use sequence ids apart, as the listener finds a command in its table by the sequence id alone;
they name sources the talker has, since the answer TALKER_UNKNOWN_ID leaves its command in the table
until a timeout; there are no more of them than slots in the table; and there are fewer sinks than
`connection_count` can count. Neither property is inductive, since they speak of the quiet network only. `NetInv`
says what holds while commands are on their way: each outstanding command has at most one frame
in transit and no sink two (`OneFrame`, `OneFramePerSink`), whose type is the stage the command has reached; the
listener's table holds exactly the commands that are between it and the talker (`ArmedStand`), hence an answer
finds its own command (`MatchIsOwn`) and a new command finds room (`RoomForCommand`, by an injection from slots to
controllers); what the listener has bound is what the controllers know but for the
answers on their way to them (`BoundIsKnown`); and what the talker has listed and counted is what the listener has
bound but for the answers on their way to *it* (`Held`, `HeldIsListed`). The last claims nothing
once the talker's thread has read a freed record (section 2): then the network is never quiet again, because `Quiet`
asks for a talker that runs. Stations pass frames on, so most lemmas are about a step that replaces one frame by
another (`Passes`). The talker's list may hold records that nobody is connected by, since removing the
head leaves it in the list; the invariant claims that each held sink is listed and that the *count* is exact, which is
what `wait_avdecc_connection` of avblauncher reads. `StationsStayAgreed`, `BoundStaysListed`, for any number of controllers,
sinks, sources and commands.

**MsrpProofs.** `IInv == TypeOK /\ CountsStations`: the counter keeps its range only because the
table has no duplicates, each station in it having a slot of its own
(`TableBounded`, by an injection from stations to slots). `TypeCorrect`,
`CounterIsTrue`. `NobodyKept` speaks of an empty socket only; its inductive
strengthening `LeavesFollow` says what is still on the way: while nothing was lost, for
a station that is gone the socket holds its leave if the table holds the station, and
holds its leave behind each of its joins. `NobodyIsKept`. For `NobodyMissed` it is `ReadyFollow`:
a station whose last notification fitted and that is ready is in the table with
no leave of it in the socket, or the socket has a notification that it is ready with no leave behind
it; `Receive` takes the oldest datagram, and whatever is delivered later goes behind, answers
to queries included, which are no leaves (`KeptByOthers`, `TailKept`). The table has
room because it has no duplicates (`RoomForAll`). `NobodyIsMissed`.

**AvdeccProofs.** `IInv` conjoins the types with who holds the lock at which place of the
threads (`LockInv`), what a call has still to write (`CallInv`), that the information of a
stream is whole but for the fields still to be written (`InfoInv`), what a halt
implies (`HaltInv`) and `FreedUnused` (the context is freed after its thread has ended, on
any path; proved and not run). `TypeCorrect`, `StreamInfoIsWhole`, `FreedIsUnused`,
`DepartsLast`. Mutual exclusion alone does not give `StreamInfoWhole`: that the paths which
keep the lock leave no setting half written does.

**SimpleTalkerProofs.** `IInv == TypeOK /\ RingConsistent /\ SizeInv`: `talker_process` fills no more
than the room in the ring and what the limit leaves, hence `repeat` never falls below 0 unless the limit
is negative as an `int`, when nothing is ever pushed, and `push_entry` never passes the entries pushed before. `TypeCorrect`, `RingIsTheQueue`.
The order needs more (`OrderInv`): while nothing disturbs it, the portions sent, those in the
driver's queue and those filled and not yet pushed follow on each other, and the next is filled where the
last push ends (`FillInv`); so do their numbers (`NumberInv`). `TurnInv` says where in its turn the loop
knows of the end of the file and of its limit. The step that carries it is `FillOrder`: the pages a read fills are at other
places of the ring than any page the driver has (`QueueApart`), because remainders of numbers that are
less than a ring apart differ. `PortionsInOrder`, `NumbersFollow`, `EverythingSent`; with `ToIntSame`, that an `int` holds
what is at most `IntMax`, `FramesSent`.

Both loops' modules begin with the same lemmas about the ring, each over the variables of its own
specification: `PushEntryKeeps`, `TakeEntryKeeps` and `DriverCompletesKeeps` (`RingInv` is what the
device's operations keep, whoever calls them) and the arithmetic of positions, `AheadWithin`, `AheadAhead` and
`AheadApart`.

**SimpleListenerProofs.** `IInv` adds to the types and `RingConsistent`: `Aligned`, `dev->p` is behind `rp` by
what is taken and not yet looked at, while no allocation has failed; `FileInv`, `SeenIsReceived` place by place of
the ring; `OutputInv`, the file is in the order of what was seen, with nothing missing but what `unwritten` counts;
`GapInv`, the sequence number expected is that after the last packet seen; and `FrameInv`, packets
seen, dropped, taken, at the driver and still to be pushed make up the limit. Without
`Aligned` nothing says that a page pushed again is not one still to be read.
`TypeCorrect`, `FileIsTheStream`, `FramesAreWritten`, for rings, streams and limits of any size and whatever the
driver and the file system do; and `FramesInFile`: where nothing failed and the limit is at most `IntMax`, the file
has exactly `framenums` packets.

**LauncherProofs.** None of the three properties is inductive: what main finds when the threads
have ended depends on where each of them left its context. `IInv` conjoins the types with four parts. `DummyPlace`
and `AppPlace` say, for each place of a thread, how far its mrpdummy and its application can have come; for instance, a thread
that has ended has no mrpdummy but one that has ended, or one that was sent SIGINT in the course of a SIGINT for
all. `ThreadsInv`: the threads run between `Spawn` and `JoinThreads`. `MaapInv`: where main is says what
maap_daemon has or has kept. `OrdersInv`: what is joined has an order to leave that is still to run, or was
refused. That each thread passes from place to place as `DummyPlace` needs is a fact about the stages of
`streaming_thread`: `StagesFollow`, from `NextStage`, says which stages can follow which in
any configuration. `Signalled` says what SIGINT does to the children, `OneContext` that a step of one
context leaves the others theirs. `TypeCorrect`, `ReservedFirst`, `StreamsEndFirst`, `EverythingTakenBack`, for any
number of contexts and any set of configurations that `LauncherAssumption` admits.

Where a table is searched, the lemma `FirstInSet` says that a search over a nonempty set of
indices ends at its least member; `LeastOf` says the same of the stages.

*Only model-checked:* liveness alone (`RequestAnswered`, `CallsReturn`, `TerminateReturns`, `HaltIsAnnounced`,
`GrandmasterAnnounced`, `PressingEnds`, `EndedAppReleases`), which is out of the reach of the provers, as it
needs `ENABLED`. Every invariant and every safety action property of the passing runs is a theorem. Not covered by
theorems are what the violation runs refute, and the network with losses: there the talker goes on counting
a sink whose answer was lost on the way to the listener, which is why the run `acmp_network_lossy` asks for an answer only.

## 5. What the checks found

1. *GET_TX_CONNECTION never returns* (`acmp.c:893`, run `acmp_talker_loop`). The walk to
   the n-th connection does not count its steps. Any index but 0, for a source with a
   listener, keeps the monitor thread in the loop with `data_lock` held; the answer
   NO_SUCH_CONNECTION prepared at `acmp.c:894` is never sent.
2. *A sink is usable once* (`acmp.c:83`, run `acmp_network_slots`). Releasing a sink
   clears the unique id given to its slot by `acmp_ctx_init` ("fill unique_id",
   `acmp.c:963`). Sinks other than 0 can then not be connected again; the talker counts
   the listener all the same.
3. *A query does not find a talker* (`lib/msrp/mrpdhelper.c:287`, run `msrp_query`).
   `parse_msrp_query` hands what follows "R=" to `parse_app_state`, which searches it for
   another "R=" (`mrpdhelper.c:83`). An answer with one declaration has none, and `msg_process`
   drops it (`msrp.c:225`). Where another declaration follows in the datagram, the answer
   is handed on as neither new nor join and falls to "unknown notify" (`msrp.c:202`),
   although the branch above it prints "talker new/join/query". A query therefore adds no
   listener to the table either, unless the answer has more declarations than one.

## 6. What is not modelled

- AECP: stateless answers from descriptors that never change; only serialisation.
- avblauncher's configuration files (ini parsing and the checks of single values, whose outcome is
  `complete`), the texts of its commands (`convert_app_cmd` and the like) and its memory failures. That `/bin/sh`
  replaces itself by the last command it is given, so that a signal to the child reaches the
  application or mrpdummy, is assumed. `LauncherAssumption` supposes that a context with AVDECC uses gPTP too, since
  `wait_avdecc_connection` reads gPTP's shared memory without a check.
- Options, set-up and the MSRP registration of simple_talker and simple_listener, and the
  talker's separation of pages. `Thresh` is at least 1, as `entrynum` is.
- In mrpdummy, the ranges of options; the monitor thread under it is `Msrp`, whose
  notifications `MrpDummy` takes for given, so the two are not composed.
- `avdecc_entity.c`, `common.c`: YAML parsing and socket set-up at start. The numbering of
  descriptors they establish is used.
- `lib/avtp`, `packet.c`, `clock.c`, `netif_util.c`, `stats.c`, `avbtool`: bit fields, wrappers
  of system calls, formatting.
- `inih`, the jdksavdecc headers: third-party code. mrpd, the daemons, the driver and the
  network are external and modelled from their use.
- In the modelled parts: `available_index` and ENTITY_DISCOVER, which nothing reads and nothing
  requests; the getters of `avdecc.c`, which change nothing; `lastseq_no`, a label of entries;
  failures while a context or device is created; the text of MRP messages, but for what becomes of answers
  to queries; `mrpdhelper_notify_equal` and
  `_mergable`, which nobody calls.

- What follows a failed allocation in `filedump_process` is modelled, but no property promises anything of
  the packets behind it: `dev->p` has stayed behind, and other pages are read than those taken. Likewise
  for what `disturbed` covers in `simple_talker.c`.

## 7. Plan

All parts are there:

1. `AcmpListener`, `AcmpSink`, with proofs: the connection state applications act on.
2. `AcmpTalker` and `AcmpNetwork`, with proofs.
3. `Msrp`, with proofs.
4. `Avdecc` over `Adp`, with proofs.
5. `EavbDevice`, `SimpleTalker` and `SimpleListener`, with proofs.
6. `MrpDummy`, as the child of a streaming thread.
7. `Launcher` over `MrpDummy`, with proofs.

Left: a composition of `MrpDummy` with `Msrp`, which would show when a listener's reservation cannot
complete (section 5, 3).
