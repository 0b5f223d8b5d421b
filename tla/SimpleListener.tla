--------------------------- MODULE SimpleListener ---------------------------
(***************************************************************************)
(* demo/simple/simple_listener.c: the loop that hands empty entries of the *)
(* device ring to the driver, takes them back with packets and writes      *)
(* their payloads to a file.  Neither a write that fails or is short nor   *)
(* an allocation that fails ends the loop.                                 *)
(*                                                                         *)
(* Packets are known by the order the talker sent them in, from 1; the     *)
(* network and a driver without entries lose some.                         *)
(***************************************************************************)
EXTENDS EavbDevice, CInt, FiniteSetsExt

CONSTANTS
    Packets,        \* the packets of the talker
    FrameNums,      \* what the option framenums may be, 0 for no limit
    Thresh,         \* most entries taken at once, entrynum / 8
    SequenceNums    \* AVTP sequence numbers count modulo this, 256 in the code

ListenerAssumption ==
    /\ Packets \in Nat
    /\ FrameNums \subseteq Nat
    /\ Thresh \in Nat \ {0}
    /\ SequenceNums \in Nat \ {0}
ASSUME ListenerAssumption

Packet == 1 .. Packets
Events == {"read", "write"}
Modes == {"poll", "nowait", "waitall"}
SequenceNum(k) == (k - 1) % SequenceNums

VARIABLES
    at,             \* where in filedump_loop the program is
    waitmode, framenums,                \* the options
    blocking,       \* how the device blocks, at first as waitmode says
    revents,        \* what process_wait returned
    inf, waitflush, repeat,             \* the variables of the loop
    taken,          \* the entries take_entry returned
    sigint,
    p,              \* dev->p, the place of the next page to be written
    page,           \* per page the packet it holds, 0 before the first
    seqno, error,   \* the next sequence number, the gaps in a row; -1 for none
    iov,            \* so many payloads are to be written, the last ones of
    seen,           \* the packets filedump_process has looked at
    written,        \* the packets in the file
    unwritten,      \* how many of those seen are not, or not as a whole
    dropped,        \* how many have been taken and not been looked at
    next,           \* the last packet the talker has sent
    received        \* those the driver has received

optionVars == <<waitmode, framenums>>
loopVars == <<inf, waitflush, repeat>>
outputVars == <<written, unwritten>>
fileVars == <<p, seqno, error, iov, seen, outputVars, dropped>>
networkVars == <<page, next, received>>
vars == <<deviceVars, at, optionVars, blocking, revents, loopVars, taken, sigint, fileVars,
          networkVars>>

TypeOK ==
    /\ DeviceTypeOK
    /\ at \in {"wait", "push", "take", "process", "check", "ended", "stopped", "failed"}
    /\ waitmode \in Modes
    /\ framenums \in FrameNums
    /\ blocking \in Modes
    /\ revents \subseteq Events
    /\ inf \in BOOLEAN
    /\ waitflush \in BOOLEAN
    /\ repeat \in IntRange
    /\ taken \in 0 .. EntryNum
    /\ sigint \in BOOLEAN
    /\ p \in Entry
    /\ page \in [Entry -> 0 .. Packets]
    /\ seqno \in {-1} \cup (0 .. SequenceNums - 1)
    /\ error \in {-1} \cup (Nat \ {0})
    /\ iov \in 0 .. EntryNum
    /\ seen \in Seq(0 .. Packets)
    /\ written \in Seq(0 .. Packets)
    /\ unwritten \in Nat
    /\ dropped \in Nat
    /\ next \in 0 .. Packets
    /\ received \in Seq(Packet)

Init ==
    /\ DeviceInit
    /\ at = "wait"
    /\ waitmode \in Modes
    /\ framenums \in FrameNums
    /\ blocking = waitmode
    /\ revents = {}
    /\ inf = (ToInt(framenums) = 0)
    /\ waitflush = FALSE
    /\ repeat = IF ToInt(framenums) = 0 THEN 1 ELSE ToInt(framenums)
    /\ taken = 0
    /\ sigint = FALSE
    /\ p = 0
    /\ page = [e \in Entry |-> 0]
    /\ seqno = -1 /\ error = -1
    /\ iov = 0
    /\ seen = << >>
    /\ written = << >>
    /\ unwritten = 0
    /\ dropped = 0
    /\ next = 0
    /\ received = << >>

-----------------------------------------------------------------------------
(* filedump_loop, one action for each of its parts.                         *)

\* process_wait: without polling both events are taken to have happened.
Wait ==
    /\ at = "wait"
    /\ LET events == IF waitflush THEN {"read"} ELSE Events
       IN  IF waitmode = "poll"
           THEN revents' \in SUBSET events
           ELSE revents' = events
    /\ at' = IF "write" \in revents' THEN "push" ELSE "take"
    /\ UNCHANGED <<deviceVars, optionVars, blocking, loopVars, taken, sigint, fileVars,
                   networkVars>>

\* The entries offered, and how many of them the driver accepts.
Offered == IF inf THEN remain ELSE Min({remain, repeat})

Acceptable ==
    CASE blocking = "poll"    -> 0 .. Offered
      [] blocking = "nowait"  -> IF Offered = 0 THEN {0} ELSE 1 .. Offered
      [] blocking = "waitall" -> {Offered}

\* Mutant: what was offered is counted, not what was accepted.
CountOffered(accepted) ==
    IF inf THEN UNCHANGED loopVars
    ELSE /\ repeat' = repeat - Offered
         /\ waitflush' = (waitflush \/ repeat' <= 0)
         /\ UNCHANGED inf

\* With framenums no more is pushed after as many entries.
CountDown(accepted) ==
    IF inf THEN UNCHANGED loopVars
    ELSE /\ repeat' = repeat - accepted
         /\ waitflush' = (waitflush \/ repeat' <= 0)
         /\ UNCHANGED inf

Push ==
    /\ at = "push" /\ at' = "take"
    /\ Offered >= 0
    /\ \E accepted \in Acceptable : PushEntry(Offered, accepted) /\ CountDown(accepted)
    /\ UNCHANGED <<optionVars, blocking, revents, taken, sigint, fileVars, networkVars>>

\* How many entries the driver returns.  When it does not poll, the program waits
\* for one, or for all it asks for.
Asked == Min({filled, Thresh})

Returnable ==
    CASE blocking = "poll"    -> {n \in 0 .. Asked : n <= done}
      [] blocking = "nowait"  -> {n \in 0 .. Asked : n <= done /\ (n = 0 => Asked = 0)}
      [] blocking = "waitall" -> {Asked} \cap 0 .. done

Take ==
    /\ at = "take"
    /\ IF "read" \in revents
       THEN /\ at' = "process"
            /\ taken' \in Returnable
            /\ TakeEntry(taken')
       ELSE at' = "check" /\ UNCHANGED <<deviceVars, taken>>
    /\ UNCHANGED <<optionVars, blocking, revents, loopVars, sigint, fileVars, networkVars>>

\* An error of the driver, as when a signal interrupts the wait for all: from now on
\* the device waits for one, and what there is is taken, if there is any.
TakeFraction ==
    /\ at = "take" /\ "read" \in revents /\ waitmode = "waitall" /\ Asked > 0
    /\ blocking' = "nowait"
    /\ at' = "process"
    /\ taken' \in {n \in 1 .. Asked : n <= done}
    /\ TakeEntry(taken')
    /\ UNCHANGED <<optionVars, revents, loopVars, sigint, fileVars, networkVars>>

\* verify_1722packet: error counts the gaps in a row.
Verify(n) ==
    /\ seqno' = (n + 1) % SequenceNums
    /\ error' = IF seqno \in {n, -1} THEN -1 ELSE IF error = -1 THEN 1 ELSE error + 1

\* The packet in page p has its payload added to those to be written.
Look ==
    /\ at = "process" /\ taken > 0
    /\ Verify(SequenceNum(page[p]))
    /\ seen' = Append(seen, page[p])
    /\ iov' = iov + 1
    /\ taken' = taken - 1
    /\ UNCHANGED <<deviceVars, at, optionVars, blocking, revents, loopVars, sigint, outputVars,
                   dropped, networkVars>>

\* Mutant: the position follows that of the ring.
ProcessAtRing == Look /\ p' = rp

\* filedump_process, for one packet;
Process == Look /\ p' = Ahead(p, 1)

\* the payloads of a call are written together.  Of an error (or where there is no
\* file) nothing is in the file, of a short write a part; none is noticed.
WriteOut ==
    /\ at = "process" /\ taken = 0 /\ at' = "check"
    /\ LET before == Len(seen) - iov
       IN  \E n \in 0 .. iov :
            /\ written' = written \o SubSeq(seen, before + 1, before + n)
            /\ unwritten' = unwritten + (iov - n)
    /\ iov' = 0
    /\ UNCHANGED <<deviceVars, optionVars, blocking, revents, loopVars, taken, sigint,
                   p, seqno, error, seen, dropped, networkVars>>

\* Where its array cannot be allocated, filedump_process leaves the packets, and p.
AllocFails ==
    /\ at = "process" /\ iov = 0 /\ at' = "check"
    /\ dropped' = dropped + taken
    /\ taken' = 0
    /\ UNCHANGED <<deviceVars, optionVars, blocking, revents, loopVars, sigint,
                   p, seqno, error, iov, seen, outputVars, networkVars>>

\* An error of the driver, a signal that interrupts it, or a negative number to push.
DriverFails ==
    /\ \/ at = "push" /\ Offered # 0
       \/ at = "take" /\ "read" \in revents /\ Asked > 0
    /\ at' = "failed"
    /\ UNCHANGED <<deviceVars, optionVars, blocking, revents, loopVars, taken, sigint, fileVars,
                   networkVars>>

Check ==
    /\ at = "check"
    /\ at' = IF sigint THEN "stopped"
             ELSE IF inf \/ ~ (waitflush /\ filled = 0) THEN "wait" ELSE "ended"
    /\ UNCHANGED <<deviceVars, optionVars, blocking, revents, loopVars, taken, sigint, fileVars,
                   networkVars>>

-----------------------------------------------------------------------------
(* The network, the driver and signals.                                     *)

\* The next packet comes into the oldest empty entry,
Receive ==
    /\ next < Packets
    /\ DriverCompletes
    /\ next' = next + 1
    /\ page' = [page EXCEPT ![queue[done + 1]] = next']
    /\ received' = Append(received, next')
    /\ UNCHANGED <<at, optionVars, blocking, revents, loopVars, taken, sigint, fileVars>>

\* or is lost.
Lose ==
    /\ next < Packets
    /\ next' = next + 1
    /\ UNCHANGED <<deviceVars, at, optionVars, blocking, revents, loopVars, taken, sigint,
                   fileVars, page, received>>

Signal ==
    /\ ~ sigint /\ sigint' = TRUE
    /\ UNCHANGED <<deviceVars, at, optionVars, blocking, revents, loopVars, taken, fileVars,
                   networkVars>>

Loop == Wait \/ Push \/ Take \/ TakeFraction \/ Process \/ WriteOut \/ AllocFails \/ DriverFails \/ Check

Next == Loop \/ Receive \/ Lose \/ Signal

Spec == Init /\ [][Next]_vars

-----------------------------------------------------------------------------
SeenIsReceived ==
    received = seen
               \o [i \in 1 .. taken |-> page[Ahead(p, i - 1)]]
               \o [i \in 1 .. done |-> page[queue[i]]]

GapNoticed ==
    LET last == Len(seen)
    IN  (error # -1) <=>
            /\ last > 1
            /\ SequenceNum(seen[last]) # (SequenceNum(seen[last - 1]) + 1) % SequenceNums

\* The file has packets of those seen, in the order they were sent, and all of them
\* where no write failed.
FileInOrder ==
    /\ \A i \in 1 .. Len(written) : \E j \in 1 .. Len(seen) : written[i] = seen[j]
    /\ \A i, j \in 1 .. Len(written) : i < j => written[i] < written[j]
    /\ unwritten = 0 => written = SubSeq(seen, 1, Len(seen) - iov)

\* A gap between the last two packets seen is noticed, as far as their sequence
\* numbers tell.  While no allocation has failed, the packets received are those seen,
\* then those taken, then those still at the driver: each is seen once and in order,
\* no page is handed back to the driver before, and the file is what was seen, but for
\* what a write that failed or was short left out.
FileIsStream == GapNoticed /\ (dropped = 0 => SeenIsReceived /\ FileInOrder)

\* When a loop ends by itself, the packets in the file, those that a write has left
\* out and those that were dropped for want of memory are as many as the limit, which
\* is framenums as an int; the loop has not ended early, nor waited for one too many.
FramesAtEnd ==
    at = "ended" => Len(written) + unwritten + dropped = ToInt(framenums)
=============================================================================
