---------------------------- MODULE SimpleTalker ----------------------------
(***************************************************************************)
(* demo/simple/simple_talker.c: the loop that reads a file, packs what it  *)
(* reads into the pages of the device ring and pushes them to the driver.  *)
(*                                                                         *)
(* The file is a sequence of portions, one for each packet, numbered from  *)
(* 1: a regular file or a pipe, from which a read may return less than was *)
(* asked for and end within a packet, which is then a shorter portion.     *)
(***************************************************************************)
EXTENDS EavbDevice, CInt, FiniteSetsExt

CONSTANTS
    FileLength,     \* the portions of the file
    FrameNums,      \* what the option framenums may be, 0 for no limit
    Thresh,         \* most entries taken at once, entrynum / 8
    SequenceNums    \* AVTP sequence numbers count modulo this, 256 in the code

ASSUME TalkerAssumption ==
    /\ FileLength \in Nat
    /\ FrameNums \subseteq Nat
    /\ Thresh \in Nat \ {0}
    /\ SequenceNums \in Nat \ {0}

Portion == 0 .. FileLength      \* 0: nothing has been read
Events == {"read", "write"}

VARIABLES
    at,             \* where in process_loop the program is
    waitmode,
    pipe,           \* the file is a pipe
    framenums,      \* the option
    revents,        \* what process_wait returned
    process_size,   \* the entries to be pushed
    inf, waitflush, repeat, read_end,   \* the variables of the loop
    sigint,         \* a signal has arrived
    listening,      \* there is a listener, or MSRP is not used
    p,              \* dev->p, the place of the next page to be filled
    page,           \* per page the portion of the file it holds
    number,         \* and its AVTP sequence number
    seqnum,         \* the next sequence number
    pos,            \* the portions read from the file
    sent,           \* the last portion the driver has sent
    disturbed       \* the driver has accepted less than it was offered, or has
                    \* announced room when it had all entries, or a read or an
                    \* allocation failed

optionVars == <<waitmode, pipe, framenums>>
loopVars == <<inf, waitflush, repeat, read_end>>
fillVars == <<p, page, number, seqnum, pos>>
worldVars == <<sigint, listening>>
vars == <<deviceVars, at, optionVars, revents, process_size, loopVars, worldVars,
          fillVars, sent, disturbed>>

\* The types.
TypeOK ==
    /\ DeviceTypeOK
    /\ at \in {"wait", "fill", "push", "take", "check", "ended", "stopped", "failed"}
    /\ waitmode \in {"poll", "nowait", "waitall"}
    /\ pipe \in BOOLEAN
    /\ framenums \in FrameNums
    /\ revents \subseteq Events
    /\ process_size \in - (IntMax + 1) .. EntryNum
    /\ inf \in BOOLEAN
    /\ waitflush \in BOOLEAN
    /\ repeat \in IntRange
    /\ read_end \in BOOLEAN
    /\ sigint \in BOOLEAN
    /\ listening \in BOOLEAN
    /\ p \in Entry
    /\ page \in [Entry -> Portion]
    /\ number \in [Entry -> 0 .. SequenceNums - 1]
    /\ seqnum \in 0 .. SequenceNums - 1
    /\ pos \in Portion
    /\ sent \in Portion
    /\ disturbed \in BOOLEAN

Init ==
    /\ DeviceInit
    /\ at = "wait"
    /\ waitmode \in {"poll", "nowait", "waitall"}
    /\ pipe \in BOOLEAN
    /\ framenums \in FrameNums
    /\ revents = {}
    /\ process_size = 0
    /\ inf = (ToInt(framenums) = 0)
    /\ waitflush = FALSE
    /\ repeat = IF ToInt(framenums) = 0 THEN 1 ELSE ToInt(framenums)
    /\ read_end = FALSE
    /\ sigint = FALSE
    /\ listening = TRUE
    /\ p = 0
    /\ page = [e \in Entry |-> 0]
    /\ number = [e \in Entry |-> 0]
    /\ seqnum = 0
    /\ pos = 0
    /\ sent = 0
    /\ disturbed = FALSE

-----------------------------------------------------------------------------
(* process_loop, one action for each of its parts.                          *)

AtWrite(events) == IF "write" \in events THEN "fill" ELSE "take"

\* process_wait: without polling both events are taken to have happened.
Wait ==
    /\ at = "wait"
    /\ LET events == IF waitflush THEN {"read"} ELSE Events
       IN  IF waitmode = "poll"
           THEN revents' \in SUBSET events
           ELSE revents' = events
    /\ at' = AtWrite(revents')
    /\ UNCHANGED <<deviceVars, optionVars, process_size, loopVars, worldVars, fillVars,
                   sent, disturbed>>

\* The places talker_process fills, and the order it fills them in.
Rank(e) == (e - p + EntryNum) % EntryNum
Filled(count) == {e \in Entry : Rank(e) < count}

\* Mutant: each call numbers from 0.
HeadersRestart(count) ==
    /\ number' = [e \in Entry |-> IF e \in Filled(count) THEN Rank(e) % SequenceNums
                                  ELSE number[e]]
    /\ seqnum' = (seqnum + count) % SequenceNums

\* The headers of all pages offered to the read are written before it.
Headers(count) ==
    /\ number' = [e \in Entry |-> IF e \in Filled(count)
                                  THEN (seqnum + Rank(e)) % SequenceNums
                                  ELSE number[e]]
    /\ seqnum' = (seqnum + count) % SequenceNums

\* How many portions a read into count pages may return; 0 is the end of the file,
\* and what a read into no page returns.
Readable(count) ==
    LET most == Min({count, FileLength - pos})
    IN  IF pipe /\ most > 0 THEN 1 .. most ELSE {most}

\* Mutant: all pages are taken to be filled.
ReadLong(count, n) ==
    /\ pos' = pos + n
    /\ page' = [e \in Entry |-> IF e \in Filled(n) THEN pos + Rank(e) + 1 ELSE page[e]]
    /\ p' = Ahead(p, count)
    /\ process_size' = IF inf THEN n ELSE Min({n, repeat})
    /\ read_end' = (read_end \/ n = 0)

\* readv, and where it leaves dev->p: behind the last page filled, or where all
\* pages would end when there was nothing to read.
Read(count, n) ==
    /\ pos' = pos + n
    /\ page' = [e \in Entry |-> IF e \in Filled(n) THEN pos + Rank(e) + 1 ELSE page[e]]
    /\ p' = Ahead(p, IF n = 0 THEN count ELSE n)
    /\ process_size' = IF inf THEN n ELSE Min({n, repeat})
    /\ read_end' = (read_end \/ n = 0)

\* talker_process
Fill ==
    /\ at = "fill" /\ at' = "push"
    /\ Headers(remain)
    /\ \E n \in Readable(remain) : Read(remain, n)
    /\ disturbed' = (disturbed \/ (waitmode = "poll" /\ remain = 0))
    /\ UNCHANGED <<deviceVars, optionVars, revents, inf, waitflush, repeat, worldVars, sent>>

\* An error of readv: the pages are pushed with what they held.
ReadFails ==
    /\ at = "fill" /\ at' = "push"
    /\ Headers(remain)
    /\ p' = Ahead(p, remain)
    /\ process_size' = IF inf THEN remain ELSE Min({remain, repeat})
    /\ read_end' = TRUE
    /\ disturbed' = TRUE
    /\ UNCHANGED <<deviceVars, optionVars, revents, inf, waitflush, repeat, worldVars,
                   page, pos, sent>>

\* talker_process without memory: what the pages held is pushed, and p stays behind.
AllocFails ==
    /\ at = "fill" /\ at' = "push"
    /\ process_size' = IF inf THEN remain ELSE Min({remain, repeat})
    /\ read_end' = TRUE
    /\ disturbed' = TRUE
    /\ UNCHANGED <<deviceVars, optionVars, revents, inf, waitflush, repeat, worldVars,
                   fillVars, sent>>

\* How many of the entries offered the driver accepts.
Acceptable ==
    CASE waitmode = "poll"    -> 0 .. process_size
      [] waitmode = "nowait"  -> IF process_size = 0 THEN {0} ELSE 1 .. process_size
      [] waitmode = "waitall" -> {process_size}

\* Mutant: the limit is not looked at again.
CountDownNever(accepted) == repeat' = repeat - accepted /\ UNCHANGED <<inf, read_end>>

\* With framenums, the loop goes on without limit to wait for what is at the driver.
CountDown(accepted) ==
    IF inf
    THEN UNCHANGED <<repeat, inf, read_end>>
    ELSE /\ repeat' = repeat - accepted
         /\ inf' = (repeat' <= 0)
         /\ read_end' = (read_end \/ repeat' <= 0)

Push ==
    /\ at = "push"
    /\ at' = IF "read" \in revents THEN "take" ELSE "check"
    /\ process_size >= 0
    /\ \E accepted \in Acceptable :
        /\ PushEntry(process_size, accepted)
        /\ CountDown(accepted)
        /\ disturbed' = (disturbed \/ accepted < process_size)
    /\ process_size' = 0
    /\ UNCHANGED <<optionVars, revents, waitflush, worldVars, fillVars, sent>>

\* How many entries the driver returns.  When it does not poll, the program waits
\* for one, or for all it asks for.
Asked == Min({filled, Thresh})

Returnable ==
    CASE waitmode = "poll"    -> {n \in 0 .. Asked : n <= done}
      [] waitmode = "nowait"  -> {n \in 0 .. Asked : n <= done /\ (n = 0 => Asked = 0)}
      [] waitmode = "waitall" -> {Asked} \cap 0 .. done

Take ==
    /\ at = "take" /\ at' = "check"
    /\ IF "read" \in revents
       THEN \E n \in Returnable : TakeEntry(n)
       ELSE UNCHANGED deviceVars
    /\ UNCHANGED <<optionVars, revents, process_size, loopVars, worldVars, fillVars, sent,
                   disturbed>>

\* An error of the driver, a signal that interrupts it, or a negative number to push.
DriverFails ==
    /\ \/ at = "push" /\ process_size # 0
       \/ at = "take" /\ "read" \in revents /\ Asked > 0
    /\ at' = "failed"
    /\ UNCHANGED <<deviceVars, optionVars, revents, process_size, loopVars, worldVars,
                   fillVars, sent, disturbed>>

Told == sigint \/ ~ listening

\* The loop ends at once when it is told to.
Stop ==
    /\ at = "check" /\ Told
    /\ at' = "stopped"
    /\ inf' = FALSE
    /\ waitflush' = TRUE
    /\ UNCHANGED <<deviceVars, optionVars, revents, process_size, repeat, read_end,
                   worldVars, fillVars, sent, disturbed>>

\* Mutant: at the end of the file the loop ends.
ContinueUnflushed ==
    /\ at = "check" /\ ~ Told
    /\ waitflush' = (waitflush \/ read_end)
    /\ inf' = (inf /\ ~ read_end)
    /\ at' = IF inf' \/ ~ waitflush' THEN "wait" ELSE "ended"
    /\ UNCHANGED <<deviceVars, optionVars, revents, process_size, repeat, read_end,
                   worldVars, fillVars, sent, disturbed>>

\* At the end of the file it goes on, unless framenums is set, until the driver
\* has returned everything.
Continue ==
    /\ at = "check" /\ ~ Told
    /\ waitflush' = (waitflush \/ read_end)
    /\ inf' = (inf /\ ~ (read_end /\ filled = 0))
    /\ at' = IF inf' \/ ~ waitflush' THEN "wait" ELSE "ended"
    /\ UNCHANGED <<deviceVars, optionVars, revents, process_size, repeat, read_end,
                   worldVars, fillVars, sent, disturbed>>

-----------------------------------------------------------------------------
(* The driver, signals and MSRP.                                            *)

Send ==
    /\ DriverCompletes
    /\ sent' = page[queue[done + 1]]
    /\ UNCHANGED <<at, optionVars, revents, process_size, loopVars, worldVars, fillVars,
                   disturbed>>

Signal ==
    /\ ~ sigint /\ sigint' = TRUE
    /\ UNCHANGED <<deviceVars, at, optionVars, revents, process_size, loopVars, listening,
                   fillVars, sent, disturbed>>

ListenersChange ==
    /\ listening' = ~ listening
    /\ UNCHANGED <<deviceVars, at, optionVars, revents, process_size, loopVars, sigint,
                   fillVars, sent, disturbed>>

Loop == Wait \/ Fill \/ ReadFails \/ AllocFails \/ Push \/ Take \/ DriverFails \/ Stop \/ Continue

Next == Loop \/ Send \/ Signal \/ ListenersChange

Spec == Init /\ [][Next]_vars

-----------------------------------------------------------------------------

\* What the driver has and has not sent are the next portions of the file, in their
\* order: no page is filled again before it is sent, none is skipped or sent twice.
\* A driver that accepts a part of what it is offered leaves dev->p ahead of wp, and
\* the property fails.
SentInOrder ==
    ~ disturbed =>
        \A i \in done + 1 .. Len(queue) : page[queue[i]] = sent + (i - done)

\* Sequence numbers follow the packets.  A short read from a pipe skips numbers.
NumberedInOrder ==
    ~ disturbed /\ ~ pipe =>
        \A i \in 1 .. Len(queue) : number[queue[i]] = (page[queue[i]] - 1) % SequenceNums

\* A loop that ends by itself has sent the file, or as many packets as it was asked
\* to, if the file has them: framenums, as an int.
SentAtEnd ==
    at = "ended" /\ ~ disturbed =>
        /\ ToInt(framenums) = 0 => sent = FileLength
        /\ ToInt(framenums) \in 1 .. FileLength => sent = ToInt(framenums)

=============================================================================
