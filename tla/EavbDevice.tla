----------------------------- MODULE EavbDevice -----------------------------
(***************************************************************************)
(* The ring of stream entries between an application and the streaming     *)
(* driver: demo/common/eavb_device.c over lib/eavb/eavb.c.                 *)
(*                                                                         *)
(* Each entry of the ring names a page of memory for one packet.  The      *)
(* application pushes entries to the driver and takes them back when the   *)
(* driver has sent, or received, their packets.  The driver, which is      *)
(* external, keeps the order; it may accept or return fewer entries than   *)
(* it is asked to.                                                         *)
(***************************************************************************)
EXTENDS Integers, Sequences

CONSTANT EntryNum       \* dev->entrynum

ASSUME EntryNumAssumption == EntryNum \in Nat \ {0}

Entry == 0 .. EntryNum - 1

\* The place n entries after place s, with the ring's wrap-around.
Ahead(s, n) == (s + n) % EntryNum

VARIABLES
    rp, wp,         \* where the next entries are taken to and pushed from
    remain, filled, \* the entries the application has, and has pushed
    entrybuf,       \* the pages the entries name
    queue,          \* the entries at the driver, oldest first
    done            \* so many of them have been sent, or received

deviceVars == <<rp, wp, remain, filled, entrybuf, queue, done>>

DeviceTypeOK ==
    /\ rp \in Entry
    /\ wp \in Entry
    /\ remain \in 0 .. EntryNum
    /\ filled \in 0 .. EntryNum
    /\ entrybuf \in [Entry -> Entry]
    /\ queue \in Seq(Entry)
    /\ done \in 0 .. EntryNum

\* eavb_device_new, and a page for each entry from the application.
DeviceInit ==
    /\ rp = 0
    /\ wp = 0
    /\ remain = EntryNum
    /\ filled = 0
    /\ entrybuf = [e \in Entry |-> e]
    /\ queue = << >>
    /\ done = 0

\* Mutant: the position moves by what was offered, not by what was accepted.
PushEntryAll(count, accepted) ==
    /\ queue' = queue \o [i \in 1 .. accepted |-> entrybuf[Ahead(wp, i - 1)]]
    /\ remain' = remain - accepted
    /\ filled' = filled + accepted
    /\ wp' = Ahead(wp, count)
    /\ UNCHANGED <<rp, entrybuf, done>>

\* Mutant: the position is not wrapped around.
PushEntryUnwrapped(count, accepted) ==
    /\ queue' = queue \o [i \in 1 .. accepted |-> entrybuf[Ahead(wp, i - 1)]]
    /\ remain' = remain - accepted
    /\ filled' = filled + accepted
    /\ wp' = wp + accepted
    /\ UNCHANGED <<rp, entrybuf, done>>

\* eavb_device_push_entry of count entries, of which the driver accepts some.
PushEntry(count, accepted) ==
    /\ queue' = queue \o [i \in 1 .. accepted |-> entrybuf[Ahead(wp, i - 1)]]
    /\ remain' = remain - accepted
    /\ filled' = filled + accepted
    /\ wp' = Ahead(wp, accepted)
    /\ UNCHANGED <<rp, entrybuf, done>>

\* eavb_device_take_entry, when the driver returns some entries.
TakeEntry(returned) ==
    /\ entrybuf' = [e \in Entry |->
                      LET i == ((e - rp + EntryNum) % EntryNum) + 1
                      IN  IF i <= returned THEN queue[i] ELSE entrybuf[e]]
    /\ queue' = SubSeq(queue, returned + 1, Len(queue))
    /\ done' = done - returned
    /\ remain' = remain + returned
    /\ filled' = filled - returned
    /\ rp' = Ahead(rp, returned)
    /\ UNCHANGED wp

\* The driver sends or receives the next packet.
DriverCompletes ==
    /\ done < Len(queue)
    /\ done' = done + 1
    /\ UNCHANGED <<rp, wp, remain, filled, entrybuf, queue>>

\* The ring is the driver's queue: the counters and positions agree with it, and an
\* entry that comes back names the page it named before, so that the application's
\* page for a place in the ring is never one the driver has.
RingConsistent ==
    /\ remain + filled = EntryNum
    /\ filled = Len(queue)
    /\ done <= filled
    /\ wp = Ahead(rp, filled)
    /\ \A i \in 1 .. filled : queue[i] = Ahead(rp, i - 1)
    /\ \A e \in Entry : entrybuf[e] = e

=============================================================================
