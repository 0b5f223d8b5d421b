------------------------ MODULE SimpleListenerProofs ------------------------
(* The listener's loop, for a ring, a talker and limits of any size: the    *)
(* file is the stream the driver has received.                              *)
EXTENDS SimpleListener, FiniteSetsExt, SequenceTheorems, TLAPS

-----------------------------------------------------------------------------
(* The ring.                                                               *)

\* A remainder is less than its modulus.
LEMMA Remainder ==
    ASSUME NEW a \in Int, NEW n \in Nat \ {0}
    PROVE  a % n \in 0 .. n - 1
  BY SMT

\* A multiple of n that is between -n and n.
LEMMA SmallMultiple ==
    ASSUME NEW n \in Nat \ {0}, NEW t \in Int, n * t < n, -n < n * t
    PROVE  t = 0
<1>1. CASE t >= 1
  <2>1. n * t >= n
    BY <1>1, SMT
  <2> QED
    BY <2>1, SMT
<1>2. CASE t <= -1
  <2>1. n * t <= -n
    BY <1>2, SMT
  <2> QED
    BY <2>1, SMT
<1> QED
  BY <1>1, <1>2, SMT

\* To count on from a remainder is to count on from the number.
LEMMA RemainderSum ==
    ASSUME NEW a \in Nat, NEW k \in Nat, NEW n \in Nat \ {0}
    PROVE  ((a % n) + k) % n = (a + k) % n
<1> DEFINE r == a % n
           s == (r + k) % n
           t == (a + k) % n
           q == (a \div n) + ((r + k) \div n) - ((a + k) \div n)
<1>1. a = n * (a \div n) + r /\ r \in Nat /\ a \div n \in Int
  BY SMT
<1>2. r + k = n * ((r + k) \div n) + s /\ s \in 0 .. n - 1 /\ (r + k) \div n \in Int
  <2> HIDE DEF r
  <2> QED
    BY <1>1, SMT
<1>3. a + k = n * ((a + k) \div n) + t /\ t \in 0 .. n - 1 /\ (a + k) \div n \in Int
  BY SMT
<1> HIDE DEF r, s, t
<1>4. n * q = t - s /\ q \in Int
  <2>1. n * q = n * (a \div n) + n * ((r + k) \div n) - n * ((a + k) \div n) /\ q \in Int
    BY <1>1, <1>2, <1>3, SMT
  <2> QED
    BY <1>1, <1>2, <1>3, <2>1, SMT
<1> HIDE DEF q
<1>5. n * q < n /\ -n < n * q
  BY <1>2, <1>3, <1>4, SMT
<1>6. n * q = 0
  BY <1>4, <1>5, SmallMultiple, SMT
<1> QED
  BY <1>2, <1>3, <1>4, <1>6, SMT DEF r, s, t

\* A remainder, where a place in the ring moves by at most one round.
LEMMA AheadWithin ==
    ASSUME NEW s \in Entry, NEW n \in 0 .. EntryNum
    PROVE  Ahead(s, n) = IF s + n < EntryNum THEN s + n ELSE s + n - EntryNum
<1>1. CASE s + n < EntryNum
  BY <1>1, EntryNumAssumption, SMT DEF Entry, Ahead
<1>2. CASE s + n >= EntryNum
  BY <1>2, EntryNumAssumption, SMT DEF Entry, Ahead
<1> QED
  BY <1>1, <1>2, EntryNumAssumption, SMT DEF Entry

\* It is a place in the ring.
LEMMA AheadEntry ==
    ASSUME NEW s \in Entry, NEW n \in 0 .. EntryNum
    PROVE  Ahead(s, n) \in Entry
  BY AheadWithin, EntryNumAssumption, SMT DEF Entry

\* Two steps along the ring are one.
LEMMA AheadAhead ==
    ASSUME NEW s \in Entry, NEW m \in Nat, NEW n \in Nat, m + n <= EntryNum
    PROVE  Ahead(Ahead(s, m), n) = Ahead(s, m + n)
<1>1. m \in 0 .. EntryNum /\ n \in 0 .. EntryNum /\ m + n \in 0 .. EntryNum
  BY EntryNumAssumption, SMT
<1>2. Ahead(s, m) = (IF s + m < EntryNum THEN s + m ELSE s + m - EntryNum)
      /\ Ahead(s, m) \in Entry
  BY <1>1, AheadWithin, AheadEntry
<1>3. Ahead(s, m + n) = IF s + (m + n) < EntryNum THEN s + (m + n) ELSE s + (m + n) - EntryNum
  BY <1>1, AheadWithin
<1>4. Ahead(Ahead(s, m), n) = IF Ahead(s, m) + n < EntryNum THEN Ahead(s, m) + n
                              ELSE Ahead(s, m) + n - EntryNum
  BY <1>1, <1>2, AheadWithin
<1> QED
  BY <1>1, <1>2, <1>3, <1>4, EntryNumAssumption, SMT DEF Entry

\* Places less than a round apart are different.
LEMMA AheadApart ==
    ASSUME NEW s \in Entry, NEW m \in 0 .. EntryNum - 1, NEW n \in 0 .. EntryNum - 1, m # n
    PROVE  Ahead(s, m) # Ahead(s, n)
<1>1. m \in 0 .. EntryNum /\ n \in 0 .. EntryNum
  BY EntryNumAssumption, SMT
<1> QED
  BY <1>1, AheadWithin, EntryNumAssumption, SMT DEF Entry

\* No step along the ring stays at a place.
LEMMA AheadZero ==
    ASSUME NEW s \in Entry
    PROVE  Ahead(s, 0) = s
<1>1. 0 \in 0 .. EntryNum
  BY EntryNumAssumption, SMT
<1> QED
  BY <1>1, AheadWithin, EntryNumAssumption, SMT DEF Entry

\* A function on the first n numbers is a sequence.
LEMMA SeqOf ==
    ASSUME NEW S, NEW n \in Nat, NEW f \in [1 .. n -> S]
    PROVE  f \in Seq(S) /\ Len(f) = n
  BY SMT

\* The smaller of two numbers.
LEMMA MinOfTwo ==
    ASSUME NEW a \in Int, NEW b \in Int
    PROVE  /\ Min({a, b}) \in Int
           /\ Min({a, b}) <= a
           /\ Min({a, b}) <= b
           /\ Min({a, b}) \in {a, b}
<1>1. \E x \in {a, b} : \A y \in {a, b} : x =< y
  BY SMT
<1> QED
  BY <1>1, SMT DEF Min

-----------------------------------------------------------------------------
(* The operations of the device.                                            *)

\* The inductive invariant of the device.
RingInv == DeviceTypeOK /\ RingConsistent

\* What the queue of a consistent ring holds.
LEMMA QueueEntries ==
    ASSUME RingInv, NEW i \in 1 .. filled
    PROVE  /\ queue[i] = Ahead(rp, i - 1)
           /\ Len(queue) = filled
           /\ queue \in Seq(Entry)
  BY DEF RingInv, DeviceTypeOK, RingConsistent

\* eavb_device_push_entry keeps the ring consistent, whatever the driver accepts,
LEMMA PushEntryKeeps ==
    ASSUME RingInv, NEW count, NEW accepted \in 0 .. remain, PushEntry(count, accepted)
    PROVE  RingInv'
<1> DEFINE new == [i \in 1 .. accepted |-> entrybuf[Ahead(wp, i - 1)]]
<1> USE EntryNumAssumption
<1>1. /\ wp = Ahead(rp, filled) /\ rp \in Entry /\ wp \in Entry
      /\ filled \in Nat /\ remain \in Nat /\ accepted \in Nat
      /\ filled + accepted <= EntryNum /\ remain + filled = EntryNum
      /\ done \in Nat /\ done <= filled
      /\ queue \in Seq(Entry) /\ Len(queue) = filled
      /\ entrybuf \in [Entry -> Entry]
      /\ \A e \in Entry : entrybuf[e] = e
      /\ \A i \in 1 .. filled : queue[i] = Ahead(rp, i - 1)
  BY SMT DEF RingInv, DeviceTypeOK, RingConsistent
<1>2. ASSUME NEW i \in 1 .. accepted
      PROVE  /\ new[i] = Ahead(wp, i - 1)
             /\ new[i] = Ahead(rp, filled + i - 1)
             /\ new[i] \in Entry
  <2>1. i - 1 \in 0 .. EntryNum /\ filled + i - 1 \in 0 .. EntryNum /\ filled \in 0 .. EntryNum
    BY <1>1, SMT
  <2>2. Ahead(wp, i - 1) \in Entry
    BY <1>1, <2>1, AheadEntry
  <2>3. new[i] = Ahead(wp, i - 1)
    BY <1>1, <2>2
  <2>4. i - 1 \in Nat /\ filled + (i - 1) <= EntryNum /\ filled + (i - 1) = filled + i - 1
    BY <1>1, SMT
  <2>5. Ahead(wp, i - 1) = Ahead(rp, filled + i - 1)
    BY <1>1, <2>4, AheadAhead
  <2> QED
    BY <2>2, <2>3, <2>5
<1>3. new \in Seq(Entry) /\ Len(new) = accepted
  <2>1. new \in [1 .. accepted -> Entry] /\ accepted \in Nat
    BY <1>1, <1>2
  <2> QED
    BY <2>1, SeqOf
<1>4. /\ queue' = queue \o new /\ remain' = remain - accepted /\ filled' = filled + accepted
      /\ wp' = Ahead(wp, accepted) /\ rp' = rp /\ entrybuf' = entrybuf /\ done' = done
  BY DEF PushEntry
<1> HIDE DEF new
<1>5. /\ queue' \in Seq(Entry) /\ Len(queue') = filled'
      /\ \A i \in 1 .. filled' :
            queue'[i] = IF i <= filled THEN queue[i] ELSE new[i - filled]
  <2>1. /\ queue \o new \in Seq(Entry) /\ Len(queue \o new) = Len(queue) + Len(new)
        /\ \A i \in 1 .. Len(queue) + Len(new) :
              (queue \o new)[i] = IF i <= Len(queue) THEN queue[i] ELSE new[i - Len(queue)]
    BY <1>1, <1>3, ConcatProperties
  <2>2. Len(queue) = filled /\ Len(new) = accepted /\ queue' = queue \o new
        /\ filled' = filled + accepted
    BY <1>1, <1>3, <1>4
  <2> QED
    BY <2>1, <2>2
<1>6. ASSUME NEW i \in 1 .. filled'
      PROVE  queue'[i] = Ahead(rp, i - 1)
  <2>1. CASE i <= filled
    <3>1. i \in 1 .. filled
      BY <1>1, <1>4, <2>1, SMT
    <3> QED
      BY <1>1, <1>5, <2>1, <3>1
  <2>2. CASE ~ (i <= filled)
    <3>1. i - filled \in 1 .. accepted
      BY <1>1, <1>4, <2>2, SMT
    <3>2. queue'[i] = new[i - filled]
      BY <1>5, <2>2
    <3>3. new[i - filled] = Ahead(rp, filled + (i - filled) - 1)
      BY <3>1, <1>2
    <3>4. filled + (i - filled) - 1 = i - 1
      BY <1>1, <1>4, <3>1, SMT
    <3> QED
      BY <3>2, <3>3, <3>4
  <2> QED
    BY <2>1, <2>2
<1>7. wp' \in Entry /\ wp' = Ahead(rp, filled')
  <2>1. accepted \in 0 .. EntryNum
    BY <1>1, SMT
  <2>2. wp' \in Entry
    BY <1>1, <1>4, <2>1, AheadEntry
  <2>3. Ahead(wp, accepted) = Ahead(rp, filled + accepted)
    BY <1>1, AheadAhead
  <2> QED
    BY <1>4, <2>2, <2>3
<1>8. DeviceTypeOK'
  BY <1>1, <1>4, <1>5, <1>7, SMT DEF DeviceTypeOK
<1>9. RingConsistent'
  <2>1. wp' = Ahead(rp', filled') /\ \A i \in 1 .. filled' : queue'[i] = Ahead(rp', i - 1)
    BY <1>4, <1>6, <1>7
  <2>2. \A e \in Entry : entrybuf'[e] = e
    BY <1>1, <1>4
  <2>3. remain' + filled' = EntryNum /\ done' <= filled'
    BY <1>1, <1>4, SMT
  <2>4. RingConsistent' = (/\ remain' + filled' = EntryNum /\ filled' = Len(queue')
                           /\ done' <= filled' /\ wp' = Ahead(rp', filled')
                           /\ \A i \in 1 .. filled' : queue'[i] = Ahead(rp', i - 1)
                           /\ \A e \in Entry : entrybuf'[e] = e)
    BY DEF RingConsistent, Ahead, Entry
  <2> QED
    BY <1>5, <2>1, <2>2, <2>3, <2>4
<1> QED
  BY <1>8, <1>9 DEF RingInv

\* The place of an entry counted from another one, and back.
LEMMA PlaceBack ==
    ASSUME NEW e \in Entry, NEW s \in Entry
    PROVE  /\ (e - s + EntryNum) % EntryNum \in 0 .. EntryNum - 1
           /\ Ahead(s, (e - s + EntryNum) % EntryNum) = e
<1> DEFINE r == IF e >= s THEN e - s ELSE e - s + EntryNum
<1>1. (e - s + EntryNum) % EntryNum = r
  <2>1. CASE e >= s
    BY <2>1, EntryNumAssumption, SMT DEF Entry
  <2>2. CASE e < s
    BY <2>2, EntryNumAssumption, SMT DEF Entry
  <2> QED
    BY <2>1, <2>2, SMT DEF Entry
<1>2. r \in 0 .. EntryNum - 1 /\ r \in 0 .. EntryNum
  BY EntryNumAssumption, SMT DEF Entry
<1>3. Ahead(s, r) = IF s + r < EntryNum THEN s + r ELSE s + r - EntryNum
  BY <1>2, AheadWithin
<1>4. Ahead(s, r) = e
  BY <1>3, EntryNumAssumption, SMT DEF Entry
<1> QED
  BY <1>1, <1>2, <1>4

\* and eavb_device_take_entry, whatever it returns of what it has completed;
LEMMA TakeEntryKeeps ==
    ASSUME RingInv, NEW returned \in 0 .. done, TakeEntry(returned)
    PROVE  RingInv'
<1> USE EntryNumAssumption
<1>1. /\ wp = Ahead(rp, filled) /\ rp \in Entry /\ wp \in Entry
      /\ filled \in 0 .. EntryNum /\ remain \in Nat /\ returned \in 0 .. EntryNum
      /\ done \in Nat /\ returned <= done /\ done <= filled
      /\ remain + filled = EntryNum
      /\ queue \in Seq(Entry) /\ Len(queue) = filled
      /\ entrybuf \in [Entry -> Entry]
      /\ \A e \in Entry : entrybuf[e] = e
      /\ \A i \in 1 .. filled : queue[i] = Ahead(rp, i - 1)
  BY SMT DEF RingInv, DeviceTypeOK, RingConsistent
<1>2. /\ queue' = SubSeq(queue, returned + 1, Len(queue))
      /\ done' = done - returned /\ remain' = remain + returned /\ filled' = filled - returned
      /\ rp' = Ahead(rp, returned) /\ wp' = wp
  BY DEF TakeEntry
<1>3. /\ rp' = IF rp + returned < EntryNum THEN rp + returned ELSE rp + returned - EntryNum
      /\ rp' \in Entry
  BY <1>1, <1>2, AheadWithin, AheadEntry
<1>4. ASSUME NEW n \in 0 .. filled - returned
      PROVE  Ahead(rp', n) = Ahead(rp, n + returned)
  <2>1. /\ n \in Nat /\ returned \in Nat /\ returned + n <= EntryNum
        /\ n + returned = returned + n
    BY <1>1, SMT
  <2> QED
    BY <1>1, <1>2, <2>1, AheadAhead
<1>5. entrybuf' = entrybuf
  <2>1. ASSUME NEW e \in Entry
        PROVE  (LET i == ((e - rp + EntryNum) % EntryNum) + 1
                IN  IF i <= returned THEN queue[i] ELSE entrybuf[e]) = e
    <3> DEFINE r == (e - rp + EntryNum) % EntryNum
    <3>1. r \in 0 .. EntryNum - 1 /\ Ahead(rp, r) = e
      BY <1>1, PlaceBack
    <3> HIDE DEF r
    <3>2. ASSUME r + 1 <= returned PROVE queue[r + 1] = e
      <4>1. r + 1 \in 1 .. filled /\ (r + 1) - 1 = r
        BY <1>1, <3>1, <3>2, SMT
      <4> QED
        BY <1>1, <3>1, <4>1
    <3>3. entrybuf[e] = e
      BY <1>1
    <3> QED
      BY <3>2, <3>3 DEF r
  <2>2. entrybuf' = [e \in Entry |->
                       LET i == ((e - rp + EntryNum) % EntryNum) + 1
                       IN  IF i <= returned THEN queue[i] ELSE entrybuf[e]]
    BY DEF TakeEntry
  <2>3. entrybuf' = [e \in Entry |-> e]
    BY <2>1, <2>2
  <2> QED
    BY <1>1, <2>3
<1>6. /\ queue' \in Seq(Entry) /\ Len(queue') = filled'
      /\ \A i \in 1 .. filled' : queue'[i] = queue[returned + i]
  <2>1. \A i \in returned + 1 .. Len(queue) : queue[i] \in Entry
    BY <1>1, SMT
  <2>2. returned + 1 \in Int /\ Len(queue) \in Int
    BY <1>1, SMT
  <2>3. /\ queue' \in Seq(Entry)
        /\ Len(queue') = IF returned + 1 <= Len(queue) THEN Len(queue) - (returned + 1) + 1 ELSE 0
        /\ \A i \in 1 .. Len(queue) - (returned + 1) + 1 : queue'[i] = queue[(returned + 1) + i - 1]
    BY <1>2, <2>1, <2>2, SubSeqProperties
  <2>4. Len(queue') = filled' /\ Len(queue) - (returned + 1) + 1 = filled'
    <3>1. /\ Len(queue) = filled /\ filled' = filled - returned /\ filled \in Nat
          /\ returned \in Nat /\ returned <= filled
      BY <1>1, <1>2, SMT
    <3> QED
      BY <2>3, <3>1
  <2>5. ASSUME NEW i \in 1 .. filled' PROVE queue'[i] = queue[returned + i]
    <3>1. (returned + 1) + i - 1 = returned + i
      BY <1>1, <1>2, SMT
    <3> QED
      BY <2>3, <2>4, <3>1
  <2> QED
    BY <2>3, <2>4, <2>5
<1>7. ASSUME NEW i \in 1 .. filled'
      PROVE  queue'[i] = Ahead(rp', i - 1)
  <2>1. returned + i \in 1 .. filled /\ i - 1 \in 0 .. filled - returned
    BY <1>1, <1>2, SMT
  <2>2. queue'[i] = Ahead(rp, (returned + i) - 1)
    BY <1>1, <1>6, <2>1
  <2>3. Ahead(rp', i - 1) = Ahead(rp, (i - 1) + returned)
    BY <1>4, <2>1
  <2>4. (returned + i) - 1 = (i - 1) + returned
    BY <1>1, <1>2, SMT
  <2> QED
    BY <2>2, <2>3, <2>4
<1>8. wp' = Ahead(rp', filled')
  <2>1. filled' \in 0 .. filled - returned /\ filled' + returned = filled
    BY <1>1, <1>2, SMT
  <2> QED
    BY <1>1, <1>2, <1>4, <2>1
<1>9. DeviceTypeOK'
  BY <1>1, <1>2, <1>3, <1>5, <1>6, SMT DEF DeviceTypeOK
<1>10. RingConsistent'
  <2>1. remain' + filled' = EntryNum /\ done' <= filled'
    BY <1>1, <1>2, SMT
  <2>2. \A e \in Entry : entrybuf'[e] = e
    BY <1>1, <1>5
  <2>3. RingConsistent' = (/\ remain' + filled' = EntryNum /\ filled' = Len(queue')
                           /\ done' <= filled' /\ wp' = Ahead(rp', filled')
                           /\ \A i \in 1 .. filled' : queue'[i] = Ahead(rp', i - 1)
                           /\ \A e \in Entry : entrybuf'[e] = e)
    BY DEF RingConsistent, Ahead, Entry
  <2> QED
    BY <1>6, <1>7, <1>8, <2>1, <2>2, <2>3
<1> QED
  BY <1>9, <1>10 DEF RingInv

\* so does the driver.
LEMMA DriverCompletesKeeps ==
    ASSUME RingInv, DriverCompletes
    PROVE  RingInv'
<1>1. /\ rp' = rp /\ wp' = wp /\ remain' = remain /\ filled' = filled
      /\ entrybuf' = entrybuf /\ queue' = queue
      /\ done < Len(queue) /\ done' = done + 1
  BY DEF DriverCompletes
<1>2. done' \in 0 .. EntryNum /\ done' <= filled
  BY <1>1, EntryNumAssumption, SMT DEF RingInv, DeviceTypeOK, RingConsistent
<1>3. DeviceTypeOK'
  BY <1>1, <1>2 DEF RingInv, DeviceTypeOK
<1>4. RingConsistent'
  BY <1>1, <1>2 DEF RingInv, RingConsistent, Ahead, Entry
<1> QED
  BY <1>3, <1>4 DEF RingInv

-----------------------------------------------------------------------------
(* The loop.                                                                *)

\* dev->p is behind rp by what is taken and not yet seen, unless packets have been
\* dropped; what is taken or to be written is part of what the application has of the
\* ring.
Aligned ==
    /\ dropped = 0 => rp = Ahead(p, taken)
    /\ taken + iov <= remain
    /\ at # "process" => taken = 0 /\ iov = 0

\* SeenIsReceived, by places of the ring: taken and completed entries follow on
\* each other from dev->p.
FileInv ==
    dropped = 0 =>
        /\ Len(received) = Len(seen) + (taken + done)
        /\ \A i \in 1 .. Len(seen) : received[i] = seen[i]
        /\ \A i \in 1 .. taken + done : received[Len(seen) + i] = page[Ahead(p, i - 1)]

\* The driver receives packets in the order they were sent.
Sorted ==
    /\ \A i \in 1 .. Len(received) : received[i] <= next
    /\ \A i, j \in 1 .. Len(received) : i < j => received[i] < received[j]

\* The packets seen are in the file, left out of it or still to be written; those in
\* the file are in the order of those seen and among the ones before those to be
\* written.
OutputInv ==
    /\ Len(written) + unwritten + iov = Len(seen)
    /\ dropped = 0 =>
        /\ \A i \in 1 .. Len(written) : \E j \in 1 .. Len(seen) - iov : written[i] = seen[j]
        /\ \A i, j \in 1 .. Len(written) : i < j => written[i] < written[j]
        /\ unwritten = 0 => \A i \in 1 .. Len(written) : written[i] = seen[i]

\* The next sequence number is that after the last packet seen.
GapInv ==
    LET last == Len(seen)
    IN  /\ last = 0 => seqno = -1
        /\ last > 0 => seqno = (SequenceNum(seen[last]) + 1) % SequenceNums

\* With framenums, the packets seen, dropped, taken, at the driver and still to be
\* pushed make up the limit.
FrameInv ==
    /\ inf <=> ToInt(framenums) = 0
    /\ ~ inf => Len(seen) + dropped + taken + filled + repeat = ToInt(framenums)
    /\ waitflush => repeat = 0 /\ ~ inf
    /\ at = "ended" => waitflush /\ filled = 0

StreamInv == FileInv /\ Sorted /\ OutputInv /\ GapInv /\ GapNoticed

IInv == TypeOK /\ RingConsistent /\ Aligned /\ StreamInv /\ FrameInv

-----------------------------------------------------------------------------
\* The conversion to int gives an int.
LEMMA ToIntType ==
    ASSUME NEW n \in Nat
    PROVE  ToInt(n) \in IntRange
<1>1. n + IntMax + 1 \in Nat /\ 2 * IntMax + 2 \in Nat \ {0} /\ IntMax \in Nat
  BY IntAssumption, SMT
<1>2. (n + IntMax + 1) % (2 * IntMax + 2) \in 0 .. (2 * IntMax + 2) - 1
  BY <1>1, Remainder
<1> QED
  BY <1>1, <1>2, SMT DEF ToInt, IntRange

\* and keeps a number that an int can have.
LEMMA ToIntSame ==
    ASSUME NEW n \in 0 .. IntMax
    PROVE  ToInt(n) = n
<1>1. /\ n + IntMax + 1 \in Nat /\ 2 * IntMax + 2 \in Nat \ {0}
      /\ n + IntMax + 1 < 2 * IntMax + 2 /\ IntMax \in Nat /\ n \in Nat
  BY IntAssumption, SMT
<1>2. (n + IntMax + 1) % (2 * IntMax + 2) = n + IntMax + 1
  <2>1. ASSUME NEW x \in Nat, NEW y \in Nat \ {0}, x < y PROVE x % y = x
    BY <2>1, SMT
  <2> QED
    BY <1>1, <2>1
<1> QED
  BY <1>1, <1>2, SMT DEF ToInt

-----------------------------------------------------------------------------
LEMMA InitInv == Init => IInv
<1> SUFFICES ASSUME Init PROVE IInv
  OBVIOUS
<1> USE EntryNumAssumption, ListenerAssumption
<1>1. DeviceTypeOK
  BY SMT DEF Init, DeviceInit, DeviceTypeOK, Entry
<1>2. repeat \in IntRange /\ framenums \in FrameNums
  <2>1. framenums \in FrameNums /\ framenums \in Nat
    BY DEF Init, ListenerAssumption
  <2>2. ToInt(framenums) \in IntRange
    BY <2>1, ToIntType
  <2>3. 1 \in IntRange
    BY IntAssumption, SMT DEF IntRange
  <2> QED
    BY <2>1, <2>2, <2>3 DEF Init
<1>3. TypeOK
  <2>1. 0 \in 0 .. Packets /\ 0 \in 0 .. EntryNum /\ 0 \in Entry
    BY SMT DEF Entry, ListenerAssumption
  <2>2. page \in [Entry -> 0 .. Packets] /\ revents \subseteq Events
    BY <2>1 DEF Init
  <2>3. /\ seen \in Seq(0 .. Packets) /\ written \in Seq(0 .. Packets)
        /\ received \in Seq(Packet)
    <3>1. << >> \in Seq(Packet) /\ << >> \in Seq(0 .. Packets)
      BY EmptySeq
    <3> QED
      BY <3>1 DEF Init
  <2>4. /\ at \in {"wait", "push", "take", "process", "check", "ended", "stopped", "failed"}
        /\ waitmode \in Modes /\ blocking \in Modes
        /\ inf \in BOOLEAN /\ waitflush \in BOOLEAN /\ sigint \in BOOLEAN
        /\ seqno = -1 /\ error = -1 /\ unwritten \in Nat /\ dropped \in Nat
        /\ taken = 0 /\ iov = 0 /\ p = 0 /\ next = 0
    BY DEF Init
  <2> QED
    BY <1>1, <1>2, <2>1, <2>2, <2>3, <2>4, Zenon DEF TypeOK
<1>4. Ahead(0, 0) = 0
  BY AheadZero, SMT DEF Entry
<1>5. RingConsistent
  BY <1>4, SMT DEF Init, DeviceInit, RingConsistent
<1>6. Aligned
  BY <1>4, SMT DEF Init, DeviceInit, Aligned
<1>7. StreamInv
  <2>1. /\ Len(seen) = 0 /\ Len(received) = 0 /\ Len(written) = 0
        /\ taken = 0 /\ done = 0 /\ iov = 0 /\ unwritten = 0 /\ seqno = -1 /\ error = -1
    BY SMT DEF Init, DeviceInit
  <2>2. FileInv
    BY <2>1, SMT DEF FileInv
  <2>3. Sorted
    BY <2>1, SMT DEF Sorted
  <2>4. OutputInv
    BY <2>1, SMT DEF OutputInv
  <2>5. GapInv
    BY <2>1, SMT DEF GapInv
  <2>6. GapNoticed
    BY <2>1, SMT DEF GapNoticed
  <2> QED
    BY <2>2, <2>3, <2>4, <2>5, <2>6 DEF StreamInv
<1>8. FrameInv
  <2>1. Len(seen) = 0 /\ dropped = 0 /\ taken = 0 /\ filled = 0 /\ ~ waitflush /\ at = "wait"
    BY SMT DEF Init, DeviceInit
  <2>2. inf <=> ToInt(framenums) = 0
    BY DEF Init
  <2>3. ~ inf => repeat = ToInt(framenums)
    BY <2>2 DEF Init
  <2>4. ~ inf => Len(seen) + dropped + taken + filled + repeat = ToInt(framenums)
    <3>1. 0 + 0 + 0 + 0 + repeat = repeat
      BY <1>2, SMT DEF IntRange
    <3> QED
      BY <2>1, <2>3, <3>1
  <2> QED
    BY <2>1, <2>2, <2>4 DEF FrameInv
<1> QED
  BY <1>3, <1>5, <1>6, <1>7, <1>8 DEF IInv

-----------------------------------------------------------------------------
\* What the invariant says of the numbers.
LEMMA Numbers ==
    ASSUME IInv
    PROVE  /\ rp \in Entry /\ wp \in Entry /\ p \in Entry
           /\ remain \in 0 .. EntryNum /\ filled \in 0 .. EntryNum
           /\ done \in 0 .. EntryNum /\ taken \in 0 .. EntryNum /\ iov \in 0 .. EntryNum
           /\ remain + filled = EntryNum /\ done <= filled /\ taken <= remain
           /\ taken + iov <= remain
           /\ taken + done \in 0 .. EntryNum /\ EntryNum \in Nat \ {0}
           /\ repeat \in Int /\ unwritten \in Nat /\ dropped \in Nat
           /\ seen \in Seq(0 .. Packets) /\ Len(seen) \in Nat
           /\ written \in Seq(0 .. Packets) /\ Len(written) \in Nat
           /\ received \in Seq(Packet) /\ Len(received) \in Nat
           /\ queue \in Seq(Entry) /\ Len(queue) = filled
           /\ page \in [Entry -> 0 .. Packets]
<1>1. TypeOK /\ DeviceTypeOK /\ RingConsistent /\ Aligned
  BY DEF IInv, TypeOK
<1>2. /\ rp \in Entry /\ wp \in Entry /\ p \in Entry
      /\ remain \in 0 .. EntryNum /\ filled \in 0 .. EntryNum
      /\ done \in 0 .. EntryNum /\ taken \in 0 .. EntryNum /\ iov \in 0 .. EntryNum
      /\ repeat \in IntRange /\ seen \in Seq(0 .. Packets) /\ received \in Seq(Packet)
      /\ written \in Seq(0 .. Packets) /\ unwritten \in Nat /\ dropped \in Nat
      /\ queue \in Seq(Entry) /\ page \in [Entry -> 0 .. Packets]
  BY <1>1 DEF TypeOK, DeviceTypeOK
<1>3. remain + filled = EntryNum /\ done <= filled /\ Len(queue) = filled
  BY <1>1 DEF RingConsistent
<1>4. taken + iov <= remain
  BY <1>1 DEF Aligned
<1>5. Len(seen) \in Nat /\ Len(received) \in Nat /\ Len(written) \in Nat
  BY <1>2, LenProperties
<1>6. repeat \in Int
  BY <1>2, IntAssumption, SMT DEF IntRange
<1>7. taken <= remain /\ taken + done \in 0 .. EntryNum
  BY <1>2, <1>3, <1>4, EntryNumAssumption, SMT
<1> QED
  BY <1>2, <1>3, <1>4, <1>5, <1>6, <1>7, EntryNumAssumption

\* A step that moves no page in or out of the file, and of the taken and completed
\* entries none but from the driver to the application.
LEMMA StreamUnchanged ==
    ASSUME IInv, UNCHANGED <<fileVars, page, received>>,
           taken' + done' = taken + done, next' = next
    PROVE  StreamInv'
<1>1. FileInv /\ Sorted /\ OutputInv /\ GapInv /\ GapNoticed
  BY DEF IInv, StreamInv
<1>2. UNCHANGED <<p, seqno, error, iov, seen, written, unwritten, dropped, page, received>>
  BY DEF fileVars, outputVars
<1>3. FileInv'
  BY <1>1, <1>2 DEF FileInv, Ahead
<1>4. Sorted' /\ OutputInv'
  BY <1>1, <1>2 DEF Sorted, OutputInv
<1>5. GapInv' /\ GapNoticed'
  BY <1>1, <1>2 DEF GapInv, GapNoticed, SequenceNum
<1> QED
  BY <1>3, <1>4, <1>5 DEF StreamInv

\* A step that moves no entry between the application and the driver.
LEMMA StillKeeps ==
    ASSUME IInv,
           UNCHANGED <<deviceVars, optionVars, blocking, loopVars, taken, fileVars, networkVars>>,
           at' \in {"wait", "push", "take", "process", "check", "ended", "stopped", "failed"},
           revents' \subseteq Events, sigint' \in BOOLEAN,
           at' # "process" => taken = 0 /\ iov = 0,
           at' = "ended" => waitflush /\ filled = 0
    PROVE  IInv'
<1>1. /\ TypeOK /\ DeviceTypeOK /\ RingConsistent /\ Aligned /\ FrameInv
  BY DEF IInv, TypeOK
<1>2. StreamInv'
  BY StreamUnchanged DEF deviceVars, networkVars
<1>3. DeviceTypeOK' /\ RingConsistent'
  BY <1>1 DEF DeviceTypeOK, RingConsistent, deviceVars, Ahead, Entry
<1>4. TypeOK'
  BY <1>1, <1>3 DEF TypeOK, optionVars, loopVars, fileVars, outputVars, networkVars
<1>5. Aligned'
  BY <1>1 DEF Aligned, deviceVars, fileVars, outputVars, Ahead
<1>6. FrameInv'
  BY <1>1 DEF FrameInv, deviceVars, optionVars, loopVars, fileVars, outputVars, ToInt
<1> QED
  BY <1>2, <1>3, <1>4, <1>5, <1>6 DEF IInv

LEMMA QuietKeeps ==
    IInv /\ (Wait \/ DriverFails \/ Check \/ Signal \/ UNCHANGED vars) => IInv'
<1> SUFFICES ASSUME IInv,
                    Wait \/ DriverFails \/ Check \/ Signal \/ UNCHANGED vars
             PROVE  IInv'
  OBVIOUS
<1>1. /\ TypeOK /\ Aligned /\ FrameInv
      /\ revents \subseteq Events /\ sigint \in BOOLEAN
      /\ at \in {"wait", "push", "take", "process", "check", "ended", "stopped", "failed"}
  BY DEF IInv, TypeOK
<1>2. at # "process" => taken = 0 /\ iov = 0
  BY <1>1 DEF Aligned
<1>3. at = "ended" => waitflush /\ filled = 0
  BY <1>1 DEF FrameInv
<1>4. CASE Wait
  <2>1. revents' \subseteq Events
    <3>1. (IF waitflush THEN {"read"} ELSE Events) \subseteq Events
      BY DEF Events
    <3> QED
      BY <1>4, <3>1 DEF Wait
  <2>2. at = "wait" /\ at' \in {"push", "take"}
    BY <1>4 DEF Wait
  <2> QED
    BY <1>1, <1>2, <1>4, <2>1, <2>2, StillKeeps DEF Wait
<1>5. CASE DriverFails
  <2>1. at \in {"push", "take"} /\ at' = "failed"
    BY <1>5 DEF DriverFails
  <2> QED
    BY <1>1, <1>2, <1>5, <2>1, StillKeeps DEF DriverFails
<1>6. CASE Check
  <2>1. /\ at = "check" /\ at' \in {"stopped", "wait", "ended"}
        /\ at' = "ended" => waitflush /\ filled = 0
    BY <1>6 DEF Check
  <2> QED
    BY <1>1, <1>2, <1>6, <2>1, StillKeeps DEF Check
<1>7. CASE Signal
  BY <1>1, <1>2, <1>3, <1>7, StillKeeps DEF Signal
<1>8. CASE UNCHANGED vars
  BY <1>1, <1>2, <1>3, <1>8, StillKeeps DEF vars
<1> QED
  BY <1>4, <1>5, <1>6, <1>7, <1>8

\* A packet that is lost is known to be sent.
LEMMA LoseKeeps == IInv /\ Lose => IInv'
<1> SUFFICES ASSUME IInv, Lose PROVE IInv'
  OBVIOUS
<1>1. TypeOK /\ DeviceTypeOK /\ RingConsistent /\ Aligned /\ StreamInv /\ FrameInv
  BY DEF IInv, TypeOK
<1>2. /\ next < Packets /\ next' = next + 1
      /\ UNCHANGED <<deviceVars, at, optionVars, blocking, revents, loopVars, taken, sigint,
                     fileVars, page, received>>
  BY DEF Lose
<1>3. next' \in 0 .. Packets /\ next \in Nat
  BY <1>1, <1>2, ListenerAssumption, SMT DEF TypeOK, ListenerAssumption
<1>4. DeviceTypeOK' /\ RingConsistent' /\ Aligned'
  BY <1>1, <1>2 DEF DeviceTypeOK, RingConsistent, Aligned, deviceVars, fileVars, outputVars,
                    Ahead, Entry
<1>5. TypeOK'
  BY <1>1, <1>2, <1>3, <1>4 DEF TypeOK, optionVars, loopVars, fileVars, outputVars
<1>6. StreamInv'
  <2>1. /\ UNCHANGED <<p, seqno, error, iov, seen, written, unwritten, dropped, page, received>>
        /\ done' = done /\ taken' = taken
    BY <1>2 DEF fileVars, outputVars, deviceVars
  <2>2. FileInv' /\ OutputInv' /\ GapInv' /\ GapNoticed'
    BY <1>1, <2>1 DEF StreamInv, FileInv, OutputInv, GapInv, GapNoticed, SequenceNum, Ahead
  <2>3. Sorted'
    <3>1. ASSUME NEW i \in 1 .. Len(received) PROVE received[i] <= next'
      <4>1. received[i] <= next /\ received[i] \in Packet
        <5>1. received \in Seq(Packet)
          BY Numbers
        <5> QED
          BY <1>1, <3>1, <5>1, ElementOfSeq DEF StreamInv, Sorted
      <4>2. received[i] \in Int
        BY <4>1, ListenerAssumption, SMT DEF Packet, ListenerAssumption
      <4> QED
        BY <1>2, <1>3, <4>1, <4>2, SMT
    <3> QED
      BY <1>1, <2>1, <3>1 DEF StreamInv, Sorted
  <2> QED
    BY <2>2, <2>3 DEF StreamInv
<1>7. FrameInv'
  BY <1>1, <1>2 DEF FrameInv, deviceVars, optionVars, loopVars, fileVars, outputVars, ToInt
<1> QED
  BY <1>4, <1>5, <1>6, <1>7 DEF IInv

-----------------------------------------------------------------------------
\* What is pushed is within the room in the ring, and within the limit.
LEMMA AcceptedBounds ==
    ASSUME IInv, Offered >= 0, NEW accepted \in Acceptable
    PROVE  /\ accepted \in 0 .. remain
           /\ ~ inf => accepted <= repeat
<1>1. remain \in Nat /\ repeat \in Int
  BY Numbers, SMT
<1>2. Offered \in Nat /\ Offered <= remain /\ (~ inf => Offered <= repeat)
  <2>1. CASE inf
    BY <1>1, <2>1, SMT DEF Offered
  <2>2. CASE ~ inf
    <3>1. Offered = Min({remain, repeat})
      BY <2>2 DEF Offered
    <3>2. Offered \in Int /\ Offered <= remain /\ Offered <= repeat
      BY <1>1, <3>1, MinOfTwo
    <3> QED
      BY <3>2, SMT
  <2> QED
    BY <2>1, <2>2
<1>3. blocking \in {"poll", "nowait", "waitall"}
  BY DEF IInv, TypeOK, Modes
<1>4. accepted \in 0 .. Offered
  BY <1>2, <1>3, SMT DEF Acceptable
<1>5. accepted \in 0 .. remain
  BY <1>1, <1>2, <1>4, SMT
<1>6. ASSUME ~ inf PROVE accepted <= repeat
  <2>1. Offered <= repeat
    BY <1>2, <1>6
  <2> QED
    BY <1>1, <1>2, <1>4, <2>1, SMT
<1> QED
  BY <1>5, <1>6

LEMMA PushKeeps == IInv /\ Push => IInv'
<1> SUFFICES ASSUME IInv, Push PROVE IInv'
  OBVIOUS
<1>1. PICK accepted \in Acceptable : PushEntry(Offered, accepted) /\ CountDown(accepted)
  BY DEF Push
<1>2. accepted \in 0 .. remain /\ (~ inf => accepted <= repeat)
  BY AcceptedBounds DEF Push
<1>3. TypeOK /\ RingInv /\ Aligned /\ FrameInv /\ at = "push" /\ at' = "take"
  BY DEF IInv, TypeOK, RingInv, Push
<1>4. RingInv'
  BY <1>1, <1>2, <1>3, PushEntryKeeps
<1>5. /\ taken = 0 /\ iov = 0
      /\ UNCHANGED <<optionVars, blocking, revents, taken, sigint, fileVars, networkVars>>
      /\ rp' = rp /\ done' = done /\ filled' = filled + accepted
  BY <1>1, <1>3 DEF Push, Aligned, PushEntry
<1>6. repeat' \in IntRange /\ inf' = inf /\ waitflush' \in BOOLEAN
      /\ (~ inf => repeat' = repeat - accepted)
      /\ (waitflush' => repeat' = 0 /\ ~ inf)
  <2>1. CASE inf
    BY <1>1, <1>3, <2>1 DEF CountDown, loopVars, TypeOK, FrameInv
  <2>2. CASE ~ inf
    <3>1. /\ repeat' = repeat - accepted /\ waitflush' = (waitflush \/ repeat' <= 0)
          /\ inf' = inf
      BY <1>1, <2>2 DEF CountDown
    <3>2. accepted <= repeat /\ accepted \in Nat /\ repeat \in Nat /\ repeat <= IntMax
      <4>1. accepted <= repeat /\ accepted \in Nat /\ repeat \in IntRange
        BY <1>2, <1>3, <2>2, Numbers, SMT DEF TypeOK
      <4> QED
        BY <4>1, IntAssumption, SMT DEF IntRange
    <3>3. repeat' \in Nat /\ (repeat' <= 0 => repeat' = 0) /\ (repeat = 0 => repeat' = 0)
      BY <3>1, <3>2, SMT
    <3>4. waitflush => repeat = 0
      BY <1>3 DEF FrameInv
    <3>5. waitflush' \in BOOLEAN
      BY <3>1
    <3>6. repeat' \in IntRange
      BY <3>1, <3>2, IntAssumption, SMT DEF IntRange
    <3> QED
      BY <2>2, <3>1, <3>3, <3>4, <3>5, <3>6
  <2> QED
    BY <2>1, <2>2
<1>7. TypeOK'
  BY <1>3, <1>4, <1>5, <1>6
  DEF TypeOK, RingInv, optionVars, fileVars, outputVars, networkVars
<1>8. Aligned'
  <2>1. 0 <= remain' /\ taken' + iov' = 0 /\ taken' = 0 /\ iov' = 0
    BY <1>4, <1>5, EntryNumAssumption, SMT DEF RingInv, DeviceTypeOK, fileVars
  <2>2. p' = p /\ dropped' = dropped
    BY <1>5 DEF fileVars
  <2>3. Aligned' = (/\ dropped' = 0 => rp' = Ahead(p', taken')
                    /\ taken' + iov' <= remain'
                    /\ at' # "process" => taken' = 0 /\ iov' = 0)
    BY DEF Aligned, Ahead
  <2> QED
    BY <1>3, <1>5, <2>1, <2>2, <2>3 DEF Aligned
<1>9. StreamInv'
  BY <1>5, StreamUnchanged DEF networkVars
<1>10. FrameInv'
  <2>1. ASSUME ~ inf
        PROVE  Len(seen) + dropped + taken + filled' + repeat' = ToInt(framenums)
    <3>1. Len(seen) + dropped + taken + filled + repeat = ToInt(framenums)
          /\ repeat' = repeat - accepted
      BY <1>3, <1>6, <2>1 DEF FrameInv
    <3>2. filled' = filled + accepted /\ accepted \in Nat
      BY <1>2, <1>5, Numbers, SMT
    <3>3. /\ Len(seen) \in Nat /\ dropped \in Nat /\ taken \in Nat /\ filled \in Nat
          /\ repeat \in Int
      BY Numbers, SMT
    <3> QED
      BY <3>1, <3>2, <3>3, SMT
  <2>2. framenums' = framenums /\ seen' = seen /\ dropped' = dropped /\ taken' = taken
    BY <1>5 DEF optionVars, fileVars
  <2>3. ToInt(framenums)' = ToInt(framenums)
    BY <2>2 DEF ToInt
  <2> QED
    BY <1>3, <1>6, <2>1, <2>2, <2>3 DEF FrameInv
<1> QED
  BY <1>4, <1>7, <1>8, <1>9, <1>10 DEF IInv, RingInv

\* What is taken has been completed.
LEMMA TakeSomeKeeps ==
    ASSUME IInv, NEW n \in 0 .. done, TakeEntry(n), taken' = n, at = "take", at' = "process",
           UNCHANGED <<optionVars, revents, loopVars, sigint, fileVars, networkVars>>,
           blocking' \in Modes
    PROVE  IInv'
<1>1. TypeOK /\ RingInv /\ Aligned /\ FrameInv /\ taken = 0 /\ iov = 0
  BY DEF IInv, TypeOK, RingInv, Aligned
<1>2. RingInv'
  BY <1>1, TakeEntryKeeps
<1>3. n \in Nat /\ n <= done /\ done <= filled /\ done \in 0 .. EntryNum /\ n \in 0 .. EntryNum
      /\ EntryNum \in Nat /\ remain \in Nat /\ filled \in Nat /\ repeat \in Int
      /\ Len(seen) \in Nat /\ dropped \in Nat /\ rp \in Entry /\ p \in Entry
  <2>1. /\ rp \in Entry /\ p \in Entry /\ Len(seen) \in Nat /\ dropped \in Nat /\ repeat \in Int
        /\ done \in 0 .. EntryNum /\ filled \in 0 .. EntryNum /\ remain \in 0 .. EntryNum
        /\ done <= filled /\ EntryNum \in Nat
    BY Numbers
  <2>2. /\ n \in Nat /\ n <= done /\ n \in 0 .. EntryNum /\ remain \in Nat /\ filled \in Nat
    BY <2>1, SMT
  <2> QED
    BY <2>1, <2>2
<1>4. /\ rp' = Ahead(rp, n) /\ done' = done - n /\ filled' = filled - n /\ remain' = remain + n
  BY DEF TakeEntry
<1>5. dropped = 0 => p = rp
  BY <1>1, <1>3, AheadZero DEF Aligned
<1>6. TypeOK'
  BY <1>1, <1>2, <1>3
  DEF TypeOK, RingInv, optionVars, loopVars, fileVars, outputVars, networkVars
<1>7. Aligned'
  <2>1. p' = p /\ dropped' = dropped /\ iov' = 0
    BY <1>1 DEF fileVars
  <2>2. taken' + iov' <= remain'
    BY <1>3, <1>4, <2>1, SMT
  <2>3. Aligned' = (/\ dropped' = 0 => rp' = Ahead(p', taken')
                    /\ taken' + iov' <= remain'
                    /\ at' # "process" => taken' = 0 /\ iov' = 0)
    BY DEF Aligned, Ahead
  <2> QED
    BY <1>4, <1>5, <2>1, <2>2, <2>3
<1>8. StreamInv'
  <2>1. taken' + done' = taken + done
    BY <1>1, <1>3, <1>4, SMT
  <2> QED
    BY <2>1, StreamUnchanged DEF networkVars
<1>9. FrameInv'
  <2>1. ASSUME ~ inf
        PROVE  Len(seen) + dropped + taken' + filled' + repeat = ToInt(framenums)
    <3>1. Len(seen) + dropped + taken + filled + repeat = ToInt(framenums)
      BY <1>1, <2>1 DEF FrameInv
    <3> QED
      BY <1>1, <1>3, <1>4, <3>1, SMT
  <2>2. /\ framenums' = framenums /\ seen' = seen /\ dropped' = dropped
        /\ inf' = inf /\ repeat' = repeat /\ waitflush' = waitflush
    BY DEF optionVars, fileVars, loopVars
  <2>3. ToInt(framenums)' = ToInt(framenums)
    BY <2>2 DEF ToInt
  <2> QED
    BY <1>1, <2>1, <2>2, <2>3 DEF FrameInv
<1> QED
  BY <1>2, <1>6, <1>7, <1>8, <1>9 DEF IInv, RingInv

LEMMA TakeKeeps == IInv /\ (Take \/ TakeFraction) => IInv'
<1> SUFFICES ASSUME IInv, Take \/ TakeFraction PROVE IInv'
  OBVIOUS
<1>1. TypeOK /\ Aligned /\ at = "take" /\ taken = 0 /\ iov = 0 /\ blocking \in Modes
  BY DEF IInv, TypeOK, Aligned, Take, TakeFraction
<1>2. Asked \in Nat /\ done \in Nat
  <2>1. filled \in Nat /\ filled \in Int /\ done \in Nat /\ Thresh \in Nat /\ Thresh \in Int
    BY Numbers, ListenerAssumption, SMT DEF ListenerAssumption
  <2>2. Asked \in {filled, Thresh}
    BY <2>1, MinOfTwo DEF Asked
  <2> QED
    BY <2>1, <2>2
<1>3. CASE Take /\ "read" \in revents
  <2>1. taken' \in 0 .. done
    <3>1. taken' \in Returnable /\ blocking \in {"poll", "nowait", "waitall"}
      BY <1>1, <1>3 DEF Take, Modes
    <3> QED
      BY <1>2, <3>1, SMT DEF Returnable
  <2>2. /\ TakeEntry(taken') /\ at' = "process" /\ blocking' = blocking
        /\ UNCHANGED <<optionVars, revents, loopVars, sigint, fileVars, networkVars>>
    BY <1>3 DEF Take
  <2> QED
    BY <1>1, <2>1, <2>2, TakeSomeKeeps
<1>4. CASE Take /\ "read" \notin revents
  <2>1. /\ at' = "check"
        /\ UNCHANGED <<deviceVars, optionVars, blocking, revents, loopVars, taken, sigint,
                       fileVars, networkVars>>
    BY <1>4 DEF Take
  <2>2. revents \subseteq Events /\ sigint \in BOOLEAN
    BY <1>1 DEF TypeOK
  <2> QED
    BY <1>1, <2>1, <2>2, StillKeeps
<1>5. CASE TakeFraction
  <2>1. taken' \in 0 .. done
    <3>1. taken' \in {n \in 1 .. Asked : n <= done}
      BY <1>5 DEF TakeFraction
    <3> QED
      BY <1>2, <3>1, SMT
  <2>2. /\ TakeEntry(taken') /\ at' = "process" /\ blocking' \in Modes
        /\ UNCHANGED <<optionVars, revents, loopVars, sigint, fileVars, networkVars>>
    BY <1>5 DEF TakeFraction, Modes
  <2> QED
    BY <1>1, <2>1, <2>2, TakeSomeKeeps
<1> QED
  BY <1>3, <1>4, <1>5

-----------------------------------------------------------------------------
\* The packet filedump_process looks at is, unless some have been dropped, the next
\* one received.
LEMMA ProcessKeeps == IInv /\ Process => IInv'
<1> DEFINE k == page[p]
           last == Len(seen)
<1> SUFFICES ASSUME IInv, Process PROVE IInv'
  OBVIOUS
<1>1. TypeOK /\ RingInv /\ Aligned /\ FileInv /\ Sorted /\ OutputInv /\ GapInv /\ FrameInv
  BY DEF IInv, StreamInv, TypeOK, RingInv
<1>2. /\ at = "process" /\ at' = at /\ taken > 0 /\ taken' = taken - 1 /\ iov' = iov + 1
      /\ Verify(SequenceNum(k)) /\ seen' = Append(seen, k) /\ p' = Ahead(p, 1)
      /\ UNCHANGED <<deviceVars, optionVars, blocking, revents, loopVars, sigint, outputVars,
                     dropped, networkVars>>
  BY DEF Process, Look
<1>3. /\ taken \in Nat /\ iov \in Nat /\ done \in Nat /\ last \in Nat /\ Len(received) \in Nat
      /\ p \in Entry /\ received \in Seq(Packet) /\ seen \in Seq(0 .. Packets)
      /\ remain \in Nat /\ filled \in Nat /\ repeat \in Int /\ dropped \in Nat
      /\ taken <= remain /\ taken + done <= EntryNum /\ EntryNum \in Nat \ {0}
      /\ taken + iov <= remain /\ remain <= EntryNum
      /\ Len(written) \in Nat /\ unwritten \in Nat
  BY Numbers, SMT
<1>4. k \in 0 .. Packets /\ Packets \in Nat
  BY <1>1, <1>3, ListenerAssumption DEF TypeOK, ListenerAssumption
<1>5. dropped = 0 => Len(received) = last + (taken + done) /\ k = received[last + 1]
  <2> SUFFICES ASSUME dropped = 0
               PROVE  Len(received) = last + (taken + done) /\ k = received[last + 1]
    OBVIOUS
  <2>1. Len(received) = last + (taken + done) /\ 1 \in 1 .. taken + done
    BY <1>1, <1>2, <1>3, SMT DEF FileInv
  <2>2. received[last + 1] = page[Ahead(p, 1 - 1)]
    BY <1>1, <2>1 DEF FileInv
  <2>3. Ahead(p, 1 - 1) = p
    BY <1>3, AheadZero, SMT
  <2> QED
    BY <2>1, <2>2, <2>3
<1>6. /\ seen' \in Seq(0 .. Packets) /\ Len(seen') = last + 1
      /\ \A i \in 1 .. last : seen'[i] = seen[i]
      /\ seen'[last + 1] = k
  BY <1>2, <1>3, <1>4, AppendProperties
<1> HIDE DEF k, last
<1>7. /\ SequenceNum(k) \in 0 .. SequenceNums - 1
      /\ (SequenceNum(k) + 1) % SequenceNums \in 0 .. SequenceNums - 1
  <2>1. SequenceNums \in Nat \ {0}
    BY ListenerAssumption DEF ListenerAssumption
  <2>2. k - 1 \in Int
    BY <1>4, SMT
  <2>3. SequenceNum(k) \in 0 .. SequenceNums - 1
    BY <2>1, <2>2, Remainder DEF SequenceNum
  <2>4. SequenceNum(k) + 1 \in Int
    BY <2>1, <2>3, SMT
  <2> QED
    BY <2>1, <2>3, <2>4, Remainder
<1>8. /\ seqno' = (SequenceNum(k) + 1) % SequenceNums
      /\ error' = IF seqno \in {SequenceNum(k), -1} THEN -1
                  ELSE IF error = -1 THEN 1 ELSE error + 1
  BY <1>2 DEF Verify
<1>9. error' \in {-1} \cup (Nat \ {0}) /\ (error' # -1 <=> seqno \notin {SequenceNum(k), -1})
  <2>1. error \in {-1} \cup (Nat \ {0})
    BY <1>1 DEF TypeOK
  <2>2. CASE seqno \in {SequenceNum(k), -1}
    BY <1>8, <2>2
  <2>3. CASE seqno \notin {SequenceNum(k), -1}
    <3>1. error' = IF error = -1 THEN 1 ELSE error + 1
      BY <1>8, <2>3
    <3>2. error' \in Nat \ {0} /\ error' # -1
      BY <2>1, <3>1, SMT
    <3> QED
      BY <2>3, <3>2
  <2> QED
    BY <2>2, <2>3
<1>10. p' \in Entry /\ taken' \in 0 .. EntryNum /\ iov' \in 0 .. EntryNum
       /\ taken' + iov' <= remain
  <2>1. 1 \in 0 .. EntryNum /\ taken' \in 0 .. EntryNum /\ iov' \in 0 .. EntryNum
        /\ taken' + iov' <= remain
    BY <1>2, <1>3, SMT
  <2> QED
    BY <1>2, <1>3, <2>1, AheadEntry
<1>11. RingInv'
  BY <1>1, <1>2 DEF RingInv, DeviceTypeOK, RingConsistent, deviceVars, Ahead, Entry
<1>12. TypeOK'
  <2>1. seqno' \in {-1} \cup (0 .. SequenceNums - 1)
    BY <1>7, <1>8
  <2> QED
    BY <1>1, <1>2, <1>6, <1>9, <1>10, <1>11, <2>1
    DEF TypeOK, RingInv, optionVars, loopVars, outputVars, networkVars
<1>13. ASSUME NEW i \in 1 .. taken' + done
       PROVE  Ahead(p', i - 1) = Ahead(p, i)
  <2>1. i - 1 \in Nat /\ 1 \in Nat /\ 1 + (i - 1) <= EntryNum /\ 1 + (i - 1) = i
    BY <1>2, <1>3, SMT
  <2> QED
    BY <1>2, <1>3, <2>1, AheadAhead
<1>14. Aligned'
  <2>1. taken - 1 \in Nat /\ 1 \in Nat /\ 1 + (taken - 1) <= EntryNum /\ 1 + (taken - 1) = taken
    BY <1>2, <1>3, SMT
  <2>2. Ahead(p', taken') = Ahead(p, taken)
    BY <1>2, <1>3, <2>1, AheadAhead
  <2>3. rp' = rp /\ remain' = remain /\ dropped' = dropped
    BY <1>2 DEF deviceVars
  <2>4. Aligned' = (/\ dropped' = 0 => rp' = Ahead(p', taken')
                    /\ taken' + iov' <= remain'
                    /\ at' # "process" => taken' = 0 /\ iov' = 0)
    BY DEF Aligned, Ahead
  <2> QED
    BY <1>1, <1>2, <1>10, <2>2, <2>3, <2>4 DEF Aligned
<1>15. FileInv'
  <2>1. received' = received /\ page' = page /\ done' = done /\ dropped' = dropped
    BY <1>2 DEF networkVars, deviceVars
  <2> SUFFICES ASSUME dropped = 0
               PROVE  /\ Len(received') = Len(seen') + (taken' + done')
                      /\ \A i \in 1 .. Len(seen') : received'[i] = seen'[i]
                      /\ \A i \in 1 .. taken' + done' :
                            received'[Len(seen') + i] = page'[Ahead(p', i - 1)]
    BY <2>1 DEF FileInv, Ahead
  <2>2. Len(received) = Len(seen') + (taken' + done)
    BY <1>2, <1>3, <1>5, <1>6, SMT
  <2>3. ASSUME NEW i \in 1 .. Len(seen')
        PROVE  received[i] = seen'[i]
    <3>1. i \in 1 .. last \/ i = last + 1
      BY <1>3, <1>6, SMT
    <3>2. \A j \in 1 .. last : received[j] = seen[j]
      BY <1>1 DEF FileInv, last
    <3> QED
      BY <1>5, <1>6, <3>1, <3>2
  <2>4. ASSUME NEW i \in 1 .. taken' + done
        PROVE  received[Len(seen') + i] = page[Ahead(p', i - 1)]
    <3>1. i + 1 \in 1 .. taken + done /\ (i + 1) - 1 = i /\ Len(seen') + i = last + (i + 1)
      BY <1>2, <1>3, <1>6, SMT
    <3>2. received[last + (i + 1)] = page[Ahead(p, (i + 1) - 1)]
      BY <1>1, <3>1 DEF FileInv, last
    <3> QED
      BY <1>13, <3>1, <3>2
  <2> QED
    BY <2>1, <2>2, <2>3, <2>4
<1>16. Sorted'
  BY <1>1, <1>2 DEF Sorted, networkVars
<1>17. OutputInv'
  <2>1. written' = written /\ unwritten' = unwritten /\ dropped' = dropped
    BY <1>2 DEF outputVars
  <2>2. /\ Len(seen') - iov' = last - iov /\ last - iov <= last /\ last - iov \in Nat
        /\ Len(written) + unwritten + iov' = Len(seen')
    <3>1. Len(written) + unwritten + iov = last
      BY <1>1 DEF OutputInv, last
    <3> QED
      BY <1>2, <1>3, <1>6, <3>1, SMT
  <2>3. \A i \in 1 .. last - iov : seen'[i] = seen[i]
    BY <1>3, <1>6, <2>2, SMT
  <2>4. Len(written) <= last
    BY <1>1, <1>3, SMT DEF OutputInv, last
  <2>5. \A i \in 1 .. Len(written) : seen'[i] = seen[i]
    BY <1>3, <1>6, <2>4, SMT
  <2>6. ASSUME dropped = 0
        PROVE  /\ \A i \in 1 .. Len(written) :
                     \E j \in 1 .. Len(seen') - iov' : written[i] = seen'[j]
               /\ \A i, j \in 1 .. Len(written) : i < j => written[i] < written[j]
               /\ unwritten = 0 => \A i \in 1 .. Len(written) : written[i] = seen'[i]
    BY <1>1, <2>2, <2>3, <2>5, <2>6 DEF OutputInv, last
  <2> QED
    BY <2>1, <2>2, <2>6 DEF OutputInv
<1>18. GapInv'
  BY <1>3, <1>6, <1>8, SMT DEF GapInv, SequenceNum
<1>19. GapNoticed'
  <2>1. last = 0 => seqno = -1
    BY <1>1 DEF GapInv, last
  <2>2. last > 0 => /\ seqno = (SequenceNum(seen[last]) + 1) % SequenceNums
                    /\ seqno \in 0 .. SequenceNums - 1
    <3>1. ASSUME last > 0
          PROVE  (SequenceNum(seen[last]) + 1) % SequenceNums \in 0 .. SequenceNums - 1
      <4>1. SequenceNums \in Nat \ {0}
        BY ListenerAssumption DEF ListenerAssumption
      <4>2. last \in 1 .. Len(seen)
        BY <1>3, <3>1, SMT DEF last
      <4>3. seen[last] \in 0 .. Packets
        BY <1>3, <4>2, ElementOfSeq
      <4>4. seen[last] - 1 \in Int
        BY <1>4, <4>3, SMT
      <4>5. SequenceNum(seen[last]) \in 0 .. SequenceNums - 1
        BY <4>1, <4>4, Remainder DEF SequenceNum
      <4>6. SequenceNum(seen[last]) + 1 \in Int
        BY <4>1, <4>5, SMT
      <4> QED
        BY <4>1, <4>6, Remainder
    <3> QED
      BY <1>1, <3>1 DEF GapInv, last
  <2>3. GapNoticed' = ((error' # -1) <=>
                          /\ Len(seen') > 1
                          /\ SequenceNum(seen'[Len(seen')]) #
                                (SequenceNum(seen'[Len(seen') - 1]) + 1) % SequenceNums)
    BY DEF GapNoticed, SequenceNum
  <2>4. (last + 1) - 1 = last /\ (last + 1 > 1 <=> last > 0) /\ (last > 0 <=> last # 0)
    BY <1>3, SMT
  <2>5. CASE last = 0
    BY <1>6, <1>9, <2>1, <2>3, <2>4, <2>5
  <2>6. CASE last > 0
    <3>1. last \in 1 .. last
      BY <1>3, <2>6, SMT
    <3>2. seen'[last] = seen[last]
      BY <1>6, <3>1
    <3>3. seqno # -1
      BY <2>2, <2>6, ListenerAssumption, SMT DEF ListenerAssumption
    <3>4. GapNoticed' = ((error' # -1) <=> SequenceNum(k) # seqno)
      BY <1>6, <2>2, <2>3, <2>4, <2>6, <3>2
    <3> QED
      BY <1>9, <3>3, <3>4
  <2> QED
    BY <1>3, <2>4, <2>5, <2>6
<1>20. FrameInv'
  <2>1. inf' = inf /\ repeat' = repeat /\ waitflush' = waitflush /\ framenums' = framenums
        /\ filled' = filled /\ dropped' = dropped
    BY <1>2 DEF loopVars, optionVars, deviceVars
  <2>2. ASSUME ~ inf
        PROVE  Len(seen') + dropped + taken' + filled + repeat = ToInt(framenums)
    <3>1. last + dropped + taken + filled + repeat = ToInt(framenums)
      BY <1>1, <2>2 DEF FrameInv, last
    <3> QED
      BY <1>2, <1>3, <1>6, <3>1, SMT
  <2>3. ToInt(framenums)' = ToInt(framenums)
    BY <2>1 DEF ToInt
  <2> QED
    BY <1>1, <1>2, <2>1, <2>2, <2>3 DEF FrameInv
<1> QED
  BY <1>11, <1>12, <1>14, <1>15, <1>16, <1>17, <1>18, <1>19, <1>20 DEF IInv, StreamInv, RingInv

\* What writev writes comes after what is in the file, in the order it was seen.
LEMMA WriteOutKeeps == IInv /\ WriteOut => IInv'
<1> DEFINE before == Len(seen) - iov
           last == Len(written)
<1> SUFFICES ASSUME IInv, WriteOut PROVE IInv'
  OBVIOUS
<1>1. /\ TypeOK /\ DeviceTypeOK /\ RingConsistent /\ Aligned /\ FileInv /\ Sorted /\ OutputInv
      /\ GapInv /\ GapNoticed /\ FrameInv
  BY DEF IInv, StreamInv, TypeOK
<1>2. PICK n \in 0 .. iov :
         /\ written' = written \o SubSeq(seen, before + 1, before + n)
         /\ unwritten' = unwritten + (iov - n)
  BY DEF WriteOut
<1>3. /\ at = "process" /\ taken = 0 /\ at' = "check" /\ iov' = 0
      /\ UNCHANGED <<deviceVars, optionVars, blocking, revents, loopVars, taken, sigint,
                     p, seqno, error, seen, dropped, networkVars>>
  BY DEF WriteOut
<1>4. /\ iov \in Nat /\ n \in Nat /\ n <= iov /\ Len(seen) \in Nat /\ last \in Nat
      /\ unwritten \in Nat /\ remain \in Nat
      /\ seen \in Seq(0 .. Packets) /\ written \in Seq(0 .. Packets)
      /\ last + unwritten + iov = Len(seen)
  BY <1>1, Numbers, SMT DEF OutputInv
<1>5. /\ before \in Nat /\ before + n <= Len(seen) /\ last + unwritten = before
      /\ last <= before /\ before <= Len(seen)
  BY <1>4, SMT
<1> HIDE DEF before, last
<1> DEFINE new == SubSeq(seen, before + 1, before + n)
<1>6. /\ new \in Seq(0 .. Packets) /\ Len(new) = n
      /\ \A i \in 1 .. n : new[i] = seen[before + i]
  <2>1. ASSUME NEW i \in before + 1 .. before + n PROVE seen[i] \in 0 .. Packets
    <3>1. i \in 1 .. Len(seen)
      BY <1>4, <1>5, SMT
    <3> QED
      BY <1>4, <3>1, ElementOfSeq
  <2>2. before + 1 \in Int /\ before + n \in Int
    BY <1>4, <1>5, SMT
  <2>3. /\ new \in Seq(0 .. Packets)
        /\ Len(new) = IF before + 1 <= before + n THEN (before + n) - (before + 1) + 1 ELSE 0
        /\ \A i \in 1 .. (before + n) - (before + 1) + 1 : new[i] = seen[(before + 1) + i - 1]
    BY <2>1, <2>2, SubSeqProperties
  <2>4. (before + n) - (before + 1) + 1 = n /\ (before + 1 <= before + n <=> n # 0)
    BY <1>4, <1>5, SMT
  <2>5. ASSUME NEW i \in 1 .. n PROVE new[i] = seen[before + i]
    <3>1. (before + 1) + i - 1 = before + i
      BY <1>4, <1>5, SMT
    <3> QED
      BY <2>3, <2>4, <3>1
  <2> QED
    BY <2>3, <2>4, <2>5
<1> HIDE DEF new
<1>7. /\ written' \in Seq(0 .. Packets) /\ Len(written') = last + n
      /\ \A i \in 1 .. last + n :
            written'[i] = IF i <= last THEN written[i] ELSE new[i - last]
  <2>1. written' = written \o new
    BY <1>2 DEF new
  <2>2. /\ written \o new \in Seq(0 .. Packets) /\ Len(written \o new) = Len(written) + Len(new)
        /\ \A i \in 1 .. Len(written) + Len(new) :
              (written \o new)[i] = IF i <= Len(written) THEN written[i] ELSE new[i - Len(written)]
    BY <1>4, <1>6, ConcatProperties
  <2> QED
    BY <1>6, <2>1, <2>2 DEF last
<1>8. ASSUME NEW i \in 1 .. last + n
      PROVE  \/ i \in 1 .. last /\ written'[i] = written[i]
             \/ /\ i > last /\ i - last \in 1 .. n
                /\ before + (i - last) \in 1 .. Len(seen) /\ before + (i - last) > before
                /\ written'[i] = seen[before + (i - last)]
  <2>1. CASE i <= last
    <3>1. i \in 1 .. last
      BY <1>4, <2>1, SMT
    <3> QED
      BY <1>7, <2>1, <3>1
  <2>2. CASE ~ (i <= last)
    <3>1. /\ i > last /\ i - last \in 1 .. n
          /\ before + (i - last) \in 1 .. Len(seen) /\ before + (i - last) > before
      BY <1>4, <1>5, <2>2, SMT
    <3> QED
      BY <1>6, <1>7, <2>2, <3>1
  <2> QED
    BY <2>1, <2>2
<1>9. unwritten' \in Nat /\ last + n + unwritten' + iov' = Len(seen)
      /\ (unwritten' = 0 => unwritten = 0 /\ last = before)
  <2>1. unwritten' = unwritten + (iov - n) /\ iov' = 0
    BY <1>2, <1>3
  <2> QED
    BY <1>4, <1>5, <2>1, SMT
<1>10. DeviceTypeOK' /\ RingConsistent' /\ Aligned'
  <2>1. DeviceTypeOK' /\ RingConsistent'
    BY <1>1, <1>3 DEF DeviceTypeOK, RingConsistent, deviceVars, Ahead, Entry
  <2>2. taken' + iov' <= remain' /\ taken' = 0
    BY <1>3, <1>4, SMT DEF deviceVars
  <2>3. Aligned' = (/\ dropped' = 0 => rp' = Ahead(p', taken')
                    /\ taken' + iov' <= remain'
                    /\ at' # "process" => taken' = 0 /\ iov' = 0)
    BY DEF Aligned, Ahead
  <2> QED
    BY <1>1, <1>3, <2>1, <2>2, <2>3 DEF Aligned, deviceVars
<1>11. TypeOK'
  <2>1. iov' \in 0 .. EntryNum
    BY <1>3, EntryNumAssumption, SMT
  <2> QED
    BY <1>1, <1>3, <1>7, <1>9, <1>10, <2>1 DEF TypeOK, optionVars, loopVars, networkVars
<1>12. FileInv' /\ Sorted' /\ GapInv' /\ GapNoticed'
  BY <1>1, <1>3 DEF FileInv, Sorted, GapInv, GapNoticed, SequenceNum, Ahead, networkVars,
                    deviceVars
<1>13. ASSUME dropped = 0
       PROVE  /\ \A i \in 1 .. last + n : \E j \in 1 .. Len(seen) : written'[i] = seen[j]
              /\ \A i, j \in 1 .. last + n : i < j => written'[i] < written'[j]
              /\ unwritten' = 0 => \A i \in 1 .. last + n : written'[i] = seen[i]
  <2>1. ASSUME NEW i \in 1 .. last
        PROVE  \E j \in 1 .. before : written[i] = seen[j]
    BY <1>1, <1>13 DEF OutputInv, before, last
  <2>2. ASSUME NEW i \in 1 .. Len(seen), NEW j \in 1 .. Len(seen), i < j
        PROVE  seen[i] < seen[j]
    <3>1. /\ received[i] = seen[i] /\ received[j] = seen[j]
          /\ Len(received) = Len(seen) + (taken + done)
      BY <1>1, <1>13 DEF FileInv
    <3>2. i \in 1 .. Len(received) /\ j \in 1 .. Len(received)
      <4>1. taken \in Nat /\ done \in Nat
        BY Numbers, SMT
      <4> QED
        BY <1>4, <3>1, <4>1, SMT
    <3> QED
      BY <1>1, <2>2, <3>1, <3>2 DEF Sorted
  <2>3. ASSUME NEW i \in 1 .. last + n
        PROVE  \E j \in 1 .. Len(seen) : written'[i] = seen[j]
    <3>1. \A j \in 1 .. before : j \in 1 .. Len(seen)
      BY <1>4, <1>5, SMT
    <3> QED
      BY <1>8, <2>1, <3>1
  <2>4. ASSUME NEW i \in 1 .. last + n, NEW j \in 1 .. last + n, i < j
        PROVE  written'[i] < written'[j]
    <3>1. CASE j \in 1 .. last /\ written'[j] = written[j]
      <4>1. i \in 1 .. last /\ ~ (i > last)
        BY <1>4, <2>4, <3>1, SMT
      <4>2. written'[i] = written[i]
        BY <1>8, <4>1
      <4> QED
        BY <1>1, <1>13, <2>4, <3>1, <4>1, <4>2 DEF OutputInv, last
    <3>2. CASE /\ j > last /\ before + (j - last) \in 1 .. Len(seen)
               /\ before + (j - last) > before
               /\ written'[j] = seen[before + (j - last)]
      <4>1. CASE i \in 1 .. last /\ written'[i] = written[i]
        <5>1. PICK h \in 1 .. before : written[i] = seen[h]
          BY <2>1, <4>1
        <5>2. h \in 1 .. Len(seen) /\ h < before + (j - last)
          BY <1>4, <1>5, <3>2, <5>1, SMT
        <5> QED
          BY <2>2, <3>2, <4>1, <5>1, <5>2
      <4>2. CASE /\ i > last /\ before + (i - last) \in 1 .. Len(seen)
                 /\ written'[i] = seen[before + (i - last)]
        <5>1. before + (i - last) < before + (j - last)
          BY <1>4, <1>5, <2>4, SMT
        <5> QED
          BY <2>2, <3>2, <4>2, <5>1
      <4> QED
        BY <1>8, <4>1, <4>2
    <3> QED
      BY <1>8, <3>1, <3>2
  <2>5. ASSUME unwritten' = 0, NEW i \in 1 .. last + n
        PROVE  written'[i] = seen[i]
    <3>1. CASE i \in 1 .. last /\ written'[i] = written[i]
      BY <1>1, <1>9, <1>13, <2>5, <3>1 DEF OutputInv, last
    <3>2. CASE i > last /\ written'[i] = seen[before + (i - last)]
      <4>1. before + (i - last) = i
        BY <1>4, <1>5, <1>9, <2>5, SMT
      <4> QED
        BY <3>2, <4>1
    <3> QED
      BY <1>8, <3>1, <3>2
  <2> QED
    BY <2>3, <2>4, <2>5
<1>14. OutputInv'
  <2>1. Len(seen') - iov' = Len(seen) /\ seen' = seen /\ dropped' = dropped
    BY <1>3, <1>4, SMT
  <2> QED
    BY <1>7, <1>9, <1>13, <2>1 DEF OutputInv
<1>15. FrameInv'
  BY <1>1, <1>3 DEF FrameInv, deviceVars, optionVars, loopVars, ToInt
<1> QED
  BY <1>10, <1>11, <1>12, <1>14, <1>15 DEF IInv, StreamInv

\* Packets are dropped as a whole, before any of the call is seen.
LEMMA AllocFailsKeeps == IInv /\ AllocFails => IInv'
<1> SUFFICES ASSUME IInv, AllocFails PROVE IInv'
  OBVIOUS
<1>1. /\ TypeOK /\ DeviceTypeOK /\ RingConsistent /\ Aligned /\ StreamInv /\ FrameInv
  BY DEF IInv, TypeOK
<1>2. /\ at = "process" /\ iov = 0 /\ at' = "check" /\ dropped' = dropped + taken /\ taken' = 0
      /\ UNCHANGED <<deviceVars, optionVars, blocking, revents, loopVars, sigint,
                     p, seqno, error, iov, seen, written, unwritten, page, next, received>>
  BY DEF AllocFails, outputVars, networkVars
<1>3. /\ dropped \in Nat /\ taken \in Nat /\ remain \in Nat /\ Len(seen) \in Nat
      /\ filled \in Nat /\ repeat \in Int /\ done \in Nat
  BY Numbers, SMT
<1>4. dropped' \in Nat /\ (dropped' = 0 => dropped = 0 /\ taken = 0)
  BY <1>2, <1>3, SMT
<1>5. DeviceTypeOK' /\ RingConsistent'
  BY <1>1, <1>2 DEF DeviceTypeOK, RingConsistent, deviceVars, Ahead, Entry
<1>6. TypeOK'
  <2>1. taken' \in 0 .. EntryNum
    BY <1>2, EntryNumAssumption, SMT
  <2> QED
    BY <1>1, <1>2, <1>4, <1>5, <2>1 DEF TypeOK, optionVars, loopVars
<1>7. Aligned'
  <2>1. taken' + iov' <= remain'
    BY <1>2, <1>3, SMT DEF deviceVars
  <2>2. Aligned' = (/\ dropped' = 0 => rp' = Ahead(p', taken')
                    /\ taken' + iov' <= remain'
                    /\ at' # "process" => taken' = 0 /\ iov' = 0)
    BY DEF Aligned, Ahead
  <2> QED
    BY <1>1, <1>2, <1>4, <2>1, <2>2 DEF Aligned, deviceVars
<1>8. StreamInv'
  <2>1. FileInv'
    <3>1. CASE dropped' = 0
      <4>1. taken' = taken /\ dropped' = dropped
        BY <1>2, <1>4, <3>1
      <4> QED
        BY <1>1, <1>2, <4>1 DEF StreamInv, FileInv, Ahead, deviceVars
    <3>2. CASE dropped' # 0
      BY <3>2 DEF FileInv
    <3> QED
      BY <3>1, <3>2
  <2>2. OutputInv'
    BY <1>1, <1>2, <1>4 DEF StreamInv, OutputInv
  <2>3. Sorted' /\ GapInv' /\ GapNoticed'
    BY <1>1, <1>2 DEF StreamInv, Sorted, GapInv, GapNoticed, SequenceNum
  <2> QED
    BY <2>1, <2>2, <2>3 DEF StreamInv
<1>9. FrameInv'
  <2>1. /\ framenums' = framenums /\ inf' = inf /\ repeat' = repeat /\ waitflush' = waitflush
        /\ filled' = filled /\ seen' = seen
    BY <1>2 DEF deviceVars, optionVars, loopVars
  <2>2. ASSUME ~ inf
        PROVE  Len(seen) + dropped' + taken' + filled + repeat = ToInt(framenums)
    <3>1. Len(seen) + dropped + taken + filled + repeat = ToInt(framenums)
      BY <1>1, <2>2 DEF FrameInv
    <3> QED
      BY <1>2, <1>3, <3>1, SMT
  <2>3. ToInt(framenums)' = ToInt(framenums)
    BY <2>1 DEF ToInt
  <2> QED
    BY <1>1, <1>2, <2>1, <2>2, <2>3 DEF FrameInv
<1> QED
  BY <1>5, <1>6, <1>7, <1>8, <1>9 DEF IInv

\* A packet comes into the page behind those taken and completed.
LEMMA ReceiveKeeps == IInv /\ Receive => IInv'
<1> DEFINE e == queue[done + 1]
           held == taken + done
<1> SUFFICES ASSUME IInv, Receive PROVE IInv'
  OBVIOUS
<1>1. /\ TypeOK /\ RingInv /\ Aligned /\ FileInv /\ Sorted /\ OutputInv /\ GapInv
      /\ GapNoticed /\ FrameInv
  BY DEF IInv, StreamInv, TypeOK, RingInv
<1>2. /\ next < Packets /\ DriverCompletes /\ next' = next + 1
      /\ page' = [page EXCEPT ![e] = next'] /\ received' = Append(received, next')
      /\ UNCHANGED <<at, optionVars, blocking, revents, loopVars, taken, sigint, fileVars>>
  BY DEF Receive
<1>3. RingInv'
  BY <1>1, <1>2, DriverCompletesKeeps
<1>4. /\ done < Len(queue) /\ done' = done + 1
      /\ rp' = rp /\ remain' = remain /\ filled' = filled
  BY <1>2 DEF DriverCompletes
<1>5. /\ taken \in Nat /\ done \in Nat /\ held \in Nat /\ Len(seen) \in Nat
      /\ Len(received) \in Nat /\ p \in Entry /\ received \in Seq(Packet)
      /\ page \in [Entry -> 0 .. Packets] /\ EntryNum \in Nat \ {0}
      /\ done < filled /\ held < EntryNum /\ Len(queue) = filled
  <2>1. /\ p \in Entry /\ received \in Seq(Packet) /\ Len(queue) = filled
        /\ page \in [Entry -> 0 .. Packets] /\ EntryNum \in Nat \ {0}
        /\ Len(seen) \in Nat /\ Len(received) \in Nat
    BY Numbers
  <2>2. /\ taken \in 0 .. EntryNum /\ done \in 0 .. EntryNum /\ filled \in 0 .. EntryNum
        /\ remain \in 0 .. EntryNum /\ remain + filled = EntryNum /\ taken <= remain
    BY Numbers
  <2>3. done < filled
    BY <1>4, <2>1
  <2>4. taken \in Nat /\ done \in Nat /\ held \in Nat /\ held < EntryNum
    BY <2>1, <2>2, <2>3, SMT
  <2> QED
    BY <2>1, <2>3, <2>4
<1>6. next' \in Packet /\ next' \in 0 .. Packets
  BY <1>1, <1>2, ListenerAssumption, SMT DEF TypeOK, Packet, ListenerAssumption
<1>7. e \in Entry /\ (dropped = 0 => e = Ahead(p, held))
  <2>1. done + 1 \in 1 .. filled /\ (done + 1) - 1 = done
    BY <1>5, SMT
  <2>2. e = Ahead(rp, done)
    BY <1>1, <2>1, QueueEntries
  <2>3. Ahead(Ahead(p, taken), done) = Ahead(p, held)
    BY <1>5, AheadAhead, SMT
  <2>4. done \in 0 .. EntryNum /\ rp \in Entry
    BY Numbers
  <2>5. Ahead(rp, done) \in Entry
    BY <2>4, AheadEntry
  <2> QED
    BY <1>1, <2>2, <2>3, <2>5 DEF Aligned
<1>8. /\ received' \in Seq(Packet) /\ Len(received') = Len(received) + 1
      /\ \A i \in 1 .. Len(received) : received'[i] = received[i]
      /\ received'[Len(received) + 1] = next'
  BY <1>2, <1>5, <1>6, AppendProperties
<1> HIDE DEF e, held
<1>9. TypeOK'
  <2>1. page' \in [Entry -> 0 .. Packets]
    BY <1>2, <1>5, <1>6
  <2> QED
    BY <1>1, <1>2, <1>3, <1>6, <1>8, <2>1 DEF TypeOK, RingInv, optionVars, loopVars, fileVars, outputVars
<1>10. Aligned'
  BY <1>1, <1>2, <1>4 DEF Aligned, fileVars, Ahead
<1>11. FileInv'
  <2>0. dropped' = dropped
    BY <1>2 DEF fileVars
  <2> SUFFICES ASSUME dropped = 0
               PROVE  /\ Len(received') = Len(seen') + (taken' + done')
                      /\ \A i \in 1 .. Len(seen') : received'[i] = seen'[i]
                      /\ \A i \in 1 .. taken' + done' :
                            received'[Len(seen') + i] = page'[Ahead(p', i - 1)]
    BY <2>0 DEF FileInv, Ahead
  <2>1. Len(received) = Len(seen) + held
    BY <1>1 DEF FileInv, held
  <2>2. /\ seen' = seen /\ taken' = taken /\ p' = p /\ taken' + done' = held + 1
        /\ Len(received') = Len(seen) + (held + 1)
    BY <1>2, <1>4, <1>5, <1>8, <2>1, SMT DEF fileVars, held
  <2>3. ASSUME NEW i \in 1 .. Len(seen) PROVE received'[i] = seen[i]
    <3>1. i \in 1 .. Len(received)
      BY <1>5, <2>1, SMT
    <3> QED
      BY <1>1, <1>8, <3>1 DEF FileInv
  <2>4. ASSUME NEW i \in 1 .. held + 1
        PROVE  received'[Len(seen) + i] = page'[Ahead(p, i - 1)]
    <3>1. CASE i = held + 1
      <4>1. Len(seen) + i = Len(received) + 1 /\ i - 1 = held
        BY <1>5, <2>1, <3>1, SMT
      <4> QED
        BY <1>2, <1>5, <1>7, <1>8, <4>1
    <3>2. CASE i # held + 1
      <4>1. /\ i \in 1 .. held /\ Len(seen) + i \in 1 .. Len(received)
            /\ i - 1 \in 0 .. EntryNum - 1 /\ held \in 0 .. EntryNum - 1 /\ i - 1 # held
            /\ i - 1 \in 0 .. EntryNum
        BY <1>5, <2>1, <3>2, SMT
      <4>2. Ahead(p, i - 1) # e /\ Ahead(p, i - 1) \in Entry
        BY <1>5, <1>7, <4>1, AheadApart, AheadEntry
      <4>3. received[Len(seen) + i] = page[Ahead(p, i - 1)]
        BY <1>1, <4>1 DEF FileInv, held
      <4> QED
        BY <1>2, <1>5, <1>8, <4>1, <4>2, <4>3
    <3> QED
      BY <3>1, <3>2
  <2> QED
    BY <2>2, <2>3, <2>4
<1>12. GapInv' /\ GapNoticed' /\ OutputInv'
  BY <1>1, <1>2 DEF GapInv, GapNoticed, OutputInv, SequenceNum, fileVars, outputVars
<1>13. FrameInv'
  BY <1>1, <1>2, <1>4 DEF FrameInv, optionVars, loopVars, fileVars, ToInt
<1>14. Sorted'
  <2>1. next \in Nat /\ next < next'
    BY <1>1, <1>2, ListenerAssumption, SMT DEF TypeOK, ListenerAssumption
  <2>2. ASSUME NEW i \in 1 .. Len(received')
        PROVE  \/ i \in 1 .. Len(received) /\ received'[i] = received[i]
               \/ i = Len(received) + 1 /\ received'[i] = next'
    <3>1. i \in 1 .. Len(received) \/ i = Len(received) + 1
      BY <1>5, <1>8, SMT
    <3> QED
      BY <1>8, <3>1
  <2>3. ASSUME NEW i \in 1 .. Len(received)
        PROVE  received[i] < next'
    <3>1. received[i] <= next /\ received[i] \in Packet
      BY <1>1, <1>5, ElementOfSeq DEF Sorted
    <3>2. received[i] \in Int
      BY <3>1, ListenerAssumption, SMT DEF Packet, ListenerAssumption
    <3> QED
      BY <2>1, <1>2, <3>1, <3>2, SMT
  <2>4. ASSUME NEW i \in 1 .. Len(received')
        PROVE  received'[i] <= next'
    <3>1. received'[i] = next' \/ received'[i] < next'
      BY <2>2, <2>3
    <3>2. received'[i] \in Int /\ next' \in Int
      BY <1>6, <1>8, ElementOfSeq, ListenerAssumption, SMT DEF Packet, ListenerAssumption
    <3> QED
      BY <3>1, <3>2, SMT
  <2>5. ASSUME NEW i \in 1 .. Len(received'), NEW j \in 1 .. Len(received'), i < j
        PROVE  received'[i] < received'[j]
    <3>1. CASE j \in 1 .. Len(received) /\ received'[j] = received[j]
      <4>1. i \in 1 .. Len(received)
        BY <1>5, <1>8, <2>5, <3>1, SMT
      <4>2. received'[i] = received[i]
        BY <1>8, <4>1
      <4> QED
        BY <1>1, <2>5, <3>1, <4>1, <4>2 DEF Sorted
    <3>2. CASE j = Len(received) + 1 /\ received'[j] = next'
      <4>1. i \in 1 .. Len(received)
        BY <1>5, <1>8, <2>5, <3>2, SMT
      <4>2. received'[i] = received[i]
        BY <1>8, <4>1
      <4> QED
        BY <2>3, <3>2, <4>1, <4>2
    <3> QED
      BY <2>2, <3>1, <3>2
  <2> QED
    BY <2>4, <2>5 DEF Sorted
<1> QED
  BY <1>3, <1>9, <1>10, <1>11, <1>12, <1>13, <1>14 DEF IInv, StreamInv, RingInv

LEMMA NextKeeps == IInv /\ [Next]_vars => IInv'
<1> SUFFICES ASSUME IInv, [Next]_vars PROVE IInv'
  OBVIOUS
<1>1. CASE Push
  BY <1>1, PushKeeps
<1>2. CASE Take \/ TakeFraction
  BY <1>2, TakeKeeps
<1>3. CASE Process
  BY <1>3, ProcessKeeps
<1>4. CASE WriteOut
  BY <1>4, WriteOutKeeps
<1>5. CASE AllocFails
  BY <1>5, AllocFailsKeeps
<1>6. CASE Receive
  BY <1>6, ReceiveKeeps
<1>7. CASE Lose
  BY <1>7, LoseKeeps
<1>8. CASE Wait \/ DriverFails \/ Check \/ Signal \/ UNCHANGED vars
  BY <1>8, QuietKeeps
<1> QED
  BY <1>1, <1>2, <1>3, <1>4, <1>5, <1>6, <1>7, <1>8 DEF Next, Loop

LEMMA Invariance == Spec => []IInv
<1>1. IInv /\ [Next]_vars => IInv'
  BY NextKeeps
<1> QED
  BY InitInv, <1>1, PTL DEF Spec

-----------------------------------------------------------------------------
\* The inductive invariant says of the three parts of what is received what
\* SeenIsReceived says of their concatenation.
LEMMA SeenWhole == IInv /\ dropped = 0 => SeenIsReceived
<1> DEFINE held == [i \in 1 .. taken |-> page[Ahead(p, i - 1)]]
           atDriver == [i \in 1 .. done |-> page[queue[i]]]
           last == Len(seen)
<1> SUFFICES ASSUME IInv, dropped = 0 PROVE received = seen \o held \o atDriver
  BY DEF SeenIsReceived
<1>0. Packet \subseteq 0 .. Packets
  BY ListenerAssumption, SMT DEF Packet, ListenerAssumption
<1>1. /\ taken \in Nat /\ done \in Nat /\ last \in Nat /\ Len(received) \in Nat
      /\ p \in Entry /\ received \in Seq(Packet) /\ seen \in Seq(0 .. Packets)
      /\ taken + done <= EntryNum /\ done <= filled /\ EntryNum \in Nat /\ filled \in Nat
  BY Numbers, SMT
<1>2. FileInv /\ RingInv /\ Aligned
  BY DEF IInv, StreamInv, TypeOK, RingInv
<1>3. Len(received) = last + (taken + done)
  BY <1>2 DEF FileInv
<1> HIDE DEF last
<1>4. ASSUME NEW i \in 1 .. taken + done
      PROVE  received[last + i] = page[Ahead(p, i - 1)] /\ received[last + i] \in Packet
  <2>1. last + i \in 1 .. Len(received)
    BY <1>1, <1>3, SMT
  <2>2. received[last + i] \in Packet
    BY <1>1, <2>1, SMT
  <2> QED
    BY <1>2, <2>2 DEF FileInv, last
<1>5. ASSUME NEW i \in 1 .. taken
      PROVE  held[i] = received[last + i] /\ held[i] \in Packet
  <2>1. i \in 1 .. taken + done
    BY <1>1, SMT
  <2> QED
    BY <1>4, <2>1
<1>6. ASSUME NEW i \in 1 .. done
      PROVE  atDriver[i] = received[last + taken + i] /\ atDriver[i] \in Packet
  <2>1. /\ i \in 1 .. filled /\ taken + i \in 1 .. taken + done
        /\ last + (taken + i) = last + taken + i /\ taken + (i - 1) = (taken + i) - 1
        /\ i - 1 \in Nat /\ taken + (i - 1) <= EntryNum
    BY <1>1, SMT
  <2>2. queue[i] = Ahead(rp, i - 1)
    BY <1>2, <2>1, QueueEntries
  <2>3. Ahead(Ahead(p, taken), i - 1) = Ahead(p, (taken + i) - 1)
    BY <1>1, <2>1, AheadAhead
  <2>4. received[last + taken + i] = page[Ahead(p, (taken + i) - 1)]
        /\ received[last + taken + i] \in Packet
    BY <1>4, <2>1
  <2> QED
    BY <1>2, <2>2, <2>3, <2>4 DEF Aligned
<1>7. held \in Seq(0 .. Packets) /\ Len(held) = taken
  <2>1. held \in [1 .. taken -> 0 .. Packets]
    BY <1>0, <1>5
  <2> HIDE DEF held
  <2> QED
    BY <1>1, <2>1, SeqOf
<1>8. atDriver \in Seq(0 .. Packets) /\ Len(atDriver) = done
  <2>1. atDriver \in [1 .. done -> 0 .. Packets]
    BY <1>0, <1>6
  <2> HIDE DEF atDriver
  <2> QED
    BY <1>1, <2>1, SeqOf
<1> HIDE DEF held, atDriver
<1> DEFINE prefix == seen \o held
<1>9. /\ prefix \in Seq(0 .. Packets) /\ Len(prefix) = last + taken
      /\ \A i \in 1 .. last + taken :
            prefix[i] = IF i <= last THEN seen[i] ELSE held[i - last]
  BY <1>1, <1>7, ConcatProperties DEF last
<1> HIDE DEF prefix
<1>10. /\ prefix \o atDriver \in Seq(0 .. Packets)
       /\ Len(prefix \o atDriver) = (last + taken) + done
       /\ \A i \in 1 .. (last + taken) + done :
             (prefix \o atDriver)[i] =
                IF i <= last + taken THEN prefix[i] ELSE atDriver[i - (last + taken)]
  BY <1>8, <1>9, ConcatProperties
<1>11. ASSUME NEW i \in 1 .. Len(received)
       PROVE  received[i] = (prefix \o atDriver)[i]
  <2>1. i \in 1 .. (last + taken) + done
    BY <1>1, <1>3, SMT
  <2>2. CASE i <= last
    <3>1. i \in 1 .. last /\ i \in 1 .. last + taken /\ i <= last + taken
      BY <1>1, <2>1, <2>2, SMT
    <3>2. received[i] = seen[i]
      BY <1>2, <3>1 DEF FileInv, last
    <3> QED
      BY <1>9, <1>10, <2>1, <2>2, <3>1, <3>2
  <2>3. CASE i > last /\ i <= last + taken
    <3>1. /\ i - last \in 1 .. taken /\ i \in 1 .. last + taken /\ ~ (i <= last)
          /\ last + (i - last) = i
      BY <1>1, <2>1, <2>3, SMT
    <3>2. received[i] = held[i - last]
      BY <1>5, <3>1
    <3> QED
      BY <1>9, <1>10, <2>1, <2>3, <3>1, <3>2
  <2>4. CASE i > last + taken
    <3>1. /\ i - (last + taken) \in 1 .. done /\ ~ (i <= last + taken)
          /\ last + taken + (i - (last + taken)) = i
      BY <1>1, <2>1, <2>4, SMT
    <3>2. received[i] = atDriver[i - (last + taken)]
      BY <1>6, <3>1
    <3> QED
      BY <1>10, <2>1, <3>1, <3>2
  <2>5. i <= last \/ (i > last /\ i <= last + taken) \/ i > last + taken
    BY <1>1, <2>1, SMT
  <2> QED
    BY <2>2, <2>3, <2>4, <2>5
<1>12. Len(received) = Len(prefix \o atDriver)
  BY <1>1, <1>3, <1>10, SMT
<1>13. received \in Seq(0 .. Packets)
  BY <1>0, <1>1, SeqMonotonic
<1> QED
  BY <1>10, <1>11, <1>12, <1>13, SeqEqual DEF prefix

-----------------------------------------------------------------------------
\* The inductive invariant says of each place in the file what FileInOrder says of
\* the file.
LEMMA FileOrdered == IInv /\ dropped = 0 => FileInOrder
<1> SUFFICES ASSUME IInv, dropped = 0 PROVE FileInOrder
  OBVIOUS
<1>1. OutputInv
  BY DEF IInv, StreamInv
<1>2. /\ iov \in Nat /\ Len(seen) \in Nat /\ Len(written) \in Nat /\ unwritten \in Nat
      /\ seen \in Seq(0 .. Packets) /\ written \in Seq(0 .. Packets)
      /\ Len(written) + unwritten + iov = Len(seen)
  BY <1>1, Numbers, SMT DEF OutputInv
<1>3. \A j \in 1 .. Len(seen) - iov : j \in 1 .. Len(seen)
  BY <1>2, SMT
<1>4. ASSUME unwritten = 0 PROVE written = SubSeq(seen, 1, Len(seen) - iov)
  <2> DEFINE n == Len(seen) - iov
             first == SubSeq(seen, 1, n)
  <2>1. Len(written) = n /\ n \in Nat /\ n <= Len(seen)
    BY <1>2, <1>4, SMT
  <2>2. \A i \in 1 .. n : seen[i] \in 0 .. Packets
    BY <1>2, <1>3, ElementOfSeq
  <2> HIDE DEF n
  <2>3. /\ first \in Seq(0 .. Packets)
        /\ Len(first) = IF 1 <= n THEN n - 1 + 1 ELSE 0
        /\ \A i \in 1 .. n - 1 + 1 : first[i] = seen[1 + i - 1]
    BY <2>1, <2>2, SubSeqProperties
  <2>4. n - 1 + 1 = n /\ (1 <= n <=> n # 0)
    BY <2>1, SMT
  <2>5. ASSUME NEW i \in 1 .. n PROVE first[i] = seen[i]
    <3>1. 1 + i - 1 = i
      BY <2>1, SMT
    <3> QED
      BY <2>3, <2>4, <3>1
  <2>6. ASSUME NEW i \in 1 .. Len(written) PROVE written[i] = first[i]
    BY <1>1, <1>4, <2>1, <2>5 DEF OutputInv
  <2>7. Len(first) = Len(written)
    BY <2>1, <2>3, <2>4
  <2> HIDE DEF first
  <2>8. written = first
    BY <1>2, <2>3, <2>6, <2>7, SeqEqual
  <2> QED
    BY <2>8 DEF first, n
<1> QED
  BY <1>1, <1>3, <1>4 DEF OutputInv, FileInOrder

-----------------------------------------------------------------------------
\* For any ring, talker and limit, every variable keeps its type: dev->p and the
\* positions of the ring stay in it, and what is left of the limit stays an int.
THEOREM TypeCorrect == Spec => []TypeOK
<1>1. IInv => TypeOK
  BY DEF IInv
<1> QED
  BY Invariance, <1>1, PTL

\* For any ring, any packets lost and any part of the ring the driver accepts and
\* returns: until an allocation fails, simple_listener sees the stream it has received,
\* nothing twice, out of order or overwritten in its page, and its file is that stream
\* without what a failed or short write has left out; verify_1722packet counts a gap
\* when there is one, but for a loss of a multiple of SequenceNums packets.
THEOREM FileIsTheStream == Spec => []FileIsStream
<1>1. IInv => FileIsStream
  <2> SUFFICES ASSUME IInv PROVE FileIsStream
    OBVIOUS
  <2>1. GapNoticed
    BY DEF IInv, StreamInv
  <2>2. dropped = 0 => SeenIsReceived /\ FileInOrder
    BY SeenWhole, FileOrdered
  <2> QED
    BY <2>1, <2>2 DEF FileIsStream
<1> QED
  BY Invariance, <1>1, PTL

\* For any ring and any limit, when a loop of simple_listener ends by itself, what it
\* has written, what its writes have left out and what it has dropped for want of
\* memory are together as many packets as framenums, converted to int.
THEOREM FramesAreWritten == Spec => []FramesAtEnd
<1>1. IInv => FramesAtEnd
  <2> SUFFICES ASSUME IInv, at = "ended"
               PROVE  Len(written) + unwritten + dropped = ToInt(framenums)
    BY DEF FramesAtEnd
  <2>1. Aligned /\ OutputInv /\ FrameInv
    BY DEF IInv, StreamInv
  <2>2. /\ taken = 0 /\ iov = 0 /\ filled = 0 /\ repeat = 0
        /\ Len(seen) + dropped + taken + filled + repeat = ToInt(framenums)
        /\ Len(written) + unwritten + iov = Len(seen)
    BY <2>1 DEF Aligned, OutputInv, FrameInv
  <2>3. /\ Len(seen) \in Nat /\ Len(written) \in Nat /\ unwritten \in Nat /\ dropped \in Nat
    BY Numbers
  <2> QED
    BY <2>2, <2>3, SMT
<1> QED
  BY Invariance, <1>1, PTL

\* So a loop that ends by itself, with a limit that an int can have, no failed
\* allocation and no failed or short write, has exactly framenums packets in its file.
THEOREM FramesInFile ==
    Spec => [](at = "ended" /\ framenums <= IntMax /\ unwritten = 0 /\ dropped = 0
                  => Len(written) = framenums)
<1>1. IInv /\ FramesAtEnd =>
         (at = "ended" /\ framenums <= IntMax /\ unwritten = 0 /\ dropped = 0
             => Len(written) = framenums)
  <2> SUFFICES ASSUME IInv, FramesAtEnd, at = "ended", framenums <= IntMax,
                      unwritten = 0, dropped = 0
               PROVE  Len(written) = framenums
    OBVIOUS
  <2>1. framenums \in 0 .. IntMax
    <3>1. framenums \in Nat
      BY ListenerAssumption DEF IInv, TypeOK, ListenerAssumption
    <3> QED
      BY <3>1, IntAssumption, SMT
  <2>2. Len(written) + 0 + 0 = framenums
    BY <2>1, ToIntSame DEF FramesAtEnd
  <2>3. Len(written) \in Nat
    BY Numbers
  <2> QED
    BY <2>2, <2>3, SMT
<1> QED
  BY Invariance, FramesAreWritten, <1>1, PTL

=============================================================================
