------------------------ MODULE SimpleTalkerProofs ------------------------
(* The talker's loop, over the ring of the device with any number of        *)
(* entries: the ring, and the order and number of what is sent.             *)
EXTENDS SimpleTalker, FiniteSetsExt, SequenceTheorems, TLAPS

-----------------------------------------------------------------------------
(* The ring.                                                               *)

\* A remainder is less than its modulus.
LEMMA Remainder ==
    ASSUME NEW a \in Int, NEW n \in Nat \ {0}
    PROVE  a % n \in 0 .. n - 1
  BY SMT

\* A multiple of n that is between -n and n.
LEMMA SmallMultiple ==
    ASSUME NEW n \in Nat \ {0}, NEW t \in Int, n * t < n, -n < n * t
    PROVE  t = 0
<1>1. CASE t >= 1
  <2>1. n * t >= n
    BY <1>1, SMT
  <2> QED
    BY <2>1, SMT
<1>2. CASE t <= -1
  <2>1. n * t <= -n
    BY <1>2, SMT
  <2> QED
    BY <2>1, SMT
<1> QED
  BY <1>1, <1>2, SMT

\* To count on from a remainder is to count on from the number.
LEMMA RemainderSum ==
    ASSUME NEW a \in Nat, NEW k \in Nat, NEW n \in Nat \ {0}
    PROVE  ((a % n) + k) % n = (a + k) % n
<1> DEFINE r == a % n
           s == (r + k) % n
           t == (a + k) % n
           q == (a \div n) + ((r + k) \div n) - ((a + k) \div n)
<1>1. a = n * (a \div n) + r /\ r \in Nat /\ a \div n \in Int
  BY SMT
<1>2. r + k = n * ((r + k) \div n) + s /\ s \in 0 .. n - 1 /\ (r + k) \div n \in Int
  <2> HIDE DEF r
  <2> QED
    BY <1>1, SMT
<1>3. a + k = n * ((a + k) \div n) + t /\ t \in 0 .. n - 1 /\ (a + k) \div n \in Int
  BY SMT
<1> HIDE DEF r, s, t
<1>4. n * q = t - s /\ q \in Int
  <2>1. n * q = n * (a \div n) + n * ((r + k) \div n) - n * ((a + k) \div n) /\ q \in Int
    BY <1>1, <1>2, <1>3, SMT
  <2> QED
    BY <1>1, <1>2, <1>3, <2>1, SMT
<1> HIDE DEF q
<1>5. n * q < n /\ -n < n * q
  BY <1>2, <1>3, <1>4, SMT
<1>6. n * q = 0
  BY <1>4, <1>5, SmallMultiple, SMT
<1> QED
  BY <1>2, <1>3, <1>4, <1>6, SMT DEF r, s, t

\* A remainder, where a place in the ring moves by at most one round.
LEMMA AheadWithin ==
    ASSUME NEW s \in Entry, NEW n \in 0 .. EntryNum
    PROVE  Ahead(s, n) = IF s + n < EntryNum THEN s + n ELSE s + n - EntryNum
<1>1. CASE s + n < EntryNum
  BY <1>1, EntryNumAssumption, SMT DEF Entry, Ahead
<1>2. CASE s + n >= EntryNum
  BY <1>2, EntryNumAssumption, SMT DEF Entry, Ahead
<1> QED
  BY <1>1, <1>2, EntryNumAssumption, SMT DEF Entry

\* It is a place in the ring.
LEMMA AheadEntry ==
    ASSUME NEW s \in Entry, NEW n \in 0 .. EntryNum
    PROVE  Ahead(s, n) \in Entry
  BY AheadWithin, EntryNumAssumption, SMT DEF Entry

\* Two steps along the ring are one.
LEMMA AheadAhead ==
    ASSUME NEW s \in Entry, NEW m \in Nat, NEW n \in Nat, m + n <= EntryNum
    PROVE  Ahead(Ahead(s, m), n) = Ahead(s, m + n)
<1>1. m \in 0 .. EntryNum /\ n \in 0 .. EntryNum /\ m + n \in 0 .. EntryNum
  BY EntryNumAssumption, SMT
<1>2. Ahead(s, m) = (IF s + m < EntryNum THEN s + m ELSE s + m - EntryNum)
      /\ Ahead(s, m) \in Entry
  BY <1>1, AheadWithin, AheadEntry
<1>3. Ahead(s, m + n) = IF s + (m + n) < EntryNum THEN s + (m + n) ELSE s + (m + n) - EntryNum
  BY <1>1, AheadWithin
<1>4. Ahead(Ahead(s, m), n) = IF Ahead(s, m) + n < EntryNum THEN Ahead(s, m) + n
                              ELSE Ahead(s, m) + n - EntryNum
  BY <1>1, <1>2, AheadWithin
<1> QED
  BY <1>1, <1>2, <1>3, <1>4, EntryNumAssumption, SMT DEF Entry

\* Places less than a round apart are different.
LEMMA AheadApart ==
    ASSUME NEW s \in Entry, NEW m \in 0 .. EntryNum - 1, NEW n \in 0 .. EntryNum - 1, m # n
    PROVE  Ahead(s, m) # Ahead(s, n)
<1>1. m \in 0 .. EntryNum /\ n \in 0 .. EntryNum
  BY EntryNumAssumption, SMT
<1> QED
  BY <1>1, AheadWithin, EntryNumAssumption, SMT DEF Entry

\* No step along the ring stays at a place.
LEMMA AheadZero ==
    ASSUME NEW s \in Entry
    PROVE  Ahead(s, 0) = s
<1>1. 0 \in 0 .. EntryNum
  BY EntryNumAssumption, SMT
<1> QED
  BY <1>1, AheadWithin, EntryNumAssumption, SMT DEF Entry

\* A function on the first n numbers is a sequence.
LEMMA SeqOf ==
    ASSUME NEW S, NEW n \in Nat, NEW f \in [1 .. n -> S]
    PROVE  f \in Seq(S) /\ Len(f) = n
  BY SMT

\* The smaller of two numbers.
LEMMA MinOfTwo ==
    ASSUME NEW a \in Int, NEW b \in Int
    PROVE  /\ Min({a, b}) \in Int
           /\ Min({a, b}) <= a
           /\ Min({a, b}) <= b
           /\ Min({a, b}) \in {a, b}
<1>1. \E x \in {a, b} : \A y \in {a, b} : x =< y
  BY SMT
<1> QED
  BY <1>1, SMT DEF Min

\* The conversion to int gives an int.
LEMMA ToIntType ==
    ASSUME NEW n \in Nat
    PROVE  ToInt(n) \in IntRange
<1>1. n + IntMax + 1 \in Nat /\ 2 * IntMax + 2 \in Nat \ {0} /\ IntMax \in Nat
  BY IntAssumption, SMT
<1>2. (n + IntMax + 1) % (2 * IntMax + 2) \in 0 .. (2 * IntMax + 2) - 1
  BY <1>1, Remainder
<1> QED
  BY <1>1, <1>2, SMT DEF ToInt, IntRange

\* and keeps a number that an int can have.
LEMMA ToIntSame ==
    ASSUME NEW n \in 0 .. IntMax
    PROVE  ToInt(n) = n
<1>1. /\ n + IntMax + 1 \in Nat /\ 2 * IntMax + 2 \in Nat \ {0}
      /\ n + IntMax + 1 < 2 * IntMax + 2 /\ IntMax \in Nat /\ n \in Nat
  BY IntAssumption, SMT
<1>2. (n + IntMax + 1) % (2 * IntMax + 2) = n + IntMax + 1
  <2>1. ASSUME NEW x \in Nat, NEW y \in Nat \ {0}, x < y PROVE x % y = x
    BY <2>1, SMT
  <2> QED
    BY <1>1, <2>1
<1> QED
  BY <1>1, <1>2, SMT DEF ToInt

-----------------------------------------------------------------------------
(* The operations of the device.                                            *)

\* The inductive invariant of the device.
RingInv == DeviceTypeOK /\ RingConsistent

\* What the queue of a consistent ring holds.
LEMMA QueueEntries ==
    ASSUME RingInv, NEW i \in 1 .. filled
    PROVE  /\ queue[i] = Ahead(rp, i - 1)
           /\ Len(queue) = filled
           /\ queue \in Seq(Entry)
  BY DEF RingInv, DeviceTypeOK, RingConsistent

\* eavb_device_push_entry keeps the ring consistent, whatever the driver accepts,
LEMMA PushEntryKeeps ==
    ASSUME RingInv, NEW count, NEW accepted \in 0 .. remain, PushEntry(count, accepted)
    PROVE  RingInv'
<1> DEFINE new == [i \in 1 .. accepted |-> entrybuf[Ahead(wp, i - 1)]]
<1> USE EntryNumAssumption
<1>1. /\ wp = Ahead(rp, filled) /\ rp \in Entry /\ wp \in Entry
      /\ filled \in Nat /\ remain \in Nat /\ accepted \in Nat
      /\ filled + accepted <= EntryNum /\ remain + filled = EntryNum
      /\ done \in Nat /\ done <= filled
      /\ queue \in Seq(Entry) /\ Len(queue) = filled
      /\ entrybuf \in [Entry -> Entry]
      /\ \A e \in Entry : entrybuf[e] = e
      /\ \A i \in 1 .. filled : queue[i] = Ahead(rp, i - 1)
  BY SMT DEF RingInv, DeviceTypeOK, RingConsistent
<1>2. ASSUME NEW i \in 1 .. accepted
      PROVE  /\ new[i] = Ahead(wp, i - 1)
             /\ new[i] = Ahead(rp, filled + i - 1)
             /\ new[i] \in Entry
  <2>1. i - 1 \in 0 .. EntryNum /\ filled + i - 1 \in 0 .. EntryNum /\ filled \in 0 .. EntryNum
    BY <1>1, SMT
  <2>2. Ahead(wp, i - 1) \in Entry
    BY <1>1, <2>1, AheadEntry
  <2>3. new[i] = Ahead(wp, i - 1)
    BY <1>1, <2>2
  <2>4. i - 1 \in Nat /\ filled + (i - 1) <= EntryNum /\ filled + (i - 1) = filled + i - 1
    BY <1>1, SMT
  <2>5. Ahead(wp, i - 1) = Ahead(rp, filled + i - 1)
    BY <1>1, <2>4, AheadAhead
  <2> QED
    BY <2>2, <2>3, <2>5
<1>3. new \in Seq(Entry) /\ Len(new) = accepted
  <2>1. new \in [1 .. accepted -> Entry] /\ accepted \in Nat
    BY <1>1, <1>2
  <2> QED
    BY <2>1, SeqOf
<1>4. /\ queue' = queue \o new /\ remain' = remain - accepted /\ filled' = filled + accepted
      /\ wp' = Ahead(wp, accepted) /\ rp' = rp /\ entrybuf' = entrybuf /\ done' = done
  BY DEF PushEntry
<1> HIDE DEF new
<1>5. /\ queue' \in Seq(Entry) /\ Len(queue') = filled'
      /\ \A i \in 1 .. filled' :
            queue'[i] = IF i <= filled THEN queue[i] ELSE new[i - filled]
  <2>1. /\ queue \o new \in Seq(Entry) /\ Len(queue \o new) = Len(queue) + Len(new)
        /\ \A i \in 1 .. Len(queue) + Len(new) :
              (queue \o new)[i] = IF i <= Len(queue) THEN queue[i] ELSE new[i - Len(queue)]
    BY <1>1, <1>3, ConcatProperties
  <2>2. Len(queue) = filled /\ Len(new) = accepted /\ queue' = queue \o new
        /\ filled' = filled + accepted
    BY <1>1, <1>3, <1>4
  <2> QED
    BY <2>1, <2>2
<1>6. ASSUME NEW i \in 1 .. filled'
      PROVE  queue'[i] = Ahead(rp, i - 1)
  <2>1. CASE i <= filled
    <3>1. i \in 1 .. filled
      BY <1>1, <1>4, <2>1, SMT
    <3> QED
      BY <1>1, <1>5, <2>1, <3>1
  <2>2. CASE ~ (i <= filled)
    <3>1. i - filled \in 1 .. accepted
      BY <1>1, <1>4, <2>2, SMT
    <3>2. queue'[i] = new[i - filled]
      BY <1>5, <2>2
    <3>3. new[i - filled] = Ahead(rp, filled + (i - filled) - 1)
      BY <3>1, <1>2
    <3>4. filled + (i - filled) - 1 = i - 1
      BY <1>1, <1>4, <3>1, SMT
    <3> QED
      BY <3>2, <3>3, <3>4
  <2> QED
    BY <2>1, <2>2
<1>7. wp' \in Entry /\ wp' = Ahead(rp, filled')
  <2>1. accepted \in 0 .. EntryNum
    BY <1>1, SMT
  <2>2. wp' \in Entry
    BY <1>1, <1>4, <2>1, AheadEntry
  <2>3. Ahead(wp, accepted) = Ahead(rp, filled + accepted)
    BY <1>1, AheadAhead
  <2> QED
    BY <1>4, <2>2, <2>3
<1>8. DeviceTypeOK'
  BY <1>1, <1>4, <1>5, <1>7, SMT DEF DeviceTypeOK
<1>9. RingConsistent'
  <2>1. wp' = Ahead(rp', filled') /\ \A i \in 1 .. filled' : queue'[i] = Ahead(rp', i - 1)
    BY <1>4, <1>6, <1>7
  <2>2. \A e \in Entry : entrybuf'[e] = e
    BY <1>1, <1>4
  <2>3. remain' + filled' = EntryNum /\ done' <= filled'
    BY <1>1, <1>4, SMT
  <2>4. RingConsistent' = (/\ remain' + filled' = EntryNum /\ filled' = Len(queue')
                           /\ done' <= filled' /\ wp' = Ahead(rp', filled')
                           /\ \A i \in 1 .. filled' : queue'[i] = Ahead(rp', i - 1)
                           /\ \A e \in Entry : entrybuf'[e] = e)
    BY DEF RingConsistent, Ahead, Entry
  <2> QED
    BY <1>5, <2>1, <2>2, <2>3, <2>4
<1> QED
  BY <1>8, <1>9 DEF RingInv

\* The place of an entry counted from another one, and back.
LEMMA PlaceBack ==
    ASSUME NEW e \in Entry, NEW s \in Entry
    PROVE  /\ (e - s + EntryNum) % EntryNum \in 0 .. EntryNum - 1
           /\ Ahead(s, (e - s + EntryNum) % EntryNum) = e
<1> DEFINE r == IF e >= s THEN e - s ELSE e - s + EntryNum
<1>1. (e - s + EntryNum) % EntryNum = r
  <2>1. CASE e >= s
    BY <2>1, EntryNumAssumption, SMT DEF Entry
  <2>2. CASE e < s
    BY <2>2, EntryNumAssumption, SMT DEF Entry
  <2> QED
    BY <2>1, <2>2, SMT DEF Entry
<1>2. r \in 0 .. EntryNum - 1 /\ r \in 0 .. EntryNum
  BY EntryNumAssumption, SMT DEF Entry
<1>3. Ahead(s, r) = IF s + r < EntryNum THEN s + r ELSE s + r - EntryNum
  BY <1>2, AheadWithin
<1>4. Ahead(s, r) = e
  BY <1>3, EntryNumAssumption, SMT DEF Entry
<1> QED
  BY <1>1, <1>2, <1>4

\* and eavb_device_take_entry, whatever it returns of what it has completed;
LEMMA TakeEntryKeeps ==
    ASSUME RingInv, NEW returned \in 0 .. done, TakeEntry(returned)
    PROVE  RingInv'
<1> USE EntryNumAssumption
<1>1. /\ wp = Ahead(rp, filled) /\ rp \in Entry /\ wp \in Entry
      /\ filled \in 0 .. EntryNum /\ remain \in Nat /\ returned \in 0 .. EntryNum
      /\ done \in Nat /\ returned <= done /\ done <= filled
      /\ remain + filled = EntryNum
      /\ queue \in Seq(Entry) /\ Len(queue) = filled
      /\ entrybuf \in [Entry -> Entry]
      /\ \A e \in Entry : entrybuf[e] = e
      /\ \A i \in 1 .. filled : queue[i] = Ahead(rp, i - 1)
  BY SMT DEF RingInv, DeviceTypeOK, RingConsistent
<1>2. /\ queue' = SubSeq(queue, returned + 1, Len(queue))
      /\ done' = done - returned /\ remain' = remain + returned /\ filled' = filled - returned
      /\ rp' = Ahead(rp, returned) /\ wp' = wp
  BY DEF TakeEntry
<1>3. /\ rp' = IF rp + returned < EntryNum THEN rp + returned ELSE rp + returned - EntryNum
      /\ rp' \in Entry
  BY <1>1, <1>2, AheadWithin, AheadEntry
<1>4. ASSUME NEW n \in 0 .. filled - returned
      PROVE  Ahead(rp', n) = Ahead(rp, n + returned)
  <2>1. /\ n \in Nat /\ returned \in Nat /\ returned + n <= EntryNum
        /\ n + returned = returned + n
    BY <1>1, SMT
  <2> QED
    BY <1>1, <1>2, <2>1, AheadAhead
<1>5. entrybuf' = entrybuf
  <2>1. ASSUME NEW e \in Entry
        PROVE  (LET i == ((e - rp + EntryNum) % EntryNum) + 1
                IN  IF i <= returned THEN queue[i] ELSE entrybuf[e]) = e
    <3> DEFINE r == (e - rp + EntryNum) % EntryNum
    <3>1. r \in 0 .. EntryNum - 1 /\ Ahead(rp, r) = e
      BY <1>1, PlaceBack
    <3> HIDE DEF r
    <3>2. ASSUME r + 1 <= returned PROVE queue[r + 1] = e
      <4>1. r + 1 \in 1 .. filled /\ (r + 1) - 1 = r
        BY <1>1, <3>1, <3>2, SMT
      <4> QED
        BY <1>1, <3>1, <4>1
    <3>3. entrybuf[e] = e
      BY <1>1
    <3> QED
      BY <3>2, <3>3 DEF r
  <2>2. entrybuf' = [e \in Entry |->
                       LET i == ((e - rp + EntryNum) % EntryNum) + 1
                       IN  IF i <= returned THEN queue[i] ELSE entrybuf[e]]
    BY DEF TakeEntry
  <2>3. entrybuf' = [e \in Entry |-> e]
    BY <2>1, <2>2
  <2> QED
    BY <1>1, <2>3
<1>6. /\ queue' \in Seq(Entry) /\ Len(queue') = filled'
      /\ \A i \in 1 .. filled' : queue'[i] = queue[returned + i]
  <2>1. \A i \in returned + 1 .. Len(queue) : queue[i] \in Entry
    BY <1>1, SMT
  <2>2. returned + 1 \in Int /\ Len(queue) \in Int
    BY <1>1, SMT
  <2>3. /\ queue' \in Seq(Entry)
        /\ Len(queue') = IF returned + 1 <= Len(queue) THEN Len(queue) - (returned + 1) + 1 ELSE 0
        /\ \A i \in 1 .. Len(queue) - (returned + 1) + 1 : queue'[i] = queue[(returned + 1) + i - 1]
    BY <1>2, <2>1, <2>2, SubSeqProperties
  <2>4. Len(queue') = filled' /\ Len(queue) - (returned + 1) + 1 = filled'
    <3>1. /\ Len(queue) = filled /\ filled' = filled - returned /\ filled \in Nat
          /\ returned \in Nat /\ returned <= filled
      BY <1>1, <1>2, SMT
    <3> QED
      BY <2>3, <3>1
  <2>5. ASSUME NEW i \in 1 .. filled' PROVE queue'[i] = queue[returned + i]
    <3>1. (returned + 1) + i - 1 = returned + i
      BY <1>1, <1>2, SMT
    <3> QED
      BY <2>3, <2>4, <3>1
  <2> QED
    BY <2>3, <2>4, <2>5
<1>7. ASSUME NEW i \in 1 .. filled'
      PROVE  queue'[i] = Ahead(rp', i - 1)
  <2>1. returned + i \in 1 .. filled /\ i - 1 \in 0 .. filled - returned
    BY <1>1, <1>2, SMT
  <2>2. queue'[i] = Ahead(rp, (returned + i) - 1)
    BY <1>1, <1>6, <2>1
  <2>3. Ahead(rp', i - 1) = Ahead(rp, (i - 1) + returned)
    BY <1>4, <2>1
  <2>4. (returned + i) - 1 = (i - 1) + returned
    BY <1>1, <1>2, SMT
  <2> QED
    BY <2>2, <2>3, <2>4
<1>8. wp' = Ahead(rp', filled')
  <2>1. filled' \in 0 .. filled - returned /\ filled' + returned = filled
    BY <1>1, <1>2, SMT
  <2> QED
    BY <1>1, <1>2, <1>4, <2>1
<1>9. DeviceTypeOK'
  BY <1>1, <1>2, <1>3, <1>5, <1>6, SMT DEF DeviceTypeOK
<1>10. RingConsistent'
  <2>1. remain' + filled' = EntryNum /\ done' <= filled'
    BY <1>1, <1>2, SMT
  <2>2. \A e \in Entry : entrybuf'[e] = e
    BY <1>1, <1>5
  <2>3. RingConsistent' = (/\ remain' + filled' = EntryNum /\ filled' = Len(queue')
                           /\ done' <= filled' /\ wp' = Ahead(rp', filled')
                           /\ \A i \in 1 .. filled' : queue'[i] = Ahead(rp', i - 1)
                           /\ \A e \in Entry : entrybuf'[e] = e)
    BY DEF RingConsistent, Ahead, Entry
  <2> QED
    BY <1>6, <1>7, <1>8, <2>1, <2>2, <2>3
<1> QED
  BY <1>9, <1>10 DEF RingInv

\* so does the driver.
LEMMA DriverCompletesKeeps ==
    ASSUME RingInv, DriverCompletes
    PROVE  RingInv'
<1>1. /\ rp' = rp /\ wp' = wp /\ remain' = remain /\ filled' = filled
      /\ entrybuf' = entrybuf /\ queue' = queue
      /\ done < Len(queue) /\ done' = done + 1
  BY DEF DriverCompletes
<1>2. done' \in 0 .. EntryNum /\ done' <= filled
  BY <1>1, EntryNumAssumption, SMT DEF RingInv, DeviceTypeOK, RingConsistent
<1>3. DeviceTypeOK'
  BY <1>1, <1>2 DEF RingInv, DeviceTypeOK
<1>4. RingConsistent'
  BY <1>1, <1>2 DEF RingInv, RingConsistent, Ahead, Entry
<1> QED
  BY <1>3, <1>4 DEF RingInv

-----------------------------------------------------------------------------
(* The loop.                                                                *)

\* What talker_process fills is pushed in the same turn, and is never more than the
\* room in the ring, nor than framenums has left.
SizeInv ==
    /\ process_size <= remain
    /\ ~ inf /\ process_size > 0 => process_size <= repeat
    /\ at \notin {"push", "failed"} => process_size = 0

IInv == TypeOK /\ RingConsistent /\ SizeInv

\* The headers keep their types.
LEMMA HeadersType ==
    ASSUME TypeOK, NEW count \in 0 .. EntryNum, Headers(count)
    PROVE  /\ number' \in [Entry -> 0 .. SequenceNums - 1]
           /\ seqnum' \in 0 .. SequenceNums - 1
<1> USE EntryNumAssumption, TalkerAssumption
<1>1. p \in Entry /\ seqnum \in Nat /\ number \in [Entry -> 0 .. SequenceNums - 1]
  BY SMT DEF TypeOK
<1>2. ASSUME NEW e \in Entry
      PROVE  (seqnum + Rank(e)) % SequenceNums \in 0 .. SequenceNums - 1
  <2>1. Rank(e) \in 0 .. EntryNum - 1
    BY <1>1, PlaceBack DEF Rank
  <2>2. seqnum + Rank(e) \in Int
    BY <1>1, <2>1, SMT
  <2> QED
    BY <2>2, Remainder
<1>3. (seqnum + count) % SequenceNums \in 0 .. SequenceNums - 1
  <2>1. seqnum + count \in Int
    BY <1>1, SMT
  <2> QED
    BY <2>1, Remainder
<1> QED
  BY <1>1, <1>2, <1>3 DEF Headers

\* A read returns no more than there is room for, or is left.
LEMMA ReadableBounds ==
    ASSUME TypeOK, NEW count \in 0 .. EntryNum, NEW n \in Readable(count)
    PROVE  n \in 0 .. count /\ pos + n <= FileLength
<1> DEFINE most == Min({count, FileLength - pos})
<1>1. pos \in Nat /\ FileLength - pos \in Nat /\ count \in Nat
  BY EntryNumAssumption, TalkerAssumption, SMT DEF TypeOK, Portion
<1>2. most \in Nat /\ most <= count /\ most <= FileLength - pos
  BY <1>1, MinOfTwo
<1>3. n \in IF pipe /\ most > 0 THEN 1 .. most ELSE {most}
  BY DEF Readable
<1> HIDE DEF most
<1>4. n \in 0 .. most
  BY <1>2, <1>3, SMT
<1> QED
  BY <1>1, <1>2, <1>4, TalkerAssumption, SMT

\* What is left of n pages when the limit has cut them.
LEMMA CutSize ==
    ASSUME TypeOK, NEW n \in 0 .. remain, NEW size,
           size = IF inf THEN n ELSE Min({n, repeat})
    PROVE  /\ size \in - (IntMax + 1) .. EntryNum
           /\ size <= n /\ size <= remain
           /\ ~ inf => size <= repeat
           /\ inf \/ repeat >= 0 => size >= 0
           /\ inf \/ size < repeat => size = n
<1>1. /\ n \in Int /\ 0 <= n /\ n <= remain /\ remain \in Nat /\ remain <= EntryNum
      /\ IntMax \in Nat /\ EntryNum \in Nat /\ inf \in BOOLEAN
      /\ repeat \in Int /\ - (IntMax + 1) <= repeat
  BY IntAssumption, EntryNumAssumption, SMT DEF TypeOK, DeviceTypeOK, IntRange
<1>2. /\ Min({n, repeat}) <= n /\ Min({n, repeat}) <= repeat /\ Min({n, repeat}) \in {n, repeat}
  BY <1>1, MinOfTwo
<1>3. CASE inf
  <2>1. size = n
    BY <1>3
  <2> QED
    BY <1>1, <1>3, <2>1, SMT
<1>4. CASE ~ inf
  <2>1. size = Min({n, repeat})
    BY <1>4
  <2>2. /\ size \in - (IntMax + 1) .. EntryNum
        /\ size <= n /\ size <= remain /\ size <= repeat
        /\ (repeat >= 0 => size >= 0)
        /\ (size < repeat => size = n)
    BY <1>1, <1>2, <2>1, SMT
  <2> QED
    BY <1>4, <2>2
<1> QED
  BY <1>3, <1>4

\* The read keeps the types, and fills no more than the loop may push.
LEMMA ReadType ==
    ASSUME TypeOK, NEW n \in Readable(remain), Read(remain, n)
    PROVE  /\ pos' \in Portion
           /\ page' \in [Entry -> Portion]
           /\ p' \in Entry
           /\ process_size' \in - (IntMax + 1) .. EntryNum
           /\ process_size' <= remain
           /\ ~ inf => process_size' <= repeat
           /\ read_end' \in BOOLEAN
<1> USE EntryNumAssumption, TalkerAssumption
<1>1. /\ remain \in 0 .. EntryNum /\ p \in Entry /\ pos \in Portion
      /\ page \in [Entry -> Portion]
  BY DEF TypeOK, DeviceTypeOK
<1>2. n \in 0 .. remain /\ pos + n <= FileLength /\ n \in 0 .. EntryNum /\ n \in Nat
  BY <1>1, ReadableBounds, SMT
<1>3. pos' \in Portion
  BY <1>1, <1>2, SMT DEF Read, Portion
<1>4. page' \in [Entry -> Portion]
  <2>1. ASSUME NEW e \in Filled(n) PROVE pos + Rank(e) + 1 \in Portion
    <3>1. Rank(e) \in 0 .. EntryNum - 1 /\ Rank(e) < n
      BY <1>1, PlaceBack DEF Filled, Rank
    <3> QED
      BY <1>1, <1>2, <3>1, SMT DEF Portion
  <2> QED
    BY <1>1, <2>1 DEF Read
<1>5. p' \in Entry
  <2>1. (IF n = 0 THEN remain ELSE n) \in 0 .. EntryNum
    BY <1>1, <1>2, SMT
  <2> QED
    BY <1>1, <2>1, AheadEntry DEF Read
<1>6. /\ process_size' \in - (IntMax + 1) .. EntryNum /\ process_size' <= remain
      /\ (~ inf => process_size' <= repeat)
  <2>1. process_size' = IF inf THEN n ELSE Min({n, repeat})
    BY DEF Read
  <2> QED
    BY <1>2, <2>1, CutSize
<1>7. read_end' \in BOOLEAN
  BY DEF Read, TypeOK
<1> QED
  BY <1>3, <1>4, <1>5, <1>6, <1>7

LEMMA InitIInv == Init => IInv
<1> USE EntryNumAssumption, TalkerAssumption
<1> SUFFICES ASSUME Init PROVE IInv
  OBVIOUS
<1>1. DeviceTypeOK
  BY SMT DEF Init, DeviceInit, DeviceTypeOK, Entry
<1>2. repeat \in IntRange /\ inf \in BOOLEAN
  <2>1. framenums \in Nat
    BY DEF Init
  <2>2. ToInt(framenums) \in IntRange /\ 1 \in IntRange
    BY <2>1, ToIntType, IntAssumption, SMT DEF IntRange
  <2> QED
    BY <2>2 DEF Init
<1>3. TypeOK
  <2>1. /\ 0 \in Portion /\ 0 \in 0 .. SequenceNums - 1 /\ 0 \in Entry
        /\ 0 \in - (IntMax + 1) .. EntryNum
    BY IntAssumption, SMT DEF Portion, Entry
  <2>2. /\ page \in [Entry -> Portion]
        /\ number \in [Entry -> 0 .. SequenceNums - 1]
    BY <2>1 DEF Init
  <2>3. revents \subseteq Events
    BY DEF Init
  <2> QED
    BY <1>1, <1>2, <2>1, <2>2, <2>3 DEF Init, TypeOK
<1>4. RingConsistent
  <2>1. 0 \in Entry /\ 0 \in 0 .. EntryNum /\ filled = 0 /\ rp = 0
    BY SMT DEF Init, DeviceInit, Entry
  <2>2. Ahead(0, 0) = 0
    BY <2>1, AheadWithin, SMT
  <2> QED
    BY <2>1, <2>2, SMT DEF Init, DeviceInit, RingConsistent
<1>5. SizeInv
  BY <1>2, SMT DEF Init, DeviceInit, SizeInv
<1> QED
  BY <1>3, <1>4, <1>5 DEF IInv

\* An action that leaves the device alone.
LEMMA DeviceUnchanged ==
    ASSUME RingInv, UNCHANGED deviceVars
    PROVE  RingInv'
  BY DEF RingInv, DeviceTypeOK, RingConsistent, deviceVars, Ahead, Entry

LEMMA FillKeeps == IInv /\ Fill => IInv'
<1> SUFFICES ASSUME IInv, Fill PROVE IInv'
  OBVIOUS
<1>1. TypeOK /\ RingInv /\ RingInv' /\ remain \in 0 .. EntryNum /\ remain' = remain
  BY DeviceUnchanged DEF IInv, RingInv, TypeOK, DeviceTypeOK, Fill, deviceVars
<1>2. PICK n \in Readable(remain) : Read(remain, n)
  BY DEF Fill
<1>3. /\ pos' \in Portion /\ page' \in [Entry -> Portion] /\ p' \in Entry
      /\ process_size' \in - (IntMax + 1) .. EntryNum /\ process_size' <= remain
      /\ (~ inf => process_size' <= repeat) /\ read_end' \in BOOLEAN
  BY <1>1, <1>2, ReadType
<1>4. /\ number' \in [Entry -> 0 .. SequenceNums - 1]
      /\ seqnum' \in 0 .. SequenceNums - 1
  BY <1>1, HeadersType DEF Fill
<1>5. TypeOK'
  BY <1>1, <1>3, <1>4 DEF TypeOK, Fill, optionVars, worldVars, RingInv
<1>6. SizeInv'
  BY <1>1, <1>3 DEF SizeInv, Fill
<1> QED
  BY <1>1, <1>5, <1>6 DEF IInv, RingInv

LEMMA ReadFailsKeeps == IInv /\ ReadFails => IInv'
<1> SUFFICES ASSUME IInv, ReadFails PROVE IInv'
  OBVIOUS
<1>1. /\ TypeOK /\ RingInv /\ RingInv' /\ remain \in 0 .. EntryNum /\ remain' = remain
      /\ p \in Entry
  BY DeviceUnchanged DEF IInv, RingInv, TypeOK, DeviceTypeOK, ReadFails, deviceVars
<1>2. p' \in Entry
  BY <1>1, AheadEntry DEF ReadFails
<1>3. /\ process_size' \in - (IntMax + 1) .. EntryNum /\ process_size' <= remain
      /\ (~ inf => process_size' <= repeat)
  <2>1. process_size' = IF inf THEN remain ELSE Min({remain, repeat})
    BY DEF ReadFails
  <2>2. remain \in 0 .. remain
    BY <1>1, EntryNumAssumption, SMT
  <2> QED
    BY <1>1, <2>1, <2>2, CutSize
<1>4. /\ number' \in [Entry -> 0 .. SequenceNums - 1]
      /\ seqnum' \in 0 .. SequenceNums - 1
  BY <1>1, HeadersType DEF ReadFails
<1>5. TypeOK'
  BY <1>1, <1>2, <1>3, <1>4 DEF TypeOK, ReadFails, optionVars, worldVars, RingInv
<1>6. SizeInv'
  BY <1>1, <1>3 DEF SizeInv, ReadFails
<1> QED
  BY <1>1, <1>5, <1>6 DEF IInv, RingInv

LEMMA AllocFailsKeeps == IInv /\ AllocFails => IInv'
<1> SUFFICES ASSUME IInv, AllocFails PROVE IInv'
  OBVIOUS
<1>1. TypeOK /\ RingInv /\ RingInv' /\ remain \in 0 .. EntryNum /\ remain' = remain
  BY DeviceUnchanged DEF IInv, RingInv, TypeOK, DeviceTypeOK, AllocFails, deviceVars
<1>2. /\ process_size' \in - (IntMax + 1) .. EntryNum /\ process_size' <= remain
      /\ (~ inf => process_size' <= repeat)
  <2>1. process_size' = IF inf THEN remain ELSE Min({remain, repeat})
    BY DEF AllocFails
  <2>2. remain \in 0 .. remain
    BY <1>1, EntryNumAssumption, SMT
  <2> QED
    BY <1>1, <2>1, <2>2, CutSize
<1>3. TypeOK'
  BY <1>1, <1>2 DEF TypeOK, AllocFails, optionVars, worldVars, fillVars, RingInv
<1>4. SizeInv'
  BY <1>1, <1>2 DEF SizeInv, AllocFails
<1> QED
  BY <1>1, <1>3, <1>4 DEF IInv, RingInv

LEMMA PushKeeps == IInv /\ Push => IInv'
<1> USE EntryNumAssumption
<1> SUFFICES ASSUME IInv, Push PROVE IInv'
  OBVIOUS
<1>1. PICK accepted \in Acceptable : /\ PushEntry(process_size, accepted)
                                     /\ CountDown(accepted)
                                     /\ disturbed' = (disturbed \/ accepted < process_size)
  BY DEF Push
<1>2. /\ TypeOK /\ RingInv /\ SizeInv /\ process_size \in Nat /\ process_size <= remain
      /\ remain \in Nat /\ repeat \in IntRange /\ waitmode \in {"poll", "nowait", "waitall"}
  <2>1. TypeOK /\ RingInv /\ SizeInv /\ process_size \in - (IntMax + 1) .. EntryNum
        /\ process_size >= 0
    BY DEF IInv, TypeOK, RingInv, Push
  <2>2. process_size \in Nat
    BY <2>1, IntAssumption, SMT
  <2> QED
    BY <2>1, <2>2, SMT DEF TypeOK, RingInv, DeviceTypeOK, SizeInv
<1>3. accepted \in 0 .. process_size
  BY <1>1, <1>2, SMT DEF Acceptable
<1>4. accepted \in 0 .. remain
  BY <1>2, <1>3, SMT
<1>5. RingInv'
  BY <1>1, <1>2, <1>4, PushEntryKeeps
<1>6. repeat' \in IntRange /\ inf' \in BOOLEAN /\ read_end' \in BOOLEAN
  <2>1. CASE inf
    BY <1>1, <2>1, <1>2 DEF CountDown, TypeOK
  <2>2. CASE ~ inf
    <3>1. repeat' = repeat - accepted /\ (process_size > 0 => process_size <= repeat)
      BY <1>1, <1>2, <2>2 DEF CountDown, SizeInv
    <3>2. repeat' \in IntRange
      BY <1>2, <1>3, <3>1, IntAssumption, SMT DEF IntRange
    <3>3. inf' \in BOOLEAN /\ read_end' \in BOOLEAN
      BY <1>1, <1>2, <2>2 DEF CountDown, TypeOK
    <3> QED
      BY <3>2, <3>3
  <2> QED
    BY <2>1, <2>2
<1>7. process_size' = 0 /\ remain' \in Nat /\ process_size' \in - (IntMax + 1) .. EntryNum
  BY <1>5, IntAssumption, SMT DEF Push, RingInv, DeviceTypeOK
<1>8. TypeOK'
  BY <1>1, <1>2, <1>5, <1>6, <1>7 DEF TypeOK, Push, optionVars, worldVars, fillVars, RingInv
<1>9. SizeInv'
  BY <1>6, <1>7, SMT DEF SizeInv
<1> QED
  BY <1>5, <1>8, <1>9 DEF IInv, RingInv

\* What is asked of the driver is a number.
LEMMA AskedNat ==
    ASSUME TypeOK
    PROVE  Asked \in Nat /\ Asked \in {filled, Thresh}
<1>1. filled \in Nat /\ Thresh \in Nat /\ filled \in Int /\ Thresh \in Int
  BY TalkerAssumption, EntryNumAssumption, SMT DEF TypeOK, DeviceTypeOK
<1>2. Min({filled, Thresh}) \in {filled, Thresh}
  BY <1>1, MinOfTwo
<1> QED
  BY <1>1, <1>2 DEF Asked

LEMMA TakeKeeps == IInv /\ Take => IInv'
<1> USE EntryNumAssumption
<1> SUFFICES ASSUME IInv, Take PROVE IInv'
  OBVIOUS
<1>1. /\ TypeOK /\ RingInv /\ SizeInv /\ done \in Nat /\ filled \in Nat /\ remain \in Nat
      /\ process_size = 0 /\ process_size' = process_size
      /\ waitmode \in {"poll", "nowait", "waitall"}
  BY SMT DEF IInv, TypeOK, RingInv, DeviceTypeOK, SizeInv, Take
<1>2. RingInv'
  <2>1. CASE "read" \in revents
    <3>1. PICK n \in Returnable : TakeEntry(n)
      BY <2>1 DEF Take
    <3>2. Asked \in Nat
      BY <1>1, AskedNat
    <3>3. n \in 0 .. done
      BY <1>1, <3>1, <3>2, SMT DEF Returnable
    <3> QED
      BY <1>1, <3>1, <3>3, TakeEntryKeeps
  <2>2. CASE "read" \notin revents
    BY <1>1, <2>2, DeviceUnchanged DEF Take
  <2> QED
    BY <2>1, <2>2
<1>3. process_size' = 0 /\ remain' \in Nat
  BY <1>1, <1>2, SMT DEF RingInv, DeviceTypeOK
<1>4. TypeOK'
  BY <1>1, <1>2 DEF TypeOK, Take, optionVars, loopVars, worldVars, fillVars, RingInv
<1>5. SizeInv'
  BY <1>3, SMT DEF SizeInv
<1> QED
  BY <1>2, <1>4, <1>5 DEF IInv, RingInv


\* The actions that leave the device and what has been filled alone.
LEMMA WaitKeeps == IInv /\ Wait => IInv'
<1> SUFFICES ASSUME IInv, Wait PROVE IInv'
  OBVIOUS
<1>1. TypeOK /\ RingInv /\ SizeInv /\ RingInv' /\ remain' = remain
  BY DeviceUnchanged DEF IInv, RingInv, TypeOK, Wait, deviceVars
<1>2. revents' \subseteq Events
  <2>1. (IF waitflush THEN {"read"} ELSE Events) \subseteq Events
    BY DEF Events
  <2> QED
    BY <2>1 DEF Wait
<1>3. at' \in {"fill", "take"}
  BY DEF Wait, AtWrite
<1>4. TypeOK'
  BY <1>1, <1>2, <1>3 DEF TypeOK, Wait, optionVars, loopVars, worldVars, fillVars, RingInv
<1>5. SizeInv'
  BY <1>1 DEF SizeInv, Wait, loopVars
<1> QED
  BY <1>1, <1>4, <1>5 DEF IInv, RingInv

LEMMA EndKeeps == IInv /\ (DriverFails \/ Stop \/ Continue) => IInv'
<1> SUFFICES ASSUME IInv, DriverFails \/ Stop \/ Continue PROVE IInv'
  OBVIOUS
<1>1. /\ TypeOK /\ RingInv /\ SizeInv /\ RingInv' /\ remain' = remain
      /\ process_size' = process_size /\ repeat' = repeat
  BY DeviceUnchanged
  DEF IInv, RingInv, TypeOK, DriverFails, Stop, Continue, deviceVars, loopVars
<1>2. CASE DriverFails
  <2>1. TypeOK'
    BY <1>1, <1>2
    DEF TypeOK, DriverFails, optionVars, loopVars, worldVars, fillVars, RingInv
  <2>2. SizeInv'
    BY <1>1, <1>2 DEF SizeInv, DriverFails, loopVars
  <2> QED
    BY <1>1, <2>1, <2>2 DEF IInv, RingInv
<1>3. CASE Stop \/ Continue
  <2>1. at = "check" /\ at' \in {"stopped", "wait", "ended"}
    BY <1>3 DEF Stop, Continue
  <2>2. inf' \in BOOLEAN /\ waitflush' \in BOOLEAN /\ read_end' = read_end
    BY <1>1, <1>3 DEF TypeOK, Stop, Continue
  <2>3. TypeOK'
    BY <1>1, <1>3, <2>1, <2>2
    DEF TypeOK, Stop, Continue, optionVars, worldVars, fillVars, RingInv
  <2>4. process_size = 0 /\ ~ (process_size > 0)
    BY <1>1, <2>1, SMT DEF SizeInv
  <2>5. SizeInv'
    BY <1>1, <2>4 DEF SizeInv
  <2> QED
    BY <1>1, <2>3, <2>5 DEF IInv, RingInv
<1> QED
  BY <1>2, <1>3

LEMMA SendKeeps == IInv /\ Send => IInv'
<1> SUFFICES ASSUME IInv, Send PROVE IInv'
  OBVIOUS
<1>1. TypeOK /\ RingInv /\ SizeInv /\ RingInv'
  BY DriverCompletesKeeps DEF IInv, RingInv, TypeOK, Send
<1>2. sent' \in Portion
  <2>1. done + 1 \in 1 .. Len(queue)
    BY <1>1, SMT DEF RingInv, DeviceTypeOK, Send, DriverCompletes
  <2>2. queue[done + 1] \in Entry
    BY <1>1, <2>1, SMT DEF RingInv, DeviceTypeOK
  <2> QED
    BY <1>1, <2>2 DEF Send, TypeOK
<1>3. TypeOK'
  BY <1>1, <1>2 DEF TypeOK, Send, optionVars, loopVars, worldVars, fillVars, RingInv
<1>4. SizeInv'
  BY <1>1 DEF SizeInv, Send, DriverCompletes, loopVars
<1> QED
  BY <1>1, <1>3, <1>4 DEF IInv, RingInv

LEMMA WorldKeeps == IInv /\ (Signal \/ ListenersChange \/ UNCHANGED vars) => IInv'
<1> SUFFICES ASSUME IInv, Signal \/ ListenersChange \/ UNCHANGED vars PROVE IInv'
  OBVIOUS
<1>1. /\ TypeOK /\ RingInv /\ SizeInv /\ RingInv' /\ remain' = remain
  BY DeviceUnchanged
  DEF IInv, RingInv, TypeOK, Signal, ListenersChange, vars, deviceVars
<1>2. /\ at' = at /\ revents' = revents /\ process_size' = process_size /\ sent' = sent
      /\ disturbed' = disturbed /\ UNCHANGED <<optionVars, loopVars, fillVars>>
      /\ sigint' \in BOOLEAN /\ listening' \in BOOLEAN
  BY <1>1 DEF TypeOK, Signal, ListenersChange, vars, worldVars
<1>3. TypeOK'
  BY <1>1, <1>2 DEF TypeOK, optionVars, loopVars, fillVars, RingInv
<1>4. SizeInv'
  BY <1>1, <1>2 DEF SizeInv, loopVars
<1> QED
  BY <1>1, <1>3, <1>4 DEF IInv, RingInv

LEMMA NextKeeps == IInv /\ [Next]_vars => IInv'
<1> SUFFICES ASSUME IInv, [Next]_vars PROVE IInv'
  OBVIOUS
<1>1. CASE Wait
  BY <1>1, WaitKeeps
<1>2. CASE Fill
  BY <1>2, FillKeeps
<1>3. CASE ReadFails
  BY <1>3, ReadFailsKeeps
<1>9. CASE AllocFails
  BY <1>9, AllocFailsKeeps
<1>4. CASE Push
  BY <1>4, PushKeeps
<1>5. CASE Take
  BY <1>5, TakeKeeps
<1>6. CASE DriverFails \/ Stop \/ Continue
  BY <1>6, EndKeeps
<1>7. CASE Send
  BY <1>7, SendKeeps
<1>8. CASE Signal \/ ListenersChange \/ UNCHANGED vars
  BY <1>8, WorldKeeps
<1> QED
  BY <1>1, <1>2, <1>3, <1>4, <1>5, <1>6, <1>7, <1>8, <1>9 DEF Next, Loop

LEMMA Invariance == Spec => []IInv
<1>1. IInv /\ [Next]_vars => IInv'
  BY NextKeeps
<1> QED
  BY InitIInv, <1>1, PTL DEF Spec

\* For any ring, file and limit, every variable keeps its type: in particular no
\* position of the ring leaves it, and the loop never has more at the driver, or
\* counted down from framenums, than there is.
THEOREM TypeCorrect == Spec => []TypeOK
<1>1. IInv => TypeOK
  BY DEF IInv
<1> QED
  BY Invariance, <1>1, PTL

\* For any ring, whatever part of what it is offered the driver accepts and returns,
\* the ring is the driver's queue: eavb_device_take_entry copies each entry back to
\* the place eavb_device_push_entry took it from, around the end of the buffer too.
THEOREM RingIsTheQueue == Spec => []RingConsistent
<1>1. IInv => RingConsistent
  BY DEF IInv
<1> QED
  BY Invariance, <1>1, PTL

-----------------------------------------------------------------------------
(* The order of the portions.                                               *)

\* framenums, as the loop has it: 0 for no limit, and negative for some that an int
\* cannot hold.
Limit == ToInt(framenums)

\* Where the loop is in its turn: talker_process is called before the end of what is
\* to be read, the end, or the limit, is noticed in the same turn, and a device that
\* does not poll has room again at the end of a turn.  With a negative limit nothing
\* is ever pushed.
TurnInv ==
    /\ at \in {"fill", "push"} => ~ waitflush
    /\ at \in {"wait", "fill"} /\ read_end => waitflush
    /\ waitflush /\ at # "stopped" => read_end
    /\ Limit = 0 /\ at \notin {"stopped", "ended"} => inf
    /\ Limit > 0 /\ inf => repeat = 0 /\ read_end
    /\ Limit > 0 /\ ~ inf /\ at \notin {"stopped", "ended"} => repeat > 0
    /\ Limit > 0 /\ ~ read_end => repeat > 0
    /\ at = "push" /\ Limit > 0 => ~ inf
    /\ Limit >= 0 => repeat >= 0 /\ process_size >= 0
    /\ Limit < 0 => ~ inf /\ repeat < 0 /\ filled = 0
    /\ Limit < 0 /\ at = "push" => process_size < 0
    /\ waitmode # "poll" /\ at \in {"fill", "push", "take"} => "read" \in revents
    /\ waitmode # "poll" /\ at \in {"wait", "fill", "check"} => remain > 0

\* The limit does not cut what has been filled.
Uncut == Limit = 0 \/ process_size < repeat

\* The portions that have gone to the driver.
Gone == sent + (filled - done)

\* What has been filled follows what is at the driver, in the ring and in the file.
FillInv ==
    /\ \A i \in 1 .. process_size : page[Ahead(wp, i - 1)] = Gone + i
    /\ Uncut => pos = Gone + process_size
    /\ Uncut /\ ~ read_end => p = Ahead(wp, process_size)
    /\ Uncut /\ read_end => pos = FileLength
    /\ Limit > 0 => Gone + repeat = Limit
    /\ at = "ended" /\ Limit \in 0 .. FileLength =>
            filled = 0 /\ sent = IF Limit = 0 THEN FileLength ELSE Limit

\* The numbers of the pages, and of the next one.
NumberInv ==
    /\ \A i \in 1 .. filled : number[queue[i]] = (page[queue[i]] - 1) % SequenceNums
    /\ \A i \in 1 .. process_size :
            number[Ahead(wp, i - 1)] = (page[Ahead(wp, i - 1)] - 1) % SequenceNums
    /\ Uncut /\ ~ read_end /\ pos < FileLength => seqnum = pos % SequenceNums

OrderInv ==
    /\ SentInOrder
    /\ ~ disturbed => FillInv
    /\ ~ disturbed /\ ~ pipe => NumberInv

\* The types, as numbers.
LEMMA Numbers ==
    ASSUME IInv
    PROVE  /\ rp \in Entry /\ wp \in Entry /\ p \in Entry
           /\ remain \in 0 .. EntryNum /\ filled \in 0 .. EntryNum
           /\ done \in 0 .. EntryNum /\ done <= filled /\ remain + filled = EntryNum
           /\ process_size \in Int /\ process_size <= remain
           /\ (~ inf /\ process_size > 0 => process_size <= repeat)
           /\ (at \notin {"push", "failed"} => process_size = 0)
           /\ repeat \in Int /\ Limit \in Int
           /\ pos \in 0 .. FileLength /\ sent \in 0 .. FileLength
           /\ EntryNum \in Nat \ {0} /\ FileLength \in Nat /\ SequenceNums \in Nat \ {0}
           /\ Len(queue) = filled /\ wp = Ahead(rp, filled)
           /\ \A i \in 1 .. filled : queue[i] = Ahead(rp, i - 1)
           /\ page \in [Entry -> Portion] /\ number \in [Entry -> 0 .. SequenceNums - 1]
           /\ seqnum \in 0 .. SequenceNums - 1
           /\ waitmode \in {"poll", "nowait", "waitall"}
           /\ inf \in BOOLEAN /\ read_end \in BOOLEAN /\ waitflush \in BOOLEAN
           /\ disturbed \in BOOLEAN /\ pipe \in BOOLEAN
<1>1. TypeOK /\ DeviceTypeOK /\ RingConsistent /\ SizeInv
  BY DEF IInv, TypeOK
<1>2. EntryNum \in Nat \ {0} /\ FileLength \in Nat /\ SequenceNums \in Nat \ {0}
      /\ IntMax \in Nat /\ framenums \in Nat
  BY <1>1, EntryNumAssumption, TalkerAssumption, IntAssumption DEF TypeOK
<1>3. /\ pos \in 0 .. FileLength /\ sent \in 0 .. FileLength
      /\ repeat \in Int /\ process_size \in Int /\ Limit \in Int
  <2>1. Limit \in IntRange
    BY <1>2, ToIntType DEF Limit
  <2>2. /\ pos \in 0 .. FileLength /\ sent \in 0 .. FileLength
        /\ repeat \in IntRange /\ process_size \in - (IntMax + 1) .. EntryNum
    BY <1>1 DEF TypeOK, Portion
  <2> QED
    BY <1>2, <2>1, <2>2, SMT DEF IntRange
<1>4. /\ rp \in Entry /\ wp \in Entry /\ p \in Entry
      /\ remain \in 0 .. EntryNum /\ filled \in 0 .. EntryNum /\ done \in 0 .. EntryNum
  BY <1>1 DEF TypeOK, DeviceTypeOK
<1>5. /\ done <= filled /\ remain + filled = EntryNum
      /\ Len(queue) = filled /\ wp = Ahead(rp, filled)
      /\ \A i \in 1 .. filled : queue[i] = Ahead(rp, i - 1)
  BY <1>1 DEF RingConsistent
<1>6. /\ process_size <= remain /\ (~ inf /\ process_size > 0 => process_size <= repeat)
      /\ (at \notin {"push", "failed"} => process_size = 0)
  BY <1>1 DEF SizeInv
<1> QED
  BY <1>1, <1>2, <1>3, <1>4, <1>5, <1>6 DEF TypeOK

\* The limit does not change.
LEMMA LimitStays == [Next]_vars => Limit' = Limit
<1>1. [Next]_vars => framenums' = framenums
  BY DEF Next, Loop, Wait, Fill, ReadFails, AllocFails, Push, Take, DriverFails, Stop,
         Continue, Send, Signal, ListenersChange, vars, optionVars
<1> QED
  BY <1>1 DEF Limit, ToInt

\* Each page of the queue is a page of the ring.
LEMMA QueueEntry ==
    ASSUME IInv, NEW i \in 1 .. filled
    PROVE  queue[i] \in Entry
  BY SMT DEF IInv, TypeOK, DeviceTypeOK, RingConsistent

\* A place is as far from dev->p as it was counted.
LEMMA RankAhead ==
    ASSUME p \in Entry, NEW k \in 0 .. EntryNum - 1
    PROVE  /\ Ahead(p, k) \in Entry
           /\ Rank(Ahead(p, k)) = k
<1>1. k \in 0 .. EntryNum
  BY EntryNumAssumption, SMT
<1>2. Ahead(p, k) \in Entry
  BY <1>1, AheadEntry
<1>3. Rank(Ahead(p, k)) \in 0 .. EntryNum - 1 /\ Ahead(p, Rank(Ahead(p, k))) = Ahead(p, k)
  BY <1>2, PlaceBack DEF Rank
<1> QED
  BY <1>2, <1>3, AheadApart

\* With dev->p at wp, the pages at the driver are not among those that are filled.
LEMMA QueueApart ==
    ASSUME IInv, p = wp, NEW i \in 1 .. filled, NEW count \in 0 .. remain
    PROVE  queue[i] \notin Filled(count)
<1> DEFINE e == queue[i]
<1>1. /\ rp \in Entry /\ p = Ahead(rp, filled) /\ e = Ahead(rp, i - 1)
      /\ filled \in Nat /\ remain \in Nat /\ remain + filled = EntryNum
      /\ EntryNum \in Nat \ {0} /\ p \in Entry
  BY Numbers
<1>2. e \in Entry
  BY QueueEntry
<1>3. Rank(e) \in 0 .. EntryNum - 1 /\ Ahead(p, Rank(e)) = e
  BY <1>1, <1>2, PlaceBack DEF Rank
<1> HIDE DEF e
<1>4. SUFFICES ASSUME Rank(e) < count PROVE FALSE
  BY DEF Filled, e
<1>5. Rank(e) \in Nat /\ filled + Rank(e) <= EntryNum /\ filled + Rank(e) \in 0 .. EntryNum - 1
      /\ i - 1 \in 0 .. EntryNum - 1 /\ filled + Rank(e) # i - 1
  BY <1>1, <1>3, <1>4, SMT
<1>6. e = Ahead(rp, filled + Rank(e))
  BY <1>1, <1>3, <1>5, AheadAhead
<1> QED
  BY <1>1, <1>5, <1>6, AheadApart

\* A device that does not poll returns an entry, if it has one.
LEMMA TakeMakesRoom ==
    ASSUME IInv, IInv', TurnInv, Take, waitmode # "poll"
    PROVE  remain' > 0
<1>1. /\ filled \in Nat /\ remain \in Nat /\ remain + filled = EntryNum /\ EntryNum \in Nat \ {0}
      /\ waitmode \in {"poll", "nowait", "waitall"} /\ done \in Nat
  BY Numbers, SMT
<1>2. "read" \in revents
  BY DEF TurnInv, Take
<1>3. PICK n \in Returnable : TakeEntry(n)
  BY <1>2 DEF Take
<1>4. Asked \in Nat /\ Asked \in {filled, Thresh} /\ Thresh > 0
  <2>1. TypeOK
    BY DEF IInv
  <2> QED
    BY <2>1, TalkerAssumption, AskedNat, SMT
<1>5. n \in Nat /\ (n = 0 => Asked = 0)
  BY <1>1, <1>3, <1>4, SMT DEF Returnable
<1>6. remain' = remain + n
  BY <1>3 DEF TakeEntry
<1> QED
  BY <1>1, <1>4, <1>5, <1>6, SMT

\* Nothing is taken from a driver that has nothing.
LEMMA TakeFromEmpty ==
    ASSUME IInv, Take, filled = 0
    PROVE  filled' = 0
<1>1. done = 0 /\ waitmode \in {"poll", "nowait", "waitall"}
  BY Numbers, SMT
<1>2. CASE "read" \in revents
  <2>1. PICK n \in Returnable : TakeEntry(n)
    BY <1>2 DEF Take
  <2>2. Asked \in Nat
    BY AskedNat DEF IInv
  <2>3. n = 0
    BY <1>1, <2>1, <2>2, SMT DEF Returnable
  <2> QED
    BY <2>1, <2>3, SMT DEF TakeEntry
<1>3. CASE "read" \notin revents
  BY <1>3 DEF Take, deviceVars
<1> QED
  BY <1>2, <1>3

LEMMA TurnKeeps == IInv /\ IInv' /\ TurnInv /\ [Next]_vars => TurnInv'
<1> SUFFICES ASSUME IInv, IInv', TurnInv, [Next]_vars PROVE TurnInv'
  OBVIOUS
<1>1. /\ repeat \in Int /\ repeat' \in Int /\ Limit \in Int /\ Limit' = Limit
      /\ waitmode \in {"poll", "nowait", "waitall"}
      /\ inf \in BOOLEAN /\ read_end \in BOOLEAN /\ waitflush \in BOOLEAN
      /\ remain \in Nat /\ process_size \in Int
  <2>1. repeat' \in Int
    BY IntAssumption, SMT DEF IInv, TypeOK, IntRange
  <2> QED
    BY <2>1, Numbers, LimitStays, SMT
<1>2. CASE Wait
  <2>1. /\ at = "wait" /\ at' = AtWrite(revents')
        /\ UNCHANGED <<deviceVars, optionVars, process_size, loopVars, worldVars, fillVars>>
    BY <1>2 DEF Wait
  <2>2. ("write" \in revents') => ~ waitflush
    BY <1>2 DEF Wait
  <2>3. waitmode # "poll" => "read" \in revents'
    BY <1>2 DEF Wait, Events
  <2> QED
    BY <1>1, <2>1, <2>2, <2>3 DEF TurnInv, AtWrite, deviceVars, optionVars, loopVars
<1>3. CASE Fill \/ ReadFails \/ AllocFails
  <2>1. /\ at = "fill" /\ at' = "push" /\ (read_end => read_end')
        /\ UNCHANGED <<deviceVars, optionVars, revents, inf, waitflush, repeat>>
    BY <1>3 DEF Fill, ReadFails, AllocFails, Read
  <2>2. \E n \in 0 .. remain : process_size' = IF inf THEN n ELSE Min({n, repeat})
    <3>1. CASE Fill
      <4>1. PICK n \in Readable(remain) : Read(remain, n)
        BY <3>1 DEF Fill
      <4>2. n \in 0 .. remain
        BY ReadableBounds DEF IInv, TypeOK, DeviceTypeOK
      <4> QED
        BY <4>1, <4>2 DEF Read
    <3>2. CASE ReadFails \/ AllocFails
      <4>1. remain \in 0 .. remain
        BY <1>1, SMT
      <4> QED
        BY <3>2, <4>1 DEF ReadFails, AllocFails
    <3> QED
      BY <1>3, <3>1, <3>2
  <2>3. /\ inf \/ repeat >= 0 => process_size' >= 0
        /\ ~ inf => process_size' <= repeat
    BY <2>2, CutSize DEF IInv
  <2>4. /\ Limit >= 0 => process_size' >= 0
        /\ Limit < 0 => process_size' < 0
    <3>1. process_size' \in Int /\ repeat \in Int
      BY <1>1, IntAssumption, EntryNumAssumption, SMT DEF IInv, TypeOK
    <3>2. /\ Limit >= 0 => repeat >= 0
          /\ Limit < 0 => ~ inf /\ repeat < 0
      BY DEF TurnInv
    <3> QED
      BY <2>3, <3>1, <3>2, SMT
  <2> QED
    BY <1>1, <2>1, <2>4 DEF TurnInv, deviceVars, optionVars
<1>4. CASE Push
  <2>1. PICK accepted \in Acceptable : CountDown(accepted)
    BY <1>4 DEF Push
  <2>2. /\ at = "push" /\ at' = IF "read" \in revents THEN "take" ELSE "check"
        /\ process_size' = 0 /\ process_size >= 0
        /\ UNCHANGED <<optionVars, revents, waitflush>>
    BY <1>4 DEF Push
  <2>3. ~ (Limit < 0) /\ Limit >= 0 /\ repeat >= 0
    BY <1>1, <2>2, SMT DEF TurnInv
  <2>4. CASE inf
    BY <1>1, <2>1, <2>2, <2>3, <2>4, SMT DEF TurnInv, CountDown, optionVars
  <2>5. CASE ~ inf
    <3>1. inf' = (repeat' <= 0) /\ read_end' = (read_end \/ repeat' <= 0) /\ Limit # 0
      BY <2>1, <2>2, <2>5 DEF CountDown, TurnInv
    <3>2. repeat' >= 0
      <4>1. accepted \in 0 .. process_size
        BY <1>1, <2>1, <2>2, SMT DEF Acceptable
      <4>2. process_size > 0 => process_size <= repeat
        BY <2>5 DEF IInv, SizeInv
      <4>3. repeat' = repeat - accepted
        BY <2>1, <2>5 DEF CountDown
      <4> QED
        BY <1>1, <2>2, <2>3, <4>1, <4>2, <4>3, SMT
    <3>3. (repeat' <= 0 => repeat' = 0) /\ (~ (repeat' <= 0) => repeat' > 0)
          /\ process_size' >= 0
      BY <1>1, <2>2, <3>2, SMT
    <3> QED
      BY <1>1, <2>2, <2>3, <2>5, <3>1, <3>2, <3>3, Zenon DEF TurnInv, optionVars
  <2> QED
    BY <2>4, <2>5
<1>5. CASE Take
  <2>1. /\ at = "take" /\ at' = "check"
        /\ UNCHANGED <<optionVars, revents, loopVars, process_size>>
    BY <1>5 DEF Take
  <2>2. waitmode # "poll" => remain' > 0
    BY <1>5, TakeMakesRoom
  <2>3. filled = 0 => filled' = 0
    BY <1>5, TakeFromEmpty
  <2> QED
    BY <1>1, <2>1, <2>2, <2>3 DEF TurnInv, optionVars, loopVars
<1>6. CASE DriverFails
  BY <1>1, <1>6 DEF TurnInv, DriverFails, deviceVars, optionVars, loopVars
<1>7. CASE Stop
  BY <1>1, <1>7 DEF TurnInv, Stop, deviceVars, optionVars
<1>8. CASE Continue
  BY <1>1, <1>8 DEF TurnInv, Continue, deviceVars, optionVars
<1>9. CASE Send
  BY <1>1, <1>9 DEF TurnInv, Send, DriverCompletes, optionVars, loopVars
<1>10. CASE Signal \/ ListenersChange \/ UNCHANGED vars
  BY <1>1, <1>10 DEF TurnInv, Signal, ListenersChange, vars, deviceVars, optionVars, loopVars
<1> QED
  BY <1>2, <1>3, <1>4, <1>5, <1>6, <1>7, <1>8, <1>9, <1>10 DEF Next, Loop

\* What a step keeps that touches no page and no position.
LEMMA StillKeeps ==
    ASSUME IInv, OrderInv,
           UNCHANGED <<deviceVars, optionVars, fillVars, process_size, repeat, read_end, sent,
                       disturbed>>,
           ~ disturbed /\ at' = "ended" /\ Limit \in 0 .. FileLength =>
                filled = 0 /\ sent = IF Limit = 0 THEN FileLength ELSE Limit
    PROVE  OrderInv'
<1>1. SentInOrder'
  BY DEF OrderInv, SentInOrder, deviceVars, fillVars
<1>2. ~ disturbed' => FillInv'
  BY DEF OrderInv, FillInv, Gone, Uncut, Limit, ToInt, Ahead, deviceVars, optionVars, fillVars
<1>3. ~ disturbed' /\ ~ pipe' => NumberInv'
  BY DEF OrderInv, NumberInv, Uncut, Limit, ToInt, Ahead, deviceVars, optionVars, fillVars
<1> QED
  BY <1>1, <1>2, <1>3 DEF OrderInv

\* A loop that ends has sent everything.
LEMMA ContinueEnds ==
    ASSUME IInv, TurnInv, OrderInv, Continue, ~ disturbed, at' = "ended",
           Limit \in 0 .. FileLength
    PROVE  filled = 0 /\ sent = IF Limit = 0 THEN FileLength ELSE Limit
<1>1. /\ filled \in Nat /\ done \in Nat /\ done <= filled /\ sent \in Nat /\ repeat \in Nat
      /\ Limit \in Nat /\ FileLength \in Nat /\ pos \in Nat /\ process_size = 0
      /\ inf \in BOOLEAN
  <2>1. Limit >= 0 => repeat >= 0
    BY DEF TurnInv
  <2> QED
    BY <2>1, Numbers, SMT DEF Continue
<1>2. /\ at = "check" /\ FillInv /\ read_end /\ ~ inf'
      /\ inf' = (inf /\ ~ (read_end /\ filled = 0))
  BY DEF Continue, OrderInv, TurnInv
<1>3. CASE inf
  <2>1. filled = 0 /\ Gone = sent
    <3>1. filled = 0
      BY <1>2, <1>3
    <3> QED
      BY <1>1, <3>1, SMT DEF Gone
  <2>2. CASE Limit = 0
    BY <1>1, <1>2, <2>1, <2>2, SMT DEF FillInv, Uncut
  <2>3. CASE Limit # 0
    <3>1. Limit > 0 /\ repeat = 0 /\ Gone + repeat = Limit
      BY <1>1, <1>2, <1>3, <2>3 DEF TurnInv, FillInv
    <3> QED
      BY <1>1, <2>1, <2>3, <3>1, SMT
  <2> QED
    BY <2>2, <2>3
<1>4. CASE ~ inf
  <2>1. Limit # 0
    BY <1>2, <1>4 DEF TurnInv
  <2>2. repeat = 0 \/ Uncut
    BY <1>1, SMT DEF Uncut
  <2>3. Limit > 0 /\ Gone + repeat = Limit
    BY <1>1, <1>2, <2>1 DEF FillInv
  <2>4. repeat > 0
    BY <1>2, <1>4, <2>3 DEF TurnInv
  <2>5. QED
    <3>1. pos = Gone + process_size /\ pos = FileLength
      BY <1>1, <1>2, <2>2, <2>4 DEF FillInv
    <3> QED
      BY <1>1, <2>3, <2>4, <3>1, SMT DEF Gone
<1> QED
  BY <1>3, <1>4

\* A read returns as much as there is, unless from a pipe, and nothing only at the end
\* of the file.
LEMMA ReadableAmount ==
    ASSUME IInv, NEW n \in Readable(remain)
    PROVE  /\ n \in 0 .. remain
           /\ n = 0 /\ remain > 0 => pos = FileLength
           /\ pos = FileLength => n = 0
           /\ ~ pipe => n = remain \/ pos + n = FileLength
<1> DEFINE most == Min({remain, FileLength - pos})
<1>1. /\ remain \in Nat /\ pos \in Nat /\ FileLength - pos \in Nat /\ FileLength \in Nat
      /\ pipe \in BOOLEAN /\ remain \in 0 .. EntryNum
  <2>1. /\ remain \in 0 .. EntryNum /\ pos \in 0 .. FileLength /\ FileLength \in Nat
        /\ pipe \in BOOLEAN /\ EntryNum \in Nat \ {0}
    BY Numbers
  <2> QED
    BY <2>1, SMT
<1>2. most \in Nat /\ most <= remain /\ most <= FileLength - pos
      /\ most \in {remain, FileLength - pos}
  <2>1. remain \in Int /\ FileLength - pos \in Int
    BY <1>1, SMT
  <2>2. most <= remain /\ most <= FileLength - pos /\ most \in {remain, FileLength - pos}
    BY <2>1, MinOfTwo
  <2> QED
    BY <1>1, <2>2
<1>3. n \in IF pipe /\ most > 0 THEN 1 .. most ELSE {most}
  BY DEF Readable
<1> HIDE DEF most
<1>4. n \in 0 .. most /\ (n = 0 => most = 0) /\ (~ pipe => n = most)
  BY <1>1, <1>2, <1>3, SMT
<1>5. ~ pipe => n = remain \/ pos + n = FileLength
  BY <1>1, <1>2, <1>4, SMT
<1> QED
  BY <1>1, <1>2, <1>4, <1>5, SMT

\* What holds of the loop when talker_process is called.
LEMMA AtFill ==
    ASSUME IInv, TurnInv, OrderInv, Limit >= 0, at = "fill", ~ disturbed
    PROVE  /\ FillInv /\ ~ read_end /\ process_size = 0 /\ Uncut
           /\ pos = Gone /\ p = wp
           /\ (Limit = 0 <=> inf)
           /\ Gone \in Nat
<1>1. /\ Limit \in Nat /\ repeat \in Int /\ process_size = 0 /\ wp \in Entry
      /\ pos \in Nat /\ done \in Nat /\ filled \in Nat /\ sent \in Nat /\ done <= filled
  BY Numbers, SMT
<1>2. FillInv /\ ~ read_end
  BY DEF OrderInv, TurnInv
<1>3. Limit = 0 <=> inf
  <2>1. Limit # 0 => Limit > 0
    BY <1>1, SMT
  <2> QED
    BY <1>2, <2>1 DEF TurnInv
<1>4. Uncut
  <2>1. Limit = 0 \/ repeat > 0
    BY <1>1, <1>2, SMT DEF TurnInv
  <2> QED
    BY <1>1, <2>1, SMT DEF Uncut
<1>5. Gone \in Nat
  BY <1>1, SMT DEF Gone
<1>6. pos = Gone + process_size /\ p = Ahead(wp, process_size)
  BY <1>2, <1>4 DEF FillInv
<1>7. pos = Gone /\ p = wp
  BY <1>1, <1>5, <1>6, AheadZero, SMT
<1> QED
  BY <1>1, <1>2, <1>3, <1>4, <1>5, <1>7

\* The pages that are filled: the portions that follow those that have gone, while the
\* pages at the driver stay as they are.
LEMMA PagesFilled ==
    ASSUME IInv, p = wp, NEW n \in 0 .. remain, Read(remain, n)
    PROVE  /\ \A i \in 1 .. n : page'[Ahead(wp, i - 1)] = pos + i
           /\ \A i \in 1 .. filled : page'[queue[i]] = page[queue[i]]
<1>1. /\ remain \in Nat /\ remain <= EntryNum /\ pos \in Nat /\ p \in Entry
      /\ EntryNum \in Nat \ {0}
  BY Numbers, SMT
<1>2. page' = [e \in Entry |-> IF e \in Filled(n) THEN pos + Rank(e) + 1 ELSE page[e]]
  BY DEF Read
<1>3. ASSUME NEW i \in 1 .. n PROVE page'[Ahead(wp, i - 1)] = pos + i
  <2>1. i - 1 \in 0 .. EntryNum - 1 /\ i - 1 < n /\ pos + (i - 1) + 1 = pos + i
    BY <1>1, SMT
  <2>2. Ahead(p, i - 1) \in Entry /\ Rank(Ahead(p, i - 1)) = i - 1
    BY <1>1, <2>1, RankAhead
  <2>3. Ahead(p, i - 1) \in Filled(n)
    BY <2>1, <2>2 DEF Filled
  <2> QED
    BY <1>2, <2>1, <2>2, <2>3
<1>4. ASSUME NEW i \in 1 .. filled PROVE page'[queue[i]] = page[queue[i]]
  BY <1>2, QueueApart, QueueEntry
<1> QED
  BY <1>3, <1>4

\* Their numbers.
LEMMA NumbersFilled ==
    ASSUME IInv, p = wp, Headers(remain)
    PROVE  /\ \A i \in 1 .. remain :
                number'[Ahead(wp, i - 1)] = (seqnum + (i - 1)) % SequenceNums
           /\ \A i \in 1 .. filled : number'[queue[i]] = number[queue[i]]
           /\ seqnum' = (seqnum + remain) % SequenceNums
<1>1. /\ remain \in 0 .. remain /\ remain \in Nat /\ remain <= EntryNum /\ p \in Entry
      /\ EntryNum \in Nat \ {0}
  BY Numbers, SMT
<1>2. /\ number' = [e \in Entry |-> IF e \in Filled(remain)
                                    THEN (seqnum + Rank(e)) % SequenceNums ELSE number[e]]
      /\ seqnum' = (seqnum + remain) % SequenceNums
  BY DEF Headers
<1>3. ASSUME NEW i \in 1 .. remain
      PROVE  number'[Ahead(wp, i - 1)] = (seqnum + (i - 1)) % SequenceNums
  <2>1. i - 1 \in 0 .. EntryNum - 1 /\ i - 1 < remain
    BY <1>1, SMT
  <2>2. Ahead(p, i - 1) \in Entry /\ Rank(Ahead(p, i - 1)) = i - 1
    BY <1>1, <2>1, RankAhead
  <2>3. Ahead(p, i - 1) \in Filled(remain)
    BY <2>1, <2>2 DEF Filled
  <2> QED
    BY <1>2, <2>2, <2>3
<1>4. ASSUME NEW i \in 1 .. filled PROVE number'[queue[i]] = number[queue[i]]
  BY <1>1, <1>2, QueueApart, QueueEntry
<1> QED
  BY <1>2, <1>3, <1>4

\* What is pushed is what the read has filled, unless the limit cuts it.
LEMMA SizeFilled ==
    ASSUME IInv, TurnInv, Limit >= 0, NEW n \in 0 .. remain, Read(remain, n)
    PROVE  /\ process_size' \in 0 .. n
           /\ (inf \/ process_size' < repeat) => process_size' = n
           /\ inf => process_size' = n
<1>1. process_size' = IF inf THEN n ELSE Min({n, repeat})
  BY DEF Read
<1>2. TypeOK /\ repeat >= 0
  BY DEF IInv, TurnInv
<1>3. /\ process_size' \in - (IntMax + 1) .. EntryNum
      /\ process_size' <= n
      /\ process_size' >= 0
      /\ (inf \/ process_size' < repeat) => process_size' = n
  BY <1>1, <1>2, CutSize
<1>4. process_size' \in 0 .. n
  <2>1. n \in Int /\ IntMax \in Nat /\ EntryNum \in Nat
    BY Numbers, IntAssumption, SMT
  <2> QED
    BY <1>3, <2>1, SMT
<1> QED
  BY <1>3, <1>4

LEMMA FillOrder == IInv /\ TurnInv /\ OrderInv /\ Limit >= 0 /\ Fill => OrderInv'
<1> SUFFICES ASSUME IInv, TurnInv, OrderInv, Limit >= 0, Fill PROVE OrderInv'
  OBVIOUS
<1>1. PICK n \in Readable(remain) : Read(remain, n)
  BY DEF Fill
<1>2. /\ n \in 0 .. remain /\ (n = 0 /\ remain > 0 => pos = FileLength)
      /\ (pos = FileLength => n = 0) /\ (~ pipe => n = remain \/ pos + n = FileLength)
  BY ReadableAmount
<1>3. /\ UNCHANGED <<deviceVars, inf, repeat, sent, optionVars>> /\ at = "fill" /\ at' = "push"
      /\ disturbed' = (disturbed \/ (waitmode = "poll" /\ remain = 0))
      /\ Headers(remain)
  BY DEF Fill
<1>4. CASE disturbed'
  BY <1>4 DEF OrderInv, SentInOrder
<1>5. CASE ~ disturbed'
  <2>1. ~ disturbed /\ ~ (waitmode = "poll" /\ remain = 0)
    BY <1>3, <1>5
  <2>2. /\ FillInv /\ ~ read_end /\ process_size = 0 /\ Uncut /\ pos = Gone /\ p = wp
        /\ (Limit = 0 <=> inf) /\ Gone \in Nat
    BY <1>3, <2>1, AtFill
  <2>3. remain > 0 /\ remain \in Nat /\ pos \in Nat /\ n \in Nat /\ FileLength \in Nat
        /\ filled \in Nat /\ Len(queue) = filled /\ pos <= FileLength /\ seqnum \in Nat
        /\ SequenceNums \in Nat \ {0} /\ done \in Nat
    <3>1. /\ remain \in 0 .. EntryNum /\ EntryNum \in Nat \ {0} /\ pos \in 0 .. FileLength
          /\ FileLength \in Nat /\ filled \in 0 .. EntryNum /\ Len(queue) = filled
          /\ seqnum \in 0 .. SequenceNums - 1 /\ SequenceNums \in Nat \ {0}
          /\ done \in 0 .. EntryNum
      BY Numbers
    <3>2. remain \in Nat /\ (remain = 0 \/ remain > 0)
      BY <3>1, SMT
    <3>3. remain # 0
      BY <1>3, <2>1, <3>2, SMT DEF TurnInv
    <3> QED
      BY <1>2, <3>1, <3>2, <3>3, SMT
  <2>4. /\ \A i \in 1 .. n : page'[Ahead(wp, i - 1)] = pos + i
        /\ \A i \in 1 .. filled : page'[queue[i]] = page[queue[i]]
    BY <1>1, <1>2, <2>2, PagesFilled
  <2>5. /\ process_size' \in 0 .. n /\ (inf => process_size' = n)
        /\ ((inf \/ process_size' < repeat) => process_size' = n)
    BY <1>1, <1>2, SizeFilled
  <2>6. /\ pos' = pos + n /\ p' = Ahead(p, IF n = 0 THEN remain ELSE n)
        /\ read_end' = (read_end \/ n = 0)
    BY <1>1 DEF Read
  <2>7. /\ Gone' = Gone /\ wp' = wp /\ queue' = queue /\ filled' = filled /\ done' = done
        /\ sent' = sent /\ repeat' = repeat /\ Limit' = Limit /\ pipe' = pipe
    BY <1>3 DEF Gone, Limit, ToInt, deviceVars, optionVars
  <2>8. SentInOrder'
    <3>1. SUFFICES ASSUME NEW i \in done + 1 .. filled PROVE page'[queue[i]] = sent + (i - done)
      BY <2>3, <2>7 DEF SentInOrder
    <3>2. i \in 1 .. filled
      BY <2>3, SMT
    <3>3. page[queue[i]] = sent + (i - done)
      BY <2>1, <2>3, <3>1 DEF OrderInv, SentInOrder
    <3> QED
      BY <2>4, <3>2, <3>3
  <2>9. Uncut' => process_size' = n
    BY <2>2, <2>5, <2>7 DEF Uncut
  <2>10. FillInv'
    <3>1. \A i \in 1 .. process_size' : page'[Ahead(wp', i - 1)] = Gone' + i
      <4>1. \A i \in 1 .. process_size' : i \in 1 .. n
        BY <2>3, <2>5, SMT
      <4> QED
        BY <2>2, <2>4, <2>7, <4>1
    <3>2. Uncut' => pos' = Gone' + process_size'
      BY <2>2, <2>6, <2>7, <2>9
    <3>3. Uncut' /\ ~ read_end' => p' = Ahead(wp', process_size')
      BY <2>2, <2>6, <2>7, <2>9
    <3>4. Uncut' /\ read_end' => pos' = FileLength
      <4>1. read_end' => n = 0
        BY <2>2, <2>6
      <4>2. n = 0 => pos' = FileLength
        BY <1>2, <2>3, <2>6, SMT
      <4> QED
        BY <4>1, <4>2
    <3>5. Limit' > 0 => Gone' + repeat' = Limit'
      BY <2>2, <2>7 DEF FillInv
    <3> QED
      BY <1>3, <3>1, <3>2, <3>3, <3>4, <3>5 DEF FillInv, Ahead
  <2>11. ASSUME ~ pipe' PROVE NumberInv'
    <3>1. NumberInv /\ ~ pipe
      BY <2>1, <2>7, <2>11 DEF OrderInv
    <3>2. /\ \A i \in 1 .. remain :
                number'[Ahead(wp, i - 1)] = (seqnum + (i - 1)) % SequenceNums
          /\ \A i \in 1 .. filled : number'[queue[i]] = number[queue[i]]
          /\ seqnum' = (seqnum + remain) % SequenceNums
      BY <1>3, <2>2, NumbersFilled
    <3>3. pos < FileLength => seqnum = pos % SequenceNums
      BY <2>2, <3>1 DEF NumberInv
    <3>0. \A k \in Nat :
            ((pos % SequenceNums) + k) % SequenceNums = (pos + k) % SequenceNums
      <4>1. pos \in Nat /\ SequenceNums \in Nat \ {0}
        BY <2>3
      <4> QED
        BY <4>1, RemainderSum
    <3>4. \A i \in 1 .. filled' :
            number'[queue'[i]] = (page'[queue'[i]] - 1) % SequenceNums
      BY <2>4, <2>7, <3>1, <3>2 DEF NumberInv
    <3>5. ASSUME NEW i \in 1 .. process_size'
          PROVE  number'[Ahead(wp', i - 1)] = (page'[Ahead(wp', i - 1)] - 1) % SequenceNums
      <4>1. i \in 1 .. n /\ i \in 1 .. remain /\ i - 1 \in Nat /\ n # 0
        BY <1>2, <2>3, <2>5, SMT
      <4>2. pos < FileLength
        BY <1>2, <2>3, <4>1, SMT
      <4>3. number'[Ahead(wp, i - 1)] = ((pos % SequenceNums) + (i - 1)) % SequenceNums
        BY <3>2, <3>3, <4>1, <4>2
      <4>4. ((pos % SequenceNums) + (i - 1)) % SequenceNums = (pos + (i - 1)) % SequenceNums
        BY <3>0, <4>1
      <4>5. page'[Ahead(wp, i - 1)] = pos + i /\ (pos + i) - 1 = pos + (i - 1)
        BY <2>3, <2>4, <4>1, SMT
      <4> QED
        BY <2>7, <4>3, <4>4, <4>5
    <3>6. Uncut' /\ ~ read_end' /\ pos' < FileLength => seqnum' = pos' % SequenceNums
      <4>1. SUFFICES ASSUME pos' < FileLength PROVE seqnum' = pos' % SequenceNums
        OBVIOUS
      <4>2. n = remain /\ pos < FileLength
        BY <1>2, <2>3, <2>6, <3>1, <4>1, SMT
      <4>3. seqnum' = ((pos % SequenceNums) + remain) % SequenceNums
        BY <3>2, <3>3, <4>2
      <4> QED
        BY <2>3, <2>6, <3>0, <4>2, <4>3
    <3> QED
      BY <3>4, <3>5, <3>6 DEF NumberInv, Ahead
  <2> QED
    BY <2>8, <2>10, <2>11 DEF OrderInv
<1> QED
  BY <1>4, <1>5

LEMMA PushOrder == IInv /\ IInv' /\ TurnInv /\ OrderInv /\ Limit >= 0 /\ Push => OrderInv'
<1> SUFFICES ASSUME IInv, IInv', TurnInv, OrderInv, Limit >= 0, Push PROVE OrderInv'
  OBVIOUS
<1>1. PICK accepted \in Acceptable : /\ PushEntry(process_size, accepted)
                                     /\ CountDown(accepted)
                                     /\ disturbed' = (disturbed \/ accepted < process_size)
  BY DEF Push
<1>2. /\ at = "push" /\ at' # "ended" /\ process_size' = 0
      /\ UNCHANGED <<optionVars, fillVars, sent>>
  BY DEF Push
<1>3. CASE disturbed'
  BY <1>3 DEF OrderInv, SentInOrder
<1>4. CASE ~ disturbed'
  <2>1. ~ disturbed /\ ~ (accepted < process_size) /\ FillInv
    BY <1>1, <1>4 DEF OrderInv
  <2>2. /\ process_size \in Nat /\ filled \in Nat /\ done \in Nat /\ sent \in Nat
        /\ repeat \in Int /\ done <= filled /\ Limit \in Nat /\ rp \in Entry
        /\ wp = Ahead(rp, filled) /\ process_size <= remain /\ remain + filled = EntryNum
        /\ wp' \in Entry /\ remain \in Nat /\ EntryNum \in Nat \ {0} /\ Len(queue) = filled
        /\ waitmode \in {"poll", "nowait", "waitall"} /\ repeat' \in Int
        /\ \A i \in 1 .. filled : queue[i] = Ahead(rp, i - 1)
    <3>1. repeat' \in IntRange /\ wp' \in Entry /\ process_size >= 0
      BY DEF IInv, TypeOK, DeviceTypeOK, Entry, Push
    <3>2. repeat' \in Int
      BY <3>1, IntAssumption, SMT DEF IntRange
    <3> QED
      BY <3>1, <3>2, Numbers, SMT
  <2>3. accepted = process_size
    <3>1. accepted \in 0 .. process_size
      BY <1>1, <2>2, SMT DEF Acceptable
    <3> QED
      BY <2>1, <2>2, <3>1, SMT
  <2>4. /\ wp' = Ahead(wp, process_size) /\ filled' = filled + process_size
        /\ rp' = rp /\ done' = done
    BY <1>1, <2>3 DEF PushEntry
  <2>5. /\ sent' = sent /\ page' = page /\ number' = number /\ pos' = pos /\ p' = p
        /\ seqnum' = seqnum /\ Limit' = Limit /\ pipe' = pipe
    BY <1>2 DEF fillVars, optionVars, Limit, ToInt
  <2>6. Gone' = Gone + process_size /\ Gone \in Int
    BY <2>2, <2>4, <2>5, SMT DEF Gone
  <2>7. Len(queue') = filled' /\ \A i \in 1 .. filled' : queue'[i] = Ahead(rp, i - 1)
    BY <2>4 DEF IInv, RingConsistent, Ahead
  <2>8. \A i \in 1 .. filled : i \in 1 .. filled' /\ queue'[i] = queue[i]
    <3>1. \A i \in 1 .. filled : i \in 1 .. filled'
      BY <2>2, <2>4, SMT
    <3> QED
      BY <2>2, <2>7, <3>1
  <2>9. ASSUME NEW i \in 1 .. filled', i > filled
        PROVE  i - filled \in 1 .. process_size /\ queue'[i] = Ahead(wp, (i - filled) - 1)
    <3>1. /\ i - filled \in 1 .. process_size /\ (i - filled) - 1 \in Nat
          /\ filled + ((i - filled) - 1) <= EntryNum /\ filled + ((i - filled) - 1) = i - 1
      BY <2>2, <2>4, <2>9, SMT
    <3>2. Ahead(Ahead(rp, filled), (i - filled) - 1) = Ahead(rp, filled + ((i - filled) - 1))
      BY <2>2, <3>1, AheadAhead
    <3> QED
      BY <2>2, <2>7, <3>1, <3>2
  <2>10. SentInOrder'
    <3>1. SUFFICES ASSUME NEW i \in done + 1 .. filled'
                   PROVE  page[queue'[i]] = sent + (i - done)
      BY <2>4, <2>5, <2>7 DEF SentInOrder
    <3>2. i \in 1 .. filled' /\ i \in Nat
      BY <2>2, <2>4, SMT
    <3>3. CASE i <= filled
      <4>1. i \in 1 .. filled /\ i \in done + 1 .. Len(queue)
        BY <2>2, <3>2, <3>3, SMT
      <4>2. page[queue[i]] = sent + (i - done)
        BY <2>1, <4>1 DEF OrderInv, SentInOrder
      <4> QED
        BY <2>8, <4>1, <4>2
    <3>4. CASE i > filled
      <4>1. i - filled \in 1 .. process_size /\ queue'[i] = Ahead(wp, (i - filled) - 1)
        BY <2>9, <3>2, <3>4
      <4>2. page[queue'[i]] = Gone + (i - filled)
        BY <2>1, <4>1 DEF FillInv
      <4> QED
        BY <2>2, <3>2, <4>2, SMT DEF Gone
    <3> QED
      BY <2>2, <3>2, <3>3, <3>4, SMT
  <2>11. /\ (Limit > 0 => ~ inf /\ repeat' = repeat - process_size)
         /\ (Limit = 0 => inf)
    BY <1>1, <1>2, <2>3 DEF TurnInv, CountDown
  <2>12. Uncut' => Uncut /\ (read_end' = read_end)
    <3>1. CASE Limit = 0
      BY <1>1, <2>11, <3>1 DEF Uncut, CountDown
    <3>2. CASE Limit > 0
      <4>1. Uncut' = (0 < repeat')
        BY <1>2, <2>2, <2>5, <3>2, SMT DEF Uncut
      <4>2. 0 < repeat' => process_size < repeat /\ ~ (repeat' <= 0)
        BY <2>2, <2>11, <3>2, SMT
      <4>3. read_end' = (read_end \/ repeat' <= 0)
        BY <1>1, <2>11, <3>2 DEF CountDown
      <4>4. read_end \in BOOLEAN /\ read_end' \in BOOLEAN
        BY Numbers DEF IInv, TypeOK
      <4> QED
        BY <4>1, <4>2, <4>3, <4>4 DEF Uncut
    <3> QED
      BY <2>2, <3>1, <3>2, SMT
  <2>13. FillInv'
    <3>1. \A i \in 1 .. process_size' : page'[Ahead(wp', i - 1)] = Gone' + i
      <4>1. 1 .. process_size' = {}
        BY <1>2, SMT
      <4> QED
        BY <4>1
    <3>2. Uncut' => pos' = Gone' + process_size'
      BY <1>2, <2>1, <2>2, <2>5, <2>6, <2>12, SMT DEF FillInv
    <3>3. Uncut' /\ ~ read_end' => p' = Ahead(wp', process_size')
      <4>1. Ahead(wp', 0) = wp'
        BY <2>2, AheadZero
      <4> QED
        BY <1>2, <2>1, <2>4, <2>5, <2>12, <4>1 DEF FillInv
    <3>4. Uncut' /\ read_end' => pos' = FileLength
      BY <2>1, <2>5, <2>12 DEF FillInv
    <3>5. Limit' > 0 => Gone' + repeat' = Limit'
      <4>1. Limit > 0 => Gone + repeat = Limit
        BY <2>1 DEF FillInv
      <4> QED
        BY <2>2, <2>5, <2>6, <2>11, <4>1, SMT
    <3> QED
      BY <1>2, <3>1, <3>2, <3>3, <3>4, <3>5 DEF FillInv, Ahead
  <2>14. ASSUME ~ pipe' PROVE NumberInv'
    <3>1. NumberInv
      BY <2>1, <2>5, <2>14 DEF OrderInv
    <3>2. ASSUME NEW i \in 1 .. filled'
          PROVE  number[queue'[i]] = (page[queue'[i]] - 1) % SequenceNums
      <4>1. i \in 1 .. filled \/ i > filled
        BY <2>2, <2>4, SMT
      <4>2. CASE i \in 1 .. filled
        BY <2>8, <3>1, <4>2 DEF NumberInv
      <4>3. CASE i > filled
        BY <2>9, <3>1, <4>3 DEF NumberInv
      <4> QED
        BY <4>1, <4>2, <4>3
    <3>3. 1 .. process_size' = {}
      BY <1>2, SMT
    <3>4. Uncut' /\ ~ read_end' /\ pos' < FileLength => seqnum' = pos' % SequenceNums
      BY <2>5, <2>12, <3>1 DEF NumberInv
    <3> QED
      BY <2>5, <3>2, <3>3, <3>4 DEF NumberInv
  <2> QED
    BY <2>10, <2>13, <2>14 DEF OrderInv
<1> QED
  BY <1>3, <1>4

\* What stays at the driver keeps its order when what was sent is taken back.
LEMMA TakeOrder == IInv /\ IInv' /\ OrderInv /\ Take => OrderInv'
<1> SUFFICES ASSUME IInv, IInv', OrderInv, Take PROVE OrderInv'
  OBVIOUS
<1>1. /\ at = "take" /\ at' = "check"
      /\ UNCHANGED <<optionVars, process_size, loopVars, fillVars, sent, disturbed>>
  BY DEF Take
<1>2. CASE "read" \notin revents
  BY <1>1, <1>2, StillKeeps DEF Take, loopVars
<1>3. CASE "read" \in revents
  <2>1. PICK n \in Returnable : TakeEntry(n)
    BY <1>3 DEF Take
  <2>2. /\ filled \in Nat /\ done \in Nat /\ done <= filled /\ rp \in Entry
        /\ filled <= EntryNum /\ waitmode \in {"poll", "nowait", "waitall"}
        /\ Len(queue) = filled /\ process_size = 0 /\ EntryNum \in Nat \ {0}
        /\ \A i \in 1 .. filled : queue[i] = Ahead(rp, i - 1)
    BY <1>1, Numbers, SMT
  <2>3. n \in 0 .. done
    <3>1. Asked \in Nat
      BY AskedNat DEF IInv
    <3> QED
      BY <2>1, <2>2, <3>1, SMT DEF Returnable
  <2>4. /\ rp' = Ahead(rp, n) /\ wp' = wp /\ filled' = filled - n /\ done' = done - n
    BY <2>1 DEF TakeEntry
  <2>5. Gone' = Gone /\ Uncut' = Uncut
    <3>1. Gone' = Gone
      BY <1>1, <2>2, <2>3, <2>4, SMT DEF Gone
    <3> QED
      BY <1>1, <3>1 DEF Uncut, Limit, ToInt, optionVars, loopVars
  <2>6. Len(queue') = filled' /\ \A i \in 1 .. filled' : queue'[i] = Ahead(rp', i - 1)
    BY DEF IInv, RingConsistent, Ahead
  <2>7. ASSUME NEW i \in 1 .. filled' PROVE n + i \in 1 .. filled /\ queue'[i] = queue[n + i]
    <3>1. /\ n + i \in 1 .. filled /\ i - 1 \in Nat /\ n \in Nat /\ n + (i - 1) <= EntryNum
          /\ n + (i - 1) = (n + i) - 1
      BY <2>2, <2>3, <2>4, SMT
    <3>2. Ahead(Ahead(rp, n), i - 1) = Ahead(rp, n + (i - 1))
      BY <2>2, <3>1, AheadAhead
    <3> QED
      BY <2>2, <2>4, <2>6, <3>1, <3>2
  <2>8. SentInOrder'
    <3>1. SUFFICES ASSUME ~ disturbed, NEW i \in done' + 1 .. filled'
                   PROVE  page[queue'[i]] = sent + (i - done')
      BY <1>1, <2>6 DEF SentInOrder, fillVars
    <3>2. /\ i \in 1 .. filled' /\ n + i \in done + 1 .. Len(queue)
          /\ (n + i) - done = i - done'
      BY <2>2, <2>3, <2>4, SMT
    <3>3. page[queue[n + i]] = sent + ((n + i) - done)
      BY <3>1, <3>2 DEF OrderInv, SentInOrder
    <3> QED
      BY <2>7, <3>2, <3>3
  <2>9. ~ disturbed' => FillInv'
    BY <1>1, <2>4, <2>5 DEF OrderInv, FillInv, Limit, ToInt, Ahead, optionVars, loopVars, fillVars
  <2>10. ~ disturbed' /\ ~ pipe' => NumberInv'
    <3>1. SUFFICES ASSUME NumberInv PROVE NumberInv'
      BY <1>1 DEF OrderInv, optionVars
    <3>2. \A i \in 1 .. filled' : number[queue'[i]] = (page[queue'[i]] - 1) % SequenceNums
      BY <2>7, <3>1 DEF NumberInv
    <3> QED
      BY <1>1, <2>4, <2>5, <3>1, <3>2 DEF NumberInv, Ahead, loopVars, fillVars
  <2> QED
    BY <2>8, <2>9, <2>10 DEF OrderInv
<1> QED
  BY <1>2, <1>3

LEMMA SendOrder == IInv /\ OrderInv /\ Send => OrderInv'
<1> SUFFICES ASSUME IInv, OrderInv, Send PROVE OrderInv'
  OBVIOUS
<1>1. /\ done < Len(queue) /\ done' = done + 1 /\ sent' = page[queue[done + 1]]
      /\ UNCHANGED <<rp, wp, remain, filled, entrybuf, queue>>
      /\ UNCHANGED <<at, optionVars, process_size, loopVars, fillVars, disturbed>>
  BY DEF Send, DriverCompletes
<1>2. /\ done \in Nat /\ filled \in Nat /\ Len(queue) = filled /\ sent \in Nat
  BY Numbers, SMT
<1>3. CASE disturbed
  BY <1>1, <1>3 DEF OrderInv, SentInOrder
<1>4. CASE ~ disturbed
  <2>1. sent' = sent + 1
    <3>1. done + 1 \in done + 1 .. Len(queue) /\ (done + 1) - done = 1
      BY <1>1, <1>2, SMT
    <3> QED
      BY <1>1, <1>4, <3>1 DEF OrderInv, SentInOrder
  <2>2. Gone' = Gone /\ Uncut' = Uncut
    <3>1. Gone' = Gone
      BY <1>1, <1>2, <2>1, SMT DEF Gone
    <3> QED
      BY <1>1, <3>1 DEF Uncut, Limit, ToInt, optionVars, loopVars
  <2>3. SentInOrder'
    <3>1. SUFFICES ASSUME NEW i \in done' + 1 .. Len(queue)
                   PROVE  page[queue[i]] = sent' + (i - done')
      BY <1>1 DEF SentInOrder, fillVars
    <3>2. i \in done + 1 .. Len(queue) /\ sent' + (i - done') = sent + (i - done)
      BY <1>1, <1>2, <2>1, SMT
    <3> QED
      BY <1>4, <3>2 DEF OrderInv, SentInOrder
  <2>4. ~ (at = "ended" /\ Limit \in 0 .. FileLength)
    BY <1>1, <1>2, <1>4, SMT DEF OrderInv, FillInv
  <2>5. FillInv'
    BY <1>1, <1>4, <2>2, <2>4 DEF OrderInv, FillInv, Limit, ToInt, Ahead, optionVars, loopVars, fillVars
  <2>6. ~ pipe' => NumberInv'
    BY <1>1, <1>4, <2>2 DEF OrderInv, NumberInv, Ahead, optionVars, loopVars, fillVars
  <2> QED
    BY <2>3, <2>5, <2>6 DEF OrderInv
<1> QED
  BY <1>3, <1>4

LEMMA OrderKeeps ==
    IInv /\ IInv' /\ TurnInv /\ OrderInv /\ Limit >= 0 /\ [Next]_vars => OrderInv'
<1> SUFFICES ASSUME IInv, IInv', TurnInv, OrderInv, Limit >= 0, [Next]_vars PROVE OrderInv'
  OBVIOUS
<1>1. CASE Fill
  BY <1>1, FillOrder
<1>2. CASE ReadFails \/ AllocFails
  BY <1>2 DEF ReadFails, AllocFails, OrderInv, SentInOrder
<1>3. CASE Push
  BY <1>3, PushOrder
<1>4. CASE Take
  BY <1>4, TakeOrder
<1>5. CASE Send
  BY <1>5, SendOrder
<1>6. CASE Continue
  <2>1. UNCHANGED <<deviceVars, optionVars, fillVars, process_size, repeat, read_end, sent,
                    disturbed>>
    BY <1>6 DEF Continue
  <2> QED
    BY <1>6, <2>1, ContinueEnds, StillKeeps
<1>7. CASE Wait \/ DriverFails \/ Stop \/ Signal \/ ListenersChange \/ UNCHANGED vars
  <2>1. /\ UNCHANGED <<deviceVars, optionVars, fillVars, process_size, repeat, read_end, sent,
                       disturbed>>
        /\ at' = "ended" => at = "ended"
    BY <1>7 DEF Wait, AtWrite, DriverFails, Stop, Signal, ListenersChange, vars, loopVars
  <2> QED
    BY <2>1, StillKeeps DEF OrderInv, FillInv
<1> QED
  BY <1>1, <1>2, <1>3, <1>4, <1>5, <1>6, <1>7 DEF Next, Loop

LEMMA InitOrder == Init => TurnInv /\ (Limit >= 0 => OrderInv)
<1> SUFFICES ASSUME Init PROVE TurnInv /\ (Limit >= 0 => OrderInv)
  OBVIOUS
<1>1. /\ at = "wait" /\ process_size = 0 /\ pos = 0 /\ sent = 0 /\ p = 0 /\ seqnum = 0
      /\ ~ read_end /\ ~ waitflush /\ inf = (Limit = 0)
      /\ repeat = (IF Limit = 0 THEN 1 ELSE Limit)
      /\ wp = 0 /\ filled = 0 /\ done = 0 /\ queue = << >> /\ remain = EntryNum
      /\ EntryNum \in Nat \ {0} /\ SequenceNums \in Nat \ {0}
      /\ Len(queue) = 0
  BY EntryNumAssumption, TalkerAssumption, SMT DEF Init, DeviceInit, Limit
<1>2. Limit \in Int
  BY InitIInv, Numbers
<1>3. /\ 1 .. process_size = {} /\ 1 .. filled = {} /\ done + 1 .. Len(queue) = {}
      /\ Gone = 0 /\ 0 % SequenceNums = 0 /\ remain > 0 /\ process_size >= 0
      /\ (Limit > 0 => repeat > 0 /\ repeat = Limit /\ Limit # 0)
      /\ (Limit < 0 => repeat < 0 /\ Limit # 0)
      /\ (Limit >= 0 => repeat >= 0)
  BY <1>1, <1>2, SMT DEF Gone
<1>4. TurnInv
  BY <1>1, <1>3 DEF TurnInv
<1>5. SentInOrder
  BY <1>3 DEF SentInOrder
<1>6. FillInv
  <2>1. Ahead(wp, process_size) = p
    BY <1>1, AheadZero, SMT DEF Entry
  <2>2. pos = Gone + process_size /\ (Limit > 0 => Gone + repeat = Limit)
    BY <1>1, <1>2, <1>3, SMT
  <2> QED
    BY <1>1, <1>3, <2>1, <2>2 DEF FillInv
<1>7. NumberInv
  BY <1>1, <1>3 DEF NumberInv
<1> QED
  BY <1>4, <1>5, <1>6, <1>7 DEF OrderInv

LEMMA OrderInvariance == Spec => [](IInv /\ TurnInv /\ (Limit >= 0 => OrderInv))
<1>1. IInv /\ TurnInv /\ (Limit >= 0 => OrderInv) /\ [Next]_vars
        => (IInv /\ TurnInv /\ (Limit >= 0 => OrderInv))'
  BY NextKeeps, TurnKeeps, OrderKeeps, LimitStays
<1> QED
  BY InitIInv, InitOrder, <1>1, PTL DEF Spec

\* Without anything at the driver there is no order to keep.
LEMMA EmptyOrder ==
    ASSUME IInv, TurnInv, ~ (Limit >= 0)
    PROVE  SentInOrder /\ NumberedInOrder
<1>1. Len(queue) = 0 /\ done = 0
  <2>1. Limit < 0
    BY Numbers, SMT
  <2>2. filled = 0
    BY <2>1 DEF TurnInv
  <2> QED
    BY <2>2, Numbers, SMT
<1>2. done + 1 .. Len(queue) = {} /\ 1 .. Len(queue) = {}
  BY <1>1, SMT
<1> QED
  BY <1>2 DEF SentInOrder, NumberedInOrder

\* For any ring, file and limit, while the driver accepts all it is offered and polls
\* truly, simple_talker sends the portions of its file in their order: no page is
\* filled again before it is sent, none is skipped and none is sent twice.
THEOREM PortionsInOrder == Spec => []SentInOrder
<1>1. IInv /\ TurnInv /\ (Limit >= 0 => OrderInv) => SentInOrder
  BY EmptyOrder DEF OrderInv
<1> QED
  BY OrderInvariance, <1>1, PTL

\* For any ring and any modulus, the AVTP sequence numbers of a file that is not a pipe
\* count its packets: talker_process numbers pages that no read fills only at the end.
THEOREM NumbersFollow == Spec => []NumberedInOrder
<1>1. IInv /\ TurnInv /\ (Limit >= 0 => OrderInv) => NumberedInOrder
  <2> SUFFICES ASSUME IInv, TurnInv, OrderInv PROVE NumberedInOrder
    BY EmptyOrder
  <2>1. Len(queue) = filled
    BY Numbers
  <2> QED
    BY <2>1 DEF OrderInv, NumberInv, NumberedInOrder
<1> QED
  BY OrderInvariance, <1>1, PTL

\* For any ring, file and limit, a loop of simple_talker that ends by itself has sent
\* the file, or the packets it was asked for: framenums, converted to int.  The driver
\* has accepted what it was offered, and neither a read nor an allocation has failed.
THEOREM EverythingSent == Spec => []SentAtEnd
<1>1. IInv /\ TurnInv /\ (Limit >= 0 => OrderInv) => SentAtEnd
  <2> SUFFICES ASSUME IInv, Limit >= 0 => OrderInv, at = "ended", ~ disturbed
               PROVE  /\ Limit = 0 => sent = FileLength
                      /\ Limit \in 1 .. FileLength => sent = Limit
    BY DEF SentAtEnd, Limit
  <2>1. /\ Limit = 0 => Limit \in 0 .. FileLength /\ Limit >= 0
        /\ Limit \in 1 .. FileLength =>
                Limit \in 0 .. FileLength /\ Limit # 0 /\ Limit >= 0
    <3>1. Limit \in Int /\ FileLength \in Nat
      BY Numbers
    <3> QED
      BY <3>1, SMT
  <2> QED
    BY <2>1 DEF OrderInv, FillInv
<1> QED
  BY OrderInvariance, <1>1, PTL

\* A limit that an int can have, and the file, is the number of the packets sent, and
\* without one the whole file is.
THEOREM FramesSent ==
    Spec => [](at = "ended" /\ ~ disturbed =>
                    /\ framenums = 0 => sent = FileLength
                    /\ framenums <= IntMax /\ framenums \in 1 .. FileLength => sent = framenums)
<1>1. IInv /\ SentAtEnd =>
        (at = "ended" /\ ~ disturbed =>
            /\ framenums = 0 => sent = FileLength
            /\ framenums <= IntMax /\ framenums \in 1 .. FileLength => sent = framenums)
  <2>1. IInv => (framenums <= IntMax => ToInt(framenums) = framenums)
    <3> SUFFICES ASSUME IInv, framenums <= IntMax PROVE ToInt(framenums) = framenums
      OBVIOUS
    <3>1. framenums \in Nat /\ IntMax \in Nat
      BY TalkerAssumption, IntAssumption DEF IInv, TypeOK
    <3>2. framenums \in 0 .. IntMax
      BY <3>1, SMT
    <3> QED
      BY <3>2, ToIntSame
  <2>2. framenums = 0 => framenums <= IntMax
    BY IntAssumption, SMT
  <2> QED
    BY <2>1, <2>2 DEF SentAtEnd
<1> QED
  BY Invariance, EverythingSent, <1>1, PTL

=============================================================================
