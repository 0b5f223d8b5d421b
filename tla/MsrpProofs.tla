----------------------------- MODULE MsrpProofs -----------------------------
(***************************************************************************)
(* Proofs about the MSRP client, for every set of stations, table size and *)
(* socket buffer.                                                          *)
(*                                                                         *)
(* TypeOK needs CountsStations, which keeps the counter from passing the   *)
(* ends of its range, and CountsStations needs TypeOK: together they are   *)
(* inductive.  NobodyKept and NobodyMissed only speak of an empty socket;  *)
(* their invariants LeavesFollow and ReadyFollow say what must be on the   *)
(* way before.                                                             *)
(***************************************************************************)
EXTENDS Msrp, FiniteSetTheorems, WellFoundedInduction, TLAPS

IInv == TypeOK /\ CountsStations

Notes == ListenerNotes \cup TalkerNotes

\* The stations that are in the table.
Attached == {r \in Registrars : SlotsOf(r) # {}}

-----------------------------------------------------------------------------
(* Types.                                                                  *)

\* A search over a nonempty set of table indices ends at a member of the set,
\* and at the smallest: no search of msrp.c runs past its match.
LEMMA FirstInSet ==
    ASSUME NEW S, S \subseteq Nat, S # {}
    PROVE  /\ First(S) \in S
           /\ \A j \in S : First(S) <= j
<1> DEFINE Less == {p \in Nat \X Nat : p[1] < p[2]}
<1>1. IsWellFoundedOn(Less, Nat)
  BY NatLessThanWellFounded, Zenon DEF OpToRel
<1>2. PICK x \in S : \A y \in S : ~ (<<y, x>> \in Less)
  <2> HIDE DEF Less
  <2> QED BY <1>1, WFMin
<1>3. \A y \in S : x <= y
  <2>1. SUFFICES ASSUME NEW y \in S, y < x PROVE FALSE
    OBVIOUS
  <2>2. <<y, x>> \in Less
    BY <2>1
  <2>3. QED
    BY <1>2, <2>2
<1>4. QED
  BY <1>3 DEF First

\* There is an order in which to send the answers, and each order is a
\* sequence of notes.
LEMMA OrderType ==
    ASSUME NEW S, IsFiniteSet(S), S \subseteq Notes, NEW s \in Orders(S)
    PROVE  s \in Seq(Notes)
<1>1. Cardinality(S) \in Nat
  BY FS_CardinalityType
<1>2. s \in [1 .. Cardinality(S) -> Notes]
  BY DEF Orders
<1>3. QED
  BY <1>1, <1>2

\* What mrpd sends is well-formed.
LEMMA NoteTypes ==
    ASSUME NEW notify \in {"null", "new", "join", "leave"}, NEW id \in {Mine, Other},
           NEW r \in Registrars, NEW d \in Declarations
    PROVE  ListenerNote(notify, id, r, d) \in ListenerNotes
  BY DEF ListenerNote, ListenerNotes

LEMMA TalkerNoteTypes ==
    ASSUME NEW notify \in {"null", "new", "join", "leave"}
    PROVE  TalkerNote(notify) \in TalkerNotes
  BY DEF TalkerNote, TalkerNotes

\* The answers to a query are finitely many well-formed notes.
LEMMA AnswersType ==
    ASSUME TypeOK
    PROVE  IsFiniteSet(Answers) /\ Answers \subseteq Notes
<1> DEFINE D == {s \in Registrars : declared[s] # "none"}
           note(r) == ListenerNote("null", Mine, r, declared[r])
           N == {note(r) : r \in D}
           T == IF talker THEN {TalkerNote("null")} ELSE {}
<1>1. IsFiniteSet(D)
  BY MsrpAssumption, FS_Subset
<1>2. IsFiniteSet(N)
  <2> DEFINE f == [r \in D |-> note(r)]
  <2>1. f \in Surjection(D, N)
    BY DEF Surjection
  <2>2. QED
    BY <1>1, <2>1, FS_Surjection
<1>3. IsFiniteSet(T)
  BY FS_EmptySet, FS_Singleton
<1>4. IsFiniteSet(N \cup T)
  BY <1>2, <1>3, FS_Union
<1>5. N \subseteq Notes
  <2>1. \A r \in D : r \in Registrars /\ declared[r] \in Declarations
    BY MsrpAssumption DEF TypeOK
  <2>2. QED
    BY <2>1, NoteTypes DEF Notes
<1>6. T \subseteq Notes
  BY TalkerNoteTypes DEF Notes
<1>7. QED
  BY <1>4, <1>5, <1>6 DEF Answers

\* Each datagram of the answers stands for an answer, whether or not others follow in it.
LEMMA DatagramsType ==
    ASSUME TypeOK, NEW notes \in AnswerDatagrams
    PROVE  /\ notes \in Seq(Notes)
           /\ \A k \in 1 .. Len(notes) :
                 \E a \in Answers : notes[k] = a \/ notes[k] = [a EXCEPT !.more = TRUE]
<1>1. IsFiniteSet(Answers) /\ Answers \subseteq Notes /\ Cardinality(Answers) \in Nat
  BY AnswersType, FS_CardinalityType
<1>2. CASE notes \in Orders(Answers)
  <2>1. notes \in Seq(Notes)
    BY <1>1, <1>2, OrderType
  <2>2. notes \in [1 .. Cardinality(Answers) -> Answers] /\ Len(notes) = Cardinality(Answers)
    BY <1>1, <1>2 DEF Orders
  <2>3. QED
    BY <2>1, <2>2
<1>3. ASSUME NEW a \in Answers, notes = <<[a EXCEPT !.more = TRUE]>>
      PROVE  /\ notes \in Seq(Notes)
             /\ \A k \in 1 .. Len(notes) : notes[k] = [a EXCEPT !.more = TRUE]
  <2> DEFINE b == [a EXCEPT !.more = TRUE]
  <2>1. b \in Notes
    <3>1. CASE a \in ListenerNotes
      <4>1. b \in ListenerNotes
        BY <3>1 DEF ListenerNotes
      <4>2. QED
        BY <4>1 DEF Notes
    <3>2. CASE a \in TalkerNotes
      <4>1. b \in TalkerNotes
        BY <3>2 DEF TalkerNotes
      <4>2. QED
        BY <4>1 DEF Notes
    <3>3. QED
      BY <1>1, <3>1, <3>2 DEF Notes
  <2>2. notes = <<b>>
    BY <1>3
  <2> HIDE DEF b
  <2>3. notes \in Seq(Notes) /\ Len(notes) = 1 /\ notes[1] = b
    BY <2>1, <2>2
  <2>4. QED
    BY <2>3 DEF b
<1>4. QED
  BY <1>2, <1>3 DEF AnswerDatagrams

\* Whatever is delivered, the socket holds at most SocketBuffer notes.
LEMMA DeliverType ==
    ASSUME TypeOK, NEW notes \in Seq(Notes), Deliver(notes)
    PROVE  /\ inbox' \in Seq(Notes)
           /\ Len(inbox') <= SocketBuffer
           /\ dropped' \in BOOLEAN
<1>1. inbox \in Seq(Notes) /\ Len(inbox) \in Nat /\ Len(notes) \in Nat /\ SocketBuffer \in Nat
  BY MsrpAssumption DEF TypeOK, Notes
<1>2. inbox \o notes \in Seq(Notes) /\ Len(inbox \o notes) = Len(inbox) + Len(notes)
  BY <1>1
<1>3. CASE Fits(notes)
  BY <1>1, <1>2, <1>3 DEF Deliver, Fits, TypeOK
<1>4. CASE ~Fits(notes)
  <2>1. SocketBuffer <= Len(inbox \o notes)
    BY <1>1, <1>2, <1>4 DEF Fits
  <2>2. /\ SubSeq(inbox \o notes, 1, SocketBuffer) \in Seq(Notes)
        /\ Len(SubSeq(inbox \o notes, 1, SocketBuffer)) = SocketBuffer
    BY <1>1, <1>2, <2>1
  <2>3. inbox' = SubSeq(inbox \o notes, 1, SocketBuffer) /\ dropped' = TRUE
    BY <1>4, Zenon DEF Deliver
  <2>4. inbox' \in Seq(Notes) /\ Len(inbox') = SocketBuffer
    BY <2>2, <2>3, Zenon
  <2>5. Len(inbox') <= SocketBuffer
    BY <1>1, <2>4
  <2>6. QED
    BY <2>3, <2>4, <2>5, Zenon
<1>5. QED
  BY <1>3, <1>4

\* A notification of mrpd changes only the socket and what is said of it.
LEMMA NotifyType ==
    ASSUME TypeOK, NEW note \in Notes, Notify(note)
    PROVE  /\ inbox' \in Seq(Notes)
           /\ Len(inbox') <= SocketBuffer
           /\ dropped' \in BOOLEAN
           /\ complete' \in BOOLEAN
<1>1. <<note>> \in Seq(Notes)
  OBVIOUS
<1>2. CASE known
  BY <1>1, <1>2, DeliverType DEF Notify, TypeOK
<1>3. CASE ~known
  BY <1>3 DEF Notify, TypeOK, Notes
<1>4. QED
  BY <1>2, <1>3

-----------------------------------------------------------------------------
(* The table of listeners.                                                 *)

\* In a table without duplicates each station has its own slot, so the table
\* is large enough for the counter.
LEMMA TableBounded ==
    ASSUME NEW d,
           \A i, j \in Slots : d[i] = d[j] /\ d[i] # NoDevice => i = j
    PROVE  LET In == {r \in Registrars : {i \in Slots : d[i] = r} # {}}
           IN  IsFiniteSet(In) /\ Cardinality(In) \in 0 .. MaxStreams
<1> DEFINE In == {r \in Registrars : {i \in Slots : d[i] = r} # {}}
           slot == [r \in In |-> First({i \in Slots : d[i] = r})]
<1>1. IsFiniteSet(In)
  BY MsrpAssumption, FS_Subset
<1>2. \A r \in In : First({i \in Slots : d[i] = r}) \in {i \in Slots : d[i] = r}
  <2>1. TAKE r \in In
  <2>2. {i \in Slots : d[i] = r} \subseteq Nat /\ {i \in Slots : d[i] = r} # {}
    BY DEF Slots
  <2>3. QED
    BY <2>2, FirstInSet
<1>3. slot \in Injection(In, Slots)
  BY <1>2 DEF Injection, IsInjective
<1>4. IsFiniteSet(Slots) /\ Cardinality(Slots) = MaxStreams
  BY MsrpAssumption, FS_Interval DEF Slots
<1>5. Cardinality(In) <= Cardinality(Slots)
  BY <1>3, <1>4, FS_Injection
<1>6. Cardinality(In) \in Nat
  BY <1>1, FS_CardinalityType
<1>7. QED
  BY <1>1, <1>4, <1>5, <1>6, MsrpAssumption

LEMMA CountBounded ==
    ASSUME CountsStations
    PROVE  /\ IsFiniteSet(Attached)
           /\ Cardinality(Attached) \in 0 .. MaxStreams
  BY TableBounded DEF CountsStations, Attached, SlotsOf

LEMMA CountBoundedNext ==
    ASSUME CountsStations'
    PROVE  listeners' \in 0 .. MaxStreams
  BY TableBounded DEF CountsStations, SlotsOf

\* monitor_listener_add takes the first free slot, which is in the table.
LEMMA AddEffect ==
    ASSUME IInv, NEW n \in ListenerNotes, Addable(n), Add(n)
    PROVE  /\ First(FreeSlots) \in Slots
           /\ devices[First(FreeSlots)] = NoDevice
           /\ devices' = [devices EXCEPT ![First(FreeSlots)] = n.registrar]
           /\ n.registrar \in Registrars
           /\ n.registrar \notin Attached
           /\ Attached' = Attached \cup {n.registrar}
<1>1. FreeSlots \subseteq Nat /\ FreeSlots # {}
  BY DEF Addable, FreeSlots, Slots
<1>2. First(FreeSlots) \in FreeSlots
  BY <1>1, FirstInSet
<1>3. First(FreeSlots) \in Slots /\ devices[First(FreeSlots)] = NoDevice
  BY <1>2 DEF FreeSlots
<1>4. n.registrar \in Registrars /\ n.registrar # NoDevice
  BY MsrpAssumption DEF ListenerNotes
<1>5. devices' = [devices EXCEPT ![First(FreeSlots)] = n.registrar]
  BY DEF Add
<1>6. \A r \in Registrars :
        SlotsOf(r)' = IF r = n.registrar THEN SlotsOf(r) \cup {First(FreeSlots)} ELSE SlotsOf(r)
  BY <1>3, <1>4, <1>5, MsrpAssumption DEF SlotsOf, IInv, TypeOK
<1>7. n.registrar \notin Attached
  BY DEF Addable, Attached
<1>8. Attached' = Attached \cup {n.registrar}
  BY <1>4, <1>6 DEF Attached
<1>9. QED
  BY <1>3, <1>4, <1>5, <1>7, <1>8

\* monitor_listener_remove clears the station's only slot.
LEMMA RemoveEffect ==
    ASSUME IInv, NEW n \in ListenerNotes, Removable(n), Remove(n)
    PROVE  /\ First(SlotsOf(n.registrar)) \in Slots
           /\ devices' = [devices EXCEPT ![First(SlotsOf(n.registrar))] = NoDevice]
           /\ n.registrar \in Attached
           /\ Attached' = Attached \ {n.registrar}
<1>1. SlotsOf(n.registrar) \subseteq Nat /\ SlotsOf(n.registrar) # {}
  BY DEF Removable, SlotsOf, Slots
<1>2. First(SlotsOf(n.registrar)) \in SlotsOf(n.registrar)
  BY <1>1, FirstInSet
<1>3. n.registrar \in Registrars /\ n.registrar # NoDevice
  BY MsrpAssumption DEF ListenerNotes
<1>4. devices' = [devices EXCEPT ![First(SlotsOf(n.registrar))] = NoDevice]
  BY DEF Remove
<1>5. \A r \in Registrars : r # n.registrar => SlotsOf(r)' = SlotsOf(r)
  BY <1>2, <1>3, <1>4, MsrpAssumption DEF SlotsOf, IInv, TypeOK
<1>6. \A i \in SlotsOf(n.registrar) : i = First(SlotsOf(n.registrar))
  BY <1>2, <1>3 DEF SlotsOf, IInv, CountsStations
<1>7. SlotsOf(n.registrar)' = {}
  BY <1>2, <1>3, <1>4, <1>6 DEF SlotsOf, IInv, TypeOK
<1>8. n.registrar \in Attached
  BY <1>1, <1>3 DEF Attached
<1>9. Attached' = Attached \ {n.registrar}
  BY <1>5, <1>7 DEF Attached
<1>10. QED
  BY <1>2, <1>4, <1>8, <1>9 DEF SlotsOf

\* Both, with the counter's update after it, keep table and counter in step.
LEMMA AddCounts ==
    ASSUME IInv, NEW n \in ListenerNotes, Addable(n), Add(n)
    PROVE  /\ devices' \in [Slots -> Registrars \cup {NoDevice}]
           /\ CountsStations'
<1>1. devices' \in [Slots -> Registrars \cup {NoDevice}]
  BY AddEffect DEF IInv, TypeOK
<1>2. ASSUME NEW i \in Slots, NEW j \in Slots, devices'[i] = devices'[j], devices'[i] # NoDevice
      PROVE  i = j
  <2>1. \A k \in Slots : devices[k] # n.registrar
    BY AddEffect DEF Attached, SlotsOf
  <2>2. \A k \in Slots : k # First(FreeSlots) => devices'[k] = devices[k]
    BY AddEffect DEF IInv, TypeOK
  <2>3. devices'[First(FreeSlots)] = n.registrar
    BY AddEffect DEF IInv, TypeOK
  <2>4. QED
    BY <1>2, <2>1, <2>2, <2>3 DEF IInv, CountsStations
<1>3. listeners' = Cardinality(Attached')
  <2>1. Cardinality(Attached') = Cardinality(Attached) + 1
    BY AddEffect, CountBounded, FS_AddElement DEF IInv
  <2>2. QED
    BY <2>1 DEF Add, IInv, CountsStations, Attached
<1>4. QED
  BY <1>1, <1>2, <1>3 DEF CountsStations, Attached

LEMMA RemoveCounts ==
    ASSUME IInv, NEW n \in ListenerNotes, Removable(n), Remove(n)
    PROVE  /\ devices' \in [Slots -> Registrars \cup {NoDevice}]
           /\ CountsStations'
<1>1. devices' \in [Slots -> Registrars \cup {NoDevice}]
  BY RemoveEffect DEF IInv, TypeOK
<1>2. ASSUME NEW i \in Slots, NEW j \in Slots, devices'[i] = devices'[j], devices'[i] # NoDevice
      PROVE  i = j
  BY <1>2, RemoveEffect DEF IInv, TypeOK, CountsStations
<1>3. listeners' = Cardinality(Attached')
  <2>1. Cardinality(Attached') = Cardinality(Attached) - 1
    BY RemoveEffect, CountBounded, FS_RemoveElement DEF IInv
  <2>2. QED
    BY <2>1 DEF Remove, IInv, CountsStations, Attached
<1>4. QED
  BY <1>1, <1>2, <1>3 DEF CountsStations, Attached

-----------------------------------------------------------------------------
(* TypeOK and CountsStations.                                              *)

LEMMA InitIInv == Init => IInv
<1> SUFFICES ASSUME Init PROVE IInv
  OBVIOUS
<1>1. Attached = {}
  BY MsrpAssumption DEF Init, Attached, SlotsOf
<1>2. Cardinality(Attached) = 0
  BY <1>1, FS_EmptySet
<1>3. CountsStations
  BY <1>2 DEF Init, CountsStations, Attached
<1>4. TypeOK
  <2>1. /\ devices \in [Slots -> Registrars \cup {NoDevice}]
        /\ talker_found \in BOOLEAN /\ halt_flag \in BOOLEAN
        /\ thread \in {"running", "halted", "failed"}
        /\ known \in BOOLEAN /\ queried \in BOOLEAN
        /\ declared \in [Registrars -> Declared \cup {"none"}]
        /\ talker \in BOOLEAN /\ complete \in BOOLEAN /\ dropped \in BOOLEAN
        /\ heard \subseteq Registrars
    BY Zenon DEF Init
  <2>2. listeners \in 0 .. MaxStreams
    BY MsrpAssumption DEF Init
  <2>3. inbox \in Seq(ListenerNotes \cup TalkerNotes) /\ Len(inbox) <= SocketBuffer
    BY MsrpAssumption DEF Init
  <2>4. QED
    BY <2>1, <2>2, <2>3 DEF TypeOK
<1>5. QED
  BY <1>3, <1>4 DEF IInv

\* A datagram read by the monitor thread.
LEMMA ReceiveIInv ==
    ASSUME IInv, Receive
    PROVE  IInv'
<1>1. Head(inbox) \in Notes /\ Tail(inbox) \in Seq(Notes) /\ Len(Tail(inbox)) <= SocketBuffer
  BY MsrpAssumption DEF IInv, TypeOK, Receive, Notes
<1>2. /\ devices' \in [Slots -> Registrars \cup {NoDevice}]
      /\ CountsStations'
      /\ talker_found' \in BOOLEAN
  <2>1. CASE ListenerAttribute(Head(inbox))
    <3>1. Head(inbox) \in ListenerNotes
      BY <1>1, <2>1 DEF ListenerAttribute, Notes, TalkerNotes
    <3>2. talker_found' \in BOOLEAN
      BY <2>1 DEF ListenerAttribute, IInv, TypeOK
    <3>3. CASE Removable(Head(inbox)) /\ Remove(Head(inbox))
      BY <3>1, <3>2, <3>3, RemoveCounts
    <3>4. CASE Addable(Head(inbox)) /\ Add(Head(inbox))
      BY <3>1, <3>2, <3>4, AddCounts
    <3>5. CASE UNCHANGED <<devices, listeners>>
      BY <3>2, <3>5 DEF IInv, TypeOK, CountsStations, SlotsOf
    <3>6. QED
      BY <2>1, <3>3, <3>4, <3>5 DEF ListenerAttribute
  <2>2. CASE TalkerAttribute(Head(inbox))
    BY <2>2 DEF TalkerAttribute, IInv, TypeOK, CountsStations, SlotsOf
  <2>3. CASE UNCHANGED clientVars
    BY <2>3 DEF clientVars, IInv, TypeOK, CountsStations, SlotsOf
  <2>4. QED
    BY <2>1, <2>2, <2>3 DEF Receive
<1>3. listeners' \in 0 .. MaxStreams
  BY <1>2, CountBoundedNext
<1>4. thread' \in {"running", "halted", "failed"}
  BY DEF Receive, AfterRecv
<1>5. QED
  BY <1>1, <1>2, <1>3, <1>4 DEF IInv, TypeOK, Receive, stationVars, Notes

\* What the stations declare keeps its type, and so does what mrpd makes of it.
LEMMA StationsIInv ==
    ASSUME IInv, Stations
    PROVE  IInv'
<1> DEFINE TypedNotify ==
      /\ inbox' \in Seq(Notes)
      /\ Len(inbox') <= SocketBuffer
      /\ dropped' \in BOOLEAN
      /\ complete' \in BOOLEAN
<1>1. TypedNotify
  <2>1. ASSUME NEW notify \in {"null", "new", "join", "leave"}, NEW id \in {Mine, Other},
               NEW r \in Registrars, NEW d \in Declarations
        PROVE  ListenerNote(notify, id, r, d) \in Notes
    BY DEF ListenerNote, Notes, ListenerNotes
  <2>2. ASSUME NEW notify \in {"null", "new", "join", "leave"}
        PROVE  TalkerNote(notify) \in Notes
    BY DEF TalkerNote, Notes, TalkerNotes
  <2>3. ASSUME NEW r \in Registrars, NEW d \in Declared, ListenerDeclares(r, d)
        PROVE  TypedNotify
    BY <2>1, <2>3, NotifyType, MsrpAssumption DEF ListenerDeclares, IInv
  <2>4. ASSUME NEW r \in Registrars, ListenerLeaves(r)
        PROVE  TypedNotify
    <3>1. declared[r] \in Declarations
      BY <2>4, MsrpAssumption DEF ListenerLeaves, IInv, TypeOK
    <3>2. QED
      BY <2>1, <2>4, <3>1, NotifyType DEF ListenerLeaves, IInv
  <2>5. ASSUME NEW r \in Registrars, NEW notify \in {"join", "leave"}, OtherStream(r, notify)
        PROVE  TypedNotify
    BY <2>1, <2>5, NotifyType DEF OtherStream, IInv, Declarations
  <2>6. ASSUME TalkerDeclares
        PROVE  TypedNotify
    BY <2>2, <2>6, NotifyType DEF TalkerDeclares, IInv
  <2>7. ASSUME TalkerLeaves
        PROVE  TypedNotify
    BY <2>2, <2>7, NotifyType DEF TalkerLeaves, IInv
  <2>8. QED
    BY <2>3, <2>4, <2>5, <2>6, <2>7 DEF Stations
<1>2. UNCHANGED <<clientVars, threadVars, known, queried>>
  BY DEF Stations, ListenerDeclares, ListenerLeaves, OtherStream, TalkerDeclares, TalkerLeaves
<1>3. declared' \in [Registrars -> Declared \cup {"none"}] /\ talker' \in BOOLEAN
  BY DEF Stations, ListenerDeclares, ListenerLeaves, OtherStream, TalkerDeclares, TalkerLeaves,
         stationVars, IInv, TypeOK
<1>4. heard' \subseteq Registrars
  BY DEF Stations, ListenerDeclares, ListenerLeaves, OtherStream, TalkerDeclares, TalkerLeaves,
         Hear, stationVars, IInv, TypeOK
<1>5. CountsStations'
  BY <1>2 DEF clientVars, IInv, CountsStations, SlotsOf
<1>6. TypeOK'
  BY <1>1, <1>2, <1>3, <1>4 DEF clientVars, threadVars, IInv, TypeOK, Notes
<1>7. QED
  BY <1>5, <1>6 DEF IInv

\* mrpd answers a query.
LEMMA AnswersIInv ==
    ASSUME IInv, MrpdAnswers
    PROVE  IInv'
<1>1. PICK notes \in AnswerDatagrams : Deliver(notes) /\ complete' = Fits(notes)
  BY DEF MrpdAnswers
<1>2. notes \in Seq(Notes)
  BY DatagramsType DEF IInv
<1>3. inbox' \in Seq(Notes) /\ Len(inbox') <= SocketBuffer /\ dropped' \in BOOLEAN
  BY <1>1, <1>2, DeliverType DEF IInv
<1>4. complete' \in BOOLEAN
  BY <1>1 DEF Fits
<1>5. QED
  BY <1>3, <1>4 DEF MrpdAnswers, clientVars, threadVars, stationVars, IInv, TypeOK,
                    CountsStations, SlotsOf, Notes

LEMMA NextIInv == IInv /\ [Next]_vars => IInv'
<1> SUFFICES ASSUME IInv, [Next]_vars PROVE IInv'
  OBVIOUS
<1> USE DEF clientVars, threadVars, linkVars, stationVars
<1>1. CASE Receive
  BY <1>1, ReceiveIInv
<1>2. CASE RecvTimeout
  BY <1>2 DEF RecvTimeout, AfterRecv, IInv, TypeOK, CountsStations, SlotsOf
<1>3. CASE RecvFails
  BY <1>3 DEF RecvFails, IInv, TypeOK, CountsStations, SlotsOf
<1>4. CASE Send
  BY <1>4 DEF Send, IInv, TypeOK, CountsStations, SlotsOf
<1>5. CASE Query
  BY <1>5 DEF Query, IInv, TypeOK, CountsStations, SlotsOf
<1>6. CASE Halt
  BY <1>6 DEF Halt, IInv, TypeOK, CountsStations, SlotsOf
<1>7. CASE MrpdAnswers
  BY <1>7, AnswersIInv
<1>8. CASE Stations
  BY <1>8, StationsIInv
<1>9. CASE UNCHANGED vars
  BY <1>9 DEF vars, IInv, TypeOK, CountsStations, SlotsOf
<1>10. QED
  BY <1>1, <1>2, <1>3, <1>4, <1>5, <1>6, <1>7, <1>8, <1>9 DEF Next

LEMMA Inductive == Spec => []IInv
  BY InitIInv, NextIInv, PTL DEF Spec

\* The context and the socket keep their types, and the counter its range, for
\* any number of stations, slots and any size of the socket buffer.
THEOREM TypeCorrect == Spec => []TypeOK
<1>1. IInv => TypeOK
  BY DEF IInv
<1>2. QED
  BY <1>1, Inductive, PTL

\* The counter msrp_exist_listener returns is the number of stations in the
\* table, none of them counted twice, whatever mrpd sends, repeats or loses.
THEOREM CounterIsTrue == Spec => []CountsStations
<1>1. IInv => CountsStations
  BY DEF IInv
<1>2. QED
  BY <1>1, Inductive, PTL

-----------------------------------------------------------------------------
(* NobodyKept.                                                             *)

\* The notes about the listener r of the context's stream.
LeaveOf(n, r) ==
    n.attrib = "listener" /\ n.notify = "leave" /\ n.id = Mine /\ n.registrar = r

JoinOf(n, r) ==
    n.attrib = "listener" /\ n.notify # "leave" /\ n.id = Mine /\ n.registrar = r

\* The leave of r is in q, and it is there behind each of its joins.
LeaveIn(q, r) == \E k \in 1 .. Len(q) : LeaveOf(q[k], r)

LeaveLast(q, r) ==
    \A k \in 1 .. Len(q) :
        JoinOf(q[k], r) => \E l \in 1 .. Len(q) : k < l /\ LeaveOf(q[l], r)

\* As long as nothing is lost, the leave of a station that is gone is on its
\* way to a table that holds the station or will.
LeavesFollow ==
    /\ queried => known
    /\ ~known => inbox = <<>> /\ \A r \in Registrars : SlotsOf(r) = {}
    /\ ~dropped =>
        \A r \in Registrars :
            declared[r] = "none" =>
                /\ SlotsOf(r) # {} => LeaveIn(inbox, r)
                /\ LeaveLast(inbox, r)

KInv == IInv /\ LeavesFollow

\* Notes that are no joins of r may follow.
LEMMA FollowedByOthers ==
    ASSUME NEW q \in Seq(Notes), NEW p \in Seq(Notes), NEW r,
           \A k \in 1 .. Len(p) : ~JoinOf(p[k], r)
    PROVE  /\ LeaveIn(q, r) => LeaveIn(q \o p, r)
           /\ LeaveLast(q, r) => LeaveLast(q \o p, r)
<1> DEFINE c == q \o p
<1>1. /\ Len(q) \in Nat /\ Len(p) \in Nat /\ Len(c) = Len(q) + Len(p)
      /\ \A k \in 1 .. Len(q) : c[k] = q[k]
      /\ \A k \in Len(q) + 1 .. Len(c) : c[k] = p[k - Len(q)]
  OBVIOUS
<1> HIDE DEF c
<1>2. LeaveIn(q, r) => LeaveIn(c, r)
  BY <1>1 DEF LeaveIn
<1>3. ASSUME LeaveLast(q, r), NEW k \in 1 .. Len(c), JoinOf(c[k], r)
      PROVE  \E l \in 1 .. Len(c) : k < l /\ LeaveOf(c[l], r)
  <2>1. CASE k \in 1 .. Len(q)
    BY <1>1, <1>3, <2>1 DEF LeaveLast
  <2>2. CASE k \in Len(q) + 1 .. Len(c)
    <3>1. c[k] = p[k - Len(q)] /\ k - Len(q) \in 1 .. Len(p)
      BY <1>1, <2>2
    <3>2. QED
      BY <1>3, <3>1
  <2>3. QED
    BY <1>1, <2>1, <2>2
<1>4. QED
  BY <1>2, <1>3 DEF LeaveLast, c

\* A leave that comes last follows every join.
LEMMA FollowedByLeave ==
    ASSUME NEW q \in Seq(Notes), NEW n \in Notes, NEW r, LeaveOf(n, r)
    PROVE  LeaveIn(q \o <<n>>, r) /\ LeaveLast(q \o <<n>>, r)
<1> DEFINE c == q \o <<n>>
<1>1. Len(q) \in Nat /\ Len(c) = Len(q) + 1 /\ c[Len(q) + 1] = n
  OBVIOUS
<1> HIDE DEF c
<1>2. LeaveIn(c, r)
  BY <1>1 DEF LeaveIn
<1>3. ASSUME NEW k \in 1 .. Len(c), JoinOf(c[k], r)
      PROVE  \E l \in 1 .. Len(c) : k < l /\ LeaveOf(c[l], r)
  <2>1. k # Len(q) + 1
    BY <1>1, <1>3 DEF LeaveOf, JoinOf
  <2>2. k < Len(c) /\ Len(c) \in 1 .. Len(c) /\ LeaveOf(c[Len(c)], r)
    BY <1>1, <2>1
  <2>3. QED
    BY <2>2
<1>4. QED
  BY <1>2, <1>3 DEF LeaveLast, c

\* Reading a note from the front.
LEMMA TailFollowed ==
    ASSUME NEW q \in Seq(Notes), q # <<>>, NEW r, LeaveLast(q, r)
    PROVE  /\ LeaveLast(Tail(q), r)
           /\ LeaveIn(q, r) => LeaveOf(Head(q), r) \/ LeaveIn(Tail(q), r)
           /\ JoinOf(Head(q), r) => LeaveIn(Tail(q), r)
<1> DEFINE t == Tail(q)
<1>1. /\ Len(q) \in Nat /\ Len(q) > 0 /\ Len(t) = Len(q) - 1
      /\ Head(q) = q[1]
      /\ \A k \in 1 .. Len(t) : t[k] = q[k + 1]
  OBVIOUS
<1> HIDE DEF t
<1>2. \A k \in 2 .. Len(q) : k - 1 \in 1 .. Len(t) /\ q[k] = t[k - 1]
  BY <1>1
<1>3. ASSUME NEW k \in 1 .. Len(t), JoinOf(t[k], r)
      PROVE  \E l \in 1 .. Len(t) : k < l /\ LeaveOf(t[l], r)
  <2>1. PICK l \in 1 .. Len(q) : k + 1 < l /\ LeaveOf(q[l], r)
    BY <1>1, <1>3 DEF LeaveLast
  <2>2. l - 1 \in 1 .. Len(t) /\ k < l - 1 /\ LeaveOf(t[l - 1], r)
    BY <1>1, <1>2, <2>1
  <2>3. QED
    BY <2>2
<1>4. ASSUME NEW k \in 2 .. Len(q), LeaveOf(q[k], r)
      PROVE  LeaveIn(t, r)
  BY <1>2, <1>4 DEF LeaveIn
<1>5. LeaveIn(q, r) => LeaveOf(Head(q), r) \/ LeaveIn(t, r)
  BY <1>1, <1>4 DEF LeaveIn
<1>6. JoinOf(Head(q), r) => LeaveIn(t, r)
  BY <1>1, <1>4 DEF LeaveLast
<1>7. QED
  BY <1>3, <1>5, <1>6 DEF LeaveLast, t

\* A datagram read: what it adds is followed by its leave, and a leave that was
\* the last empties the station's slot.
LEMMA ReceiveFollows ==
    ASSUME KInv, Receive
    PROVE  LeavesFollow'
<1>1. /\ inbox # <<>> /\ inbox \in Seq(Notes) /\ Head(inbox) \in Notes
      /\ inbox' = Tail(inbox)
      /\ UNCHANGED <<known, queried, dropped, declared>>
  BY DEF Receive, KInv, IInv, TypeOK, Notes, stationVars
<1>2. known
  BY <1>1 DEF KInv, LeavesFollow
<1>3. ASSUME ~dropped, NEW r \in Registrars, declared[r] = "none"
      PROVE  (SlotsOf(r)' # {} => LeaveIn(Tail(inbox), r)) /\ LeaveLast(Tail(inbox), r)
  <2>1. /\ LeaveLast(inbox, r)
        /\ SlotsOf(r) # {} => LeaveIn(inbox, r)
    BY <1>3 DEF KInv, LeavesFollow
  <2>2. /\ LeaveLast(Tail(inbox), r)
        /\ LeaveIn(inbox, r) => LeaveOf(Head(inbox), r) \/ LeaveIn(Tail(inbox), r)
        /\ JoinOf(Head(inbox), r) => LeaveIn(Tail(inbox), r)
    BY <1>1, <2>1, TailFollowed
  <2>3. ASSUME SlotsOf(r)' # {}
        PROVE  LeaveIn(Tail(inbox), r)
    <3>1. CASE UNCHANGED devices
      <4>1. SlotsOf(r) # {}
        BY <2>3, <3>1 DEF SlotsOf
      <4>2. CASE LeaveOf(Head(inbox), r)
        <5>1. Removable(Head(inbox)) /\ Head(inbox) \in ListenerNotes
          BY <1>1, <4>1, <4>2 DEF LeaveOf, Removable, Notes, TalkerNotes
        <5>2. Remove(Head(inbox))
          BY <4>2, <5>1 DEF LeaveOf, Receive, Parsed, ListenerAttribute, TalkerAttribute
        <5>3. r \in Attached /\ r \notin Attached'
          BY <4>2, <5>1, <5>2, RemoveEffect DEF LeaveOf, KInv
        <5>4. QED
          BY <2>3, <5>3 DEF Attached
      <4>3. QED
        BY <2>1, <2>2, <4>1, <4>2
    <3>2. CASE ListenerAttribute(Head(inbox)) /\ Removable(Head(inbox)) /\ Remove(Head(inbox))
                 /\ Head(inbox).notify = "leave"
      <4>1. Head(inbox) \in ListenerNotes
        BY <1>1, <3>2 DEF ListenerAttribute, Notes, TalkerNotes
      <4>2. Attached' = Attached \ {Head(inbox).registrar}
        BY <3>2, <4>1, RemoveEffect DEF KInv
      <4>3. SlotsOf(r) # {} /\ r # Head(inbox).registrar
        BY <2>3, <4>2 DEF Attached
      <4>4. QED
        BY <2>1, <2>2, <4>3 DEF LeaveOf
    <3>3. CASE ListenerAttribute(Head(inbox)) /\ Addable(Head(inbox)) /\ Add(Head(inbox))
                 /\ Head(inbox).notify # "leave"
      <4>1. Head(inbox) \in ListenerNotes
        BY <1>1, <3>3 DEF ListenerAttribute, Notes, TalkerNotes
      <4>2. Attached' = Attached \cup {Head(inbox).registrar}
        BY <3>3, <4>1, AddEffect DEF KInv
      <4>3. CASE r = Head(inbox).registrar
        BY <2>2, <3>3, <4>3 DEF JoinOf, ListenerAttribute, Addable
      <4>4. CASE r # Head(inbox).registrar
        <5>1. SlotsOf(r) # {}
          BY <2>3, <4>2, <4>4 DEF Attached
        <5>2. QED
          BY <2>1, <2>2, <3>3, <5>1 DEF LeaveOf
      <4>5. QED
        BY <4>3, <4>4
    <3>4. QED
      BY <3>1, <3>2, <3>3 DEF Receive, ListenerAttribute, TalkerAttribute, clientVars
  <2>4. QED
    BY <2>2, <2>3
<1>4. QED
  BY <1>1, <1>2, <1>3 DEF KInv, LeavesFollow

\* Notes that fit are appended.
LEMMA DeliveredWhole ==
    ASSUME NEW notes, Deliver(notes), ~dropped'
    PROVE  ~dropped /\ inbox' = inbox \o notes
  BY DEF Deliver

\* What a station does while another is gone changes nothing for the latter;
\* its own leave comes behind all its joins.
LEMMA NotifyFollows ==
    ASSUME KInv, NEW n \in Notes, Notify(n), UNCHANGED <<devices, known, queried>>,
           \A r \in Registrars :
             declared'[r] = "none" =>
               \/ LeaveOf(n, r)
               \/ (declared[r] = "none" /\ ~JoinOf(n, r))
    PROVE  LeavesFollow'
<1>1. inbox \in Seq(Notes) /\ <<n>> \in Seq(Notes)
  BY DEF KInv, IInv, TypeOK, Notes
<1>2. CASE known
  <2>1. ASSUME ~dropped', NEW r \in Registrars, declared'[r] = "none"
        PROVE  (SlotsOf(r) # {} => LeaveIn(inbox', r)) /\ LeaveLast(inbox', r)
    <3>1. ~dropped /\ inbox' = inbox \o <<n>>
      BY <1>2, <2>1, DeliveredWhole DEF Notify
    <3>2. CASE LeaveOf(n, r)
      BY <1>1, <3>1, <3>2, FollowedByLeave
    <3>3. CASE declared[r] = "none" /\ ~JoinOf(n, r)
      <4>1. \A k \in 1 .. Len(<<n>>) : ~JoinOf(<<n>>[k], r)
        BY <3>3
      <4>2. (SlotsOf(r) # {} => LeaveIn(inbox, r)) /\ LeaveLast(inbox, r)
        BY <3>1, <3>3 DEF KInv, LeavesFollow
      <4>3. QED
        BY <1>1, <3>1, <4>1, <4>2, FollowedByOthers
    <3>4. QED
      BY <2>1, <3>2, <3>3
  <2>2. QED
    BY <1>2, <2>1 DEF LeavesFollow, SlotsOf
<1>3. CASE ~known
  <2>1. inbox' = <<>> /\ \A r \in Registrars : SlotsOf(r) = {}
    BY <1>3 DEF Notify, KInv, LeavesFollow
  <2>2. \A r : LeaveLast(inbox', r)
    BY <2>1 DEF LeaveLast
  <2>3. QED
    BY <1>3, <2>1, <2>2 DEF KInv, LeavesFollow, SlotsOf
<1>4. QED
  BY <1>2, <1>3

\* The answers to a query name only stations that are there.
LEMMA AnswersFollow ==
    ASSUME KInv, MrpdAnswers
    PROVE  LeavesFollow'
<1>1. PICK notes \in AnswerDatagrams : Deliver(notes)
  BY DEF MrpdAnswers
<1>2. notes \in Seq(Notes) /\ inbox \in Seq(Notes)
  BY DatagramsType DEF KInv, IInv, TypeOK, Notes
<1>3. known /\ UNCHANGED <<devices, known, declared>> /\ queried' = FALSE
  BY DEF MrpdAnswers, clientVars, stationVars, KInv, LeavesFollow
<1>4. ASSUME ~dropped', NEW r \in Registrars, declared[r] = "none"
      PROVE  (SlotsOf(r) # {} => LeaveIn(inbox', r)) /\ LeaveLast(inbox', r)
  <2>1. ~dropped /\ inbox' = inbox \o notes
    BY <1>1, <1>4, DeliveredWhole
  <2>2. \A a \in Answers : ~JoinOf(a, r) /\ ~JoinOf([a EXCEPT !.more = TRUE], r)
    BY <1>4 DEF Answers, ListenerNote, TalkerNote, JoinOf
  <2>3. \A k \in 1 .. Len(notes) : ~JoinOf(notes[k], r)
    BY <2>2, DatagramsType DEF KInv, IInv
  <2>4. (SlotsOf(r) # {} => LeaveIn(inbox, r)) /\ LeaveLast(inbox, r)
    BY <1>4, <2>1 DEF KInv, LeavesFollow
  <2>5. QED
    BY <1>2, <2>1, <2>3, <2>4, FollowedByOthers
<1>5. QED
  BY <1>3, <1>4 DEF LeavesFollow, SlotsOf

LEMMA StationsFollow ==
    ASSUME KInv, Stations
    PROVE  LeavesFollow'
<1> USE DEF clientVars, stationVars
<1>1. ASSUME NEW r \in Registrars, NEW d \in Declared, ListenerDeclares(r, d)
      PROVE  LeavesFollow'
  <2> DEFINE n == ListenerNote(IF declared[r] = "none" THEN "new" ELSE "join", Mine, r, d)
  <2>1. n \in Notes
    BY MsrpAssumption DEF ListenerNote, Notes, ListenerNotes
  <2>2. Notify(n) /\ UNCHANGED <<devices, known, queried>>
    BY <1>1 DEF ListenerDeclares
  <2>3. d # "none"
    BY MsrpAssumption DEF Declarations
  <2>4. ASSUME NEW s \in Registrars, declared'[s] = "none"
        PROVE  declared[s] = "none" /\ ~JoinOf(n, s)
    <3>1. s # r /\ declared[s] = "none"
      BY <1>1, <2>3, <2>4 DEF ListenerDeclares, KInv, IInv, TypeOK
    <3>2. QED
      BY <3>1 DEF JoinOf, ListenerNote
  <2> HIDE DEF n
  <2>5. QED
    BY <2>1, <2>2, <2>4, NotifyFollows
<1>2. ASSUME NEW r \in Registrars, ListenerLeaves(r)
      PROVE  LeavesFollow'
  <2> DEFINE n == ListenerNote("leave", Mine, r, declared[r])
  <2>1. n \in Notes
    BY <1>2, MsrpAssumption DEF ListenerNote, Notes, ListenerNotes, ListenerLeaves, KInv, IInv, TypeOK
  <2>2. Notify(n) /\ UNCHANGED <<devices, known, queried>>
    BY <1>2 DEF ListenerLeaves
  <2>3. ASSUME NEW s \in Registrars, declared'[s] = "none"
        PROVE  LeaveOf(n, s) \/ (declared[s] = "none" /\ ~JoinOf(n, s))
    <3>1. CASE s = r
      BY <3>1 DEF LeaveOf, ListenerNote
    <3>2. CASE s # r
      <4>1. declared[s] = "none"
        BY <1>2, <2>3, <3>2 DEF ListenerLeaves, KInv, IInv, TypeOK
      <4>2. QED
        BY <3>2, <4>1 DEF JoinOf, ListenerNote
    <3>3. QED
      BY <3>1, <3>2
  <2> HIDE DEF n
  <2>4. QED
    BY <2>1, <2>2, <2>3, NotifyFollows
<1>3. ASSUME NEW r \in Registrars, NEW notify \in {"join", "leave"}, OtherStream(r, notify)
      PROVE  LeavesFollow'
  <2> DEFINE n == ListenerNote(notify, Other, r, "ready")
  <2>1. n \in Notes
    BY DEF ListenerNote, Notes, ListenerNotes, Declarations
  <2>2. Notify(n) /\ UNCHANGED <<devices, known, queried, declared, heard>>
    BY <1>3 DEF OtherStream
  <2>3. \A s \in Registrars : ~JoinOf(n, s)
    BY MsrpAssumption DEF JoinOf, ListenerNote
  <2> HIDE DEF n
  <2>4. QED
    BY <2>1, <2>2, <2>3, NotifyFollows
<1>4. ASSUME NEW notify \in {"new", "join", "leave"}, Notify(TalkerNote(notify)),
             UNCHANGED <<devices, known, queried, declared>>
      PROVE  LeavesFollow'
  <2>1. TalkerNote(notify) \in Notes
    BY DEF TalkerNote, Notes, TalkerNotes
  <2>2. \A s \in Registrars : ~JoinOf(TalkerNote(notify), s)
    BY DEF JoinOf, TalkerNote
  <2>3. QED
    BY <1>4, <2>1, <2>2, NotifyFollows
<1>5. CASE TalkerDeclares
  <2>1. (IF talker THEN "join" ELSE "new") \in {"new", "join", "leave"}
    OBVIOUS
  <2>2. QED
    BY <1>4, <1>5, <2>1 DEF TalkerDeclares
<1>6. CASE TalkerLeaves
  BY <1>4, <1>6 DEF TalkerLeaves
<1>7. QED
  BY <1>1, <1>2, <1>3, <1>5, <1>6 DEF Stations

LEMMA KInductive == Spec => []KInv
<1>1. Init => KInv
  <2> SUFFICES ASSUME Init PROVE KInv
    OBVIOUS
  <2>1. IInv
    BY InitIInv
  <2>2. \A r \in Registrars : SlotsOf(r) = {}
    BY MsrpAssumption DEF Init, SlotsOf
  <2>3. inbox = <<>> /\ \A r : LeaveLast(inbox, r)
    BY DEF Init, LeaveLast
  <2>4. QED
    BY <2>1, <2>2, <2>3 DEF Init, KInv, LeavesFollow
<1>2. KInv /\ [Next]_vars => KInv'
  <2> SUFFICES ASSUME KInv, [Next]_vars PROVE LeavesFollow'
    BY NextIInv DEF KInv
  <2> USE DEF clientVars, threadVars, linkVars, stationVars
  <2>1. CASE Receive
    BY <2>1, ReceiveFollows
  <2>2. CASE MrpdAnswers
    BY <2>2, AnswersFollow
  <2>3. CASE Stations
    BY <2>3, StationsFollow
  <2>4. CASE RecvTimeout \/ RecvFails \/ Halt \/ UNCHANGED vars
    <3>1. UNCHANGED <<devices, inbox, known, queried, dropped, declared>>
      BY <2>4 DEF RecvTimeout, RecvFails, Halt, vars
    <3>2. QED
      BY <3>1 DEF KInv, LeavesFollow, SlotsOf
  <2>5. CASE Send \/ Query
    <3>1. known' = TRUE /\ UNCHANGED <<devices, inbox, dropped, declared>>
      BY <2>5 DEF Send, Query
    <3>2. QED
      BY <3>1 DEF KInv, LeavesFollow, SlotsOf
  <2>6. QED
    BY <2>1, <2>2, <2>3, <2>4, <2>5 DEF Next
<1>3. QED
  BY <1>1, <1>2, PTL DEF Spec

\* Unless a datagram was lost, the table holds no station that is gone once the
\* socket is read: a stream is not kept running for nobody.
THEOREM NobodyIsKept == Spec => []NobodyKept
<1>1. KInv => NobodyKept
  BY DEF KInv, LeavesFollow, LeaveIn, NobodyKept
<1>2. QED
  BY <1>1, KInductive, PTL

-----------------------------------------------------------------------------
(* NobodyMissed.                                                           *)

\* A note that puts r into a table with room.
ReadyOf(n, r) == JoinOf(n, r) /\ Parsed(n) /\ n.substate \in Ready

\* No leave of r is in q; a note that r is ready is in q, with no leave behind it.
NoLeave(q, r) == \A k \in 1 .. Len(q) : ~LeaveOf(q[k], r)

ReadyLast(q, r) ==
    \E k \in 1 .. Len(q) :
        ReadyOf(q[k], r) /\ \A l \in 1 .. Len(q) : k < l => ~LeaveOf(q[l], r)

\* What has been read and what is on the way have a station that is ready in the table.
Kept(q, r) == (SlotsOf(r) # {} /\ NoLeave(q, r)) \/ ReadyLast(q, r)

\* A station that is ready, and was heard of last in this state, is kept.
ReadyFollow ==
    Cardinality(Registrars) <= MaxStreams =>
        \A r \in heard : declared[r] \in Ready => Kept(inbox, r)

MInv == IInv /\ ReadyFollow

\* What the socket has room for of the notes delivered is appended to what is there.
LEMMA DeliveredPrefix ==
    ASSUME TypeOK, NEW notes \in Seq(Notes), Deliver(notes)
    PROVE  \E t \in Seq(Notes) :
              /\ inbox' = inbox \o t
              /\ Fits(notes) => t = notes
              /\ \A k \in 1 .. Len(t) : k \in 1 .. Len(notes) /\ t[k] = notes[k]
<1>1. inbox \in Seq(Notes) /\ Len(inbox) \in Nat /\ Len(notes) \in Nat /\ SocketBuffer \in Nat
      /\ Len(inbox) <= SocketBuffer
  BY MsrpAssumption DEF TypeOK, Notes
<1>2. CASE Fits(notes)
  BY <1>2 DEF Deliver
<1>3. CASE ~Fits(notes)
  <2> DEFINE c == inbox \o notes
             t == SubSeq(notes, 1, SocketBuffer - Len(inbox))
             rest == SocketBuffer - Len(inbox)
  <2>1. /\ c \in Seq(Notes) /\ Len(c) = Len(inbox) + Len(notes)
        /\ \A k \in 1 .. Len(inbox) : c[k] = inbox[k]
        /\ \A k \in Len(inbox) + 1 .. Len(c) : c[k] = notes[k - Len(inbox)]
    BY <1>1
  <2>2. rest \in 0 .. Len(notes) /\ SocketBuffer = Len(inbox) + rest
    BY <1>1, <1>3 DEF Fits
  <2>3. t \in Seq(Notes) /\ Len(t) = rest /\ \A k \in 1 .. rest : t[k] = notes[k]
    BY <1>1, <2>2
  <2>4. inbox' = SubSeq(c, 1, SocketBuffer)
    BY <1>3, Zenon DEF Deliver
  <2> HIDE DEF c, t, rest
  <2> DEFINE a == SubSeq(c, 1, SocketBuffer)
             b == inbox \o t
  <2>5. /\ a \in Seq(Notes) /\ Len(a) = SocketBuffer
        /\ \A k \in 1 .. SocketBuffer : a[k] = c[k]
    BY <1>1, <2>1, <2>2
  <2>6. /\ b \in Seq(Notes) /\ Len(b) = SocketBuffer
        /\ \A k \in 1 .. Len(inbox) : b[k] = inbox[k]
        /\ \A k \in Len(inbox) + 1 .. Len(b) : b[k] = t[k - Len(inbox)]
    BY <1>1, <2>2, <2>3
  <2> HIDE DEF a, b
  <2>7. ASSUME NEW k \in 1 .. SocketBuffer PROVE c[k] = b[k]
    <3>1. CASE k \in 1 .. Len(inbox)
      BY <2>1, <2>6, <3>1
    <3>2. CASE k \in Len(inbox) + 1 .. SocketBuffer
      <4>1. k - Len(inbox) \in 1 .. rest
        BY <1>1, <2>2, <3>2
      <4>2. k \in Len(inbox) + 1 .. Len(c) /\ k \in Len(inbox) + 1 .. Len(b)
        BY <1>1, <2>1, <2>2, <2>6, <3>2
      <4>3. QED
        BY <2>1, <2>3, <2>6, <4>1, <4>2
    <3>3. QED
      BY <1>1, <3>1, <3>2
  <2>8. a = b
    BY <1>1, <2>5, <2>6, <2>7
  <2>9. \A k \in 1 .. Len(t) : k \in 1 .. Len(notes) /\ t[k] = notes[k]
    BY <1>1, <2>2, <2>3
  <2>10. QED
    BY <1>3, <2>3, <2>4, <2>8, <2>9 DEF a, b
<1>4. QED
  BY <1>2, <1>3

\* Notes that are no leaves of r may follow, a note that r is ready as well.
LEMMA KeptByOthers ==
    ASSUME NEW q \in Seq(Notes), NEW p \in Seq(Notes), NEW r,
           \A k \in 1 .. Len(p) : ~LeaveOf(p[k], r)
    PROVE  /\ NoLeave(q, r) => NoLeave(q \o p, r)
           /\ ReadyLast(q, r) => ReadyLast(q \o p, r)
           /\ (\E k \in 1 .. Len(p) : ReadyOf(p[k], r)) => ReadyLast(q \o p, r)
<1> DEFINE c == q \o p
<1>1. /\ Len(q) \in Nat /\ Len(p) \in Nat /\ Len(c) = Len(q) + Len(p)
      /\ \A k \in 1 .. Len(q) : c[k] = q[k]
      /\ \A k \in Len(q) + 1 .. Len(c) : c[k] = p[k - Len(q)]
  OBVIOUS
<1> HIDE DEF c
<1>2. ASSUME NEW k \in Len(q) + 1 .. Len(c) PROVE ~LeaveOf(c[k], r)
  <2>1. c[k] = p[k - Len(q)] /\ k - Len(q) \in 1 .. Len(p)
    BY <1>1
  <2>2. QED
    BY <2>1
<1>3. NoLeave(q, r) => NoLeave(c, r)
  <2>1. \A k \in 1 .. Len(c) : k \in 1 .. Len(q) \/ k \in Len(q) + 1 .. Len(c)
    BY <1>1
  <2>2. QED
    BY <1>1, <1>2, <2>1 DEF NoLeave
<1>4. ASSUME ReadyLast(q, r) PROVE ReadyLast(c, r)
  <2>1. PICK k \in 1 .. Len(q) :
            ReadyOf(q[k], r) /\ \A l \in 1 .. Len(q) : k < l => ~LeaveOf(q[l], r)
    BY <1>4 DEF ReadyLast
  <2>2. k \in 1 .. Len(c) /\ ReadyOf(c[k], r)
    BY <1>1, <2>1
  <2>3. ASSUME NEW l \in 1 .. Len(c), k < l PROVE ~LeaveOf(c[l], r)
    <3>1. l \in 1 .. Len(q) \/ l \in Len(q) + 1 .. Len(c)
      BY <1>1
    <3>2. QED
      BY <1>1, <1>2, <2>1, <2>3, <3>1
  <2>4. QED
    BY <2>2, <2>3 DEF ReadyLast
<1>5. ASSUME NEW k \in 1 .. Len(p), ReadyOf(p[k], r) PROVE ReadyLast(c, r)
  <2>1. Len(q) + k \in 1 .. Len(c) /\ Len(q) + k \in Len(q) + 1 .. Len(c)
        /\ (Len(q) + k) - Len(q) = k
    BY <1>1
  <2>2. ReadyOf(c[Len(q) + k], r)
    BY <1>1, <1>5, <2>1
  <2>3. \A l \in 1 .. Len(c) : Len(q) + k < l => l \in Len(q) + 1 .. Len(c)
    BY <1>1
  <2>4. QED
    BY <1>2, <2>1, <2>2, <2>3 DEF ReadyLast
<1>6. QED
  BY <1>3, <1>4, <1>5 DEF c

\* Reading a note from the front.
LEMMA TailKept ==
    ASSUME NEW q \in Seq(Notes), q # <<>>, NEW r
    PROVE  /\ NoLeave(q, r) => ~LeaveOf(Head(q), r) /\ NoLeave(Tail(q), r)
           /\ ReadyLast(q, r) => \/ ReadyLast(Tail(q), r)
                                 \/ ReadyOf(Head(q), r) /\ NoLeave(Tail(q), r)
<1> DEFINE t == Tail(q)
<1>1. /\ Len(q) \in Nat /\ Len(q) > 0 /\ Len(t) = Len(q) - 1
      /\ Head(q) = q[1]
      /\ \A k \in 1 .. Len(t) : t[k] = q[k + 1]
  OBVIOUS
<1> HIDE DEF t
<1>2. 1 \in 1 .. Len(q) /\ \A k \in 1 .. Len(t) : k + 1 \in 1 .. Len(q)
  BY <1>1
<1>3. NoLeave(q, r) => ~LeaveOf(Head(q), r) /\ NoLeave(t, r)
  BY <1>1, <1>2 DEF NoLeave
<1>4. ASSUME NEW k \in 1 .. Len(q), ReadyOf(q[k], r),
             \A l \in 1 .. Len(q) : k < l => ~LeaveOf(q[l], r)
      PROVE  ReadyLast(t, r) \/ (ReadyOf(Head(q), r) /\ NoLeave(t, r))
  <2>1. CASE k = 1
    <3>1. \A l \in 1 .. Len(t) : k < l + 1
      BY <2>1
    <3>2. QED
      BY <1>1, <1>2, <1>4, <2>1, <3>1 DEF NoLeave
  <2>2. CASE k # 1
    <3>1. k - 1 \in 1 .. Len(t) /\ (k - 1) + 1 = k
      BY <1>1, <2>2
    <3>2. ReadyOf(t[k - 1], r)
      BY <1>1, <1>4, <3>1
    <3>3. \A l \in 1 .. Len(t) : k - 1 < l => k < l + 1
      BY <1>1
    <3>4. \A l \in 1 .. Len(t) : k - 1 < l => ~LeaveOf(t[l], r)
      BY <1>1, <1>2, <1>4, <3>3
    <3>5. QED
      BY <3>1, <3>2, <3>4 DEF ReadyLast
  <2>3. QED
    BY <2>1, <2>2
<1>5. QED
  BY <1>3, <1>4 DEF ReadyLast, t

\* A table that is large enough for all stations has room for one that is not in it.
LEMMA RoomForAll ==
    ASSUME IInv, Cardinality(Registrars) <= MaxStreams, NEW r \in Registrars, SlotsOf(r) = {}
    PROVE  FreeSlots # {}
<1> SUFFICES ASSUME FreeSlots = {} PROVE FALSE
  OBVIOUS
<1> DEFINE Others == Registrars \ {r}
<1>1. devices \in [Slots -> Others]
  <2>1. \A i \in Slots : devices[i] # r /\ devices[i] # NoDevice
    BY DEF SlotsOf, FreeSlots
  <2>2. QED
    BY <2>1 DEF IInv, TypeOK
<1>2. devices \in Injection(Slots, Others)
  <2>1. \A i \in Slots : devices[i] # NoDevice
    BY DEF FreeSlots
  <2>2. ASSUME NEW i \in Slots, NEW j \in Slots, devices[i] = devices[j] PROVE i = j
    BY <2>1, <2>2 DEF IInv, CountsStations
  <2>3. DOMAIN devices = Slots
    BY <1>1
  <2>4. QED
    BY <1>1, <2>2, <2>3 DEF Injection, IsInjective
<1>3. IsFiniteSet(Registrars) /\ IsFiniteSet(Others)
      /\ Cardinality(Others) = Cardinality(Registrars) - 1
  BY MsrpAssumption, FS_RemoveElement
<1>4. IsFiniteSet(Slots) /\ Cardinality(Slots) = MaxStreams
  BY MsrpAssumption, FS_Interval DEF Slots
<1>5. Cardinality(Slots) <= Cardinality(Others)
  BY <1>2, <1>3, FS_Injection
<1>6. QED
  BY <1>3, <1>4, <1>5, FS_CardinalityType, MsrpAssumption

\* A datagram read: only its own leave takes a station out of the table.
LEMMA ReceiveReady ==
    ASSUME MInv, Receive
    PROVE  ReadyFollow'
<1>1. /\ inbox # <<>> /\ inbox \in Seq(Notes) /\ Head(inbox) \in Notes
      /\ inbox' = Tail(inbox)
      /\ UNCHANGED <<declared, heard>> /\ heard \subseteq Registrars
  BY DEF Receive, MInv, IInv, TypeOK, Notes, stationVars
<1> DEFINE n == Head(inbox)
<1>2. ASSUME n.attrib = "listener" PROVE n \in ListenerNotes
  BY <1>1, <1>2 DEF Notes, TalkerNotes
<1>3. ASSUME NEW r \in Registrars, SlotsOf(r) # {}, ~LeaveOf(n, r)
      PROVE  SlotsOf(r)' # {}
  <2>1. CASE UNCHANGED devices
    BY <1>3, <2>1 DEF SlotsOf
  <2>2. CASE ListenerAttribute(n) /\ Removable(n) /\ Remove(n) /\ n.notify = "leave"
    <3>1. n \in ListenerNotes
      BY <1>2, <2>2 DEF ListenerAttribute
    <3>2. Attached' = Attached \ {n.registrar}
      BY <2>2, <3>1, RemoveEffect DEF MInv
    <3>3. r # n.registrar
      BY <1>3, <2>2 DEF LeaveOf, ListenerAttribute, Removable
    <3>4. QED
      BY <1>3, <3>2, <3>3 DEF Attached
  <2>3. CASE ListenerAttribute(n) /\ Addable(n) /\ Add(n) /\ n.notify # "leave"
    <3>1. n \in ListenerNotes
      BY <1>2, <2>3 DEF ListenerAttribute
    <3>2. Attached' = Attached \cup {n.registrar}
      BY <2>3, <3>1, AddEffect DEF MInv
    <3>3. QED
      BY <1>3, <3>2 DEF Attached
  <2>4. QED
    BY <2>1, <2>2, <2>3 DEF Receive, ListenerAttribute, TalkerAttribute, clientVars
<1>4. ASSUME Cardinality(Registrars) <= MaxStreams, NEW r \in Registrars, ReadyOf(n, r)
      PROVE  SlotsOf(r)' # {}
  <2>1. CASE SlotsOf(r) # {}
    BY <1>3, <1>4, <2>1 DEF LeaveOf, ReadyOf, JoinOf
  <2>2. CASE SlotsOf(r) = {}
    <3>1. FreeSlots # {}
      BY <1>4, <2>2, RoomForAll DEF MInv
    <3>2. Addable(n) /\ n.attrib = "listener" /\ n.notify # "leave" /\ n.substate \in Ready
          /\ n.registrar = r /\ Parsed(n)
      BY <1>4, <2>2, <3>1 DEF Addable, ReadyOf, JoinOf
    <3>3. Add(n)
      BY <3>2 DEF Receive, ListenerAttribute, TalkerAttribute
    <3>4. Attached' = Attached \cup {n.registrar}
      BY <1>2, <3>2, <3>3, AddEffect DEF MInv
    <3>5. QED
      BY <3>2, <3>4 DEF Attached
  <2>3. QED
    BY <2>1, <2>2
<1> HIDE DEF n
<1>5. ASSUME Cardinality(Registrars) <= MaxStreams, NEW r \in heard, declared[r] \in Ready
      PROVE  (SlotsOf(r)' # {} /\ NoLeave(Tail(inbox), r)) \/ ReadyLast(Tail(inbox), r)
  <2>0. r \in Registrars
    BY <1>1
  <2>1. (SlotsOf(r) # {} /\ NoLeave(inbox, r)) \/ ReadyLast(inbox, r)
    BY <1>5 DEF MInv, ReadyFollow, Kept
  <2>2. CASE SlotsOf(r) # {} /\ NoLeave(inbox, r)
    <3>1. ~LeaveOf(n, r) /\ NoLeave(Tail(inbox), r)
      BY <1>1, <2>2, TailKept DEF n
    <3>2. QED
      BY <1>3, <2>0, <2>2, <3>1
  <2>3. CASE ReadyLast(inbox, r)
    <3>1. ReadyLast(Tail(inbox), r) \/ (ReadyOf(n, r) /\ NoLeave(Tail(inbox), r))
      BY <1>1, <2>3, TailKept DEF n
    <3>2. QED
      BY <1>4, <1>5, <2>0, <3>1
  <2>4. QED
    BY <2>1, <2>2, <2>3
<1>6. QED
  BY <1>1, <1>5 DEF MInv, ReadyFollow, Kept, SlotsOf

\* What is delivered takes no station out, and puts one in that it names as ready.
LEMMA DeliverReady ==
    ASSUME MInv, NEW notes \in Seq(Notes), Deliver(notes), UNCHANGED devices,
           heard' \subseteq Registrars,
           \A r \in heard' :
             declared'[r] \in Ready =>
               /\ \A k \in 1 .. Len(notes) : ~LeaveOf(notes[k], r)
               /\ \/ r \in heard /\ declared[r] \in Ready
                  \/ Fits(notes) /\ \E k \in 1 .. Len(notes) : ReadyOf(notes[k], r)
    PROVE  ReadyFollow'
<1>1. inbox \in Seq(Notes) /\ TypeOK
  BY DEF MInv, IInv, TypeOK, Notes
<1>2. PICK t \in Seq(Notes) :
         /\ inbox' = inbox \o t
         /\ Fits(notes) => t = notes
         /\ \A k \in 1 .. Len(t) : k \in 1 .. Len(notes) /\ t[k] = notes[k]
  BY <1>1, DeliveredPrefix
<1>3. ASSUME Cardinality(Registrars) <= MaxStreams, NEW r \in heard', declared'[r] \in Ready
      PROVE  (SlotsOf(r) # {} /\ NoLeave(inbox', r)) \/ ReadyLast(inbox', r)
  <2>1. \A k \in 1 .. Len(t) : ~LeaveOf(t[k], r)
    BY <1>2, <1>3
  <2>2. /\ NoLeave(inbox, r) => NoLeave(inbox', r)
        /\ ReadyLast(inbox, r) => ReadyLast(inbox', r)
        /\ (\E k \in 1 .. Len(t) : ReadyOf(t[k], r)) => ReadyLast(inbox', r)
    BY <1>1, <1>2, <2>1, KeptByOthers
  <2>3. CASE r \in heard /\ declared[r] \in Ready
    <3>1. Kept(inbox, r)
      BY <1>3, <2>3 DEF MInv, ReadyFollow
    <3>2. QED
      BY <2>2, <3>1 DEF Kept
  <2>4. CASE Fits(notes) /\ \E k \in 1 .. Len(notes) : ReadyOf(notes[k], r)
    BY <1>2, <2>2, <2>4
  <2>5. QED
    BY <1>3, <2>3, <2>4
<1>4. QED
  BY <1>3 DEF ReadyFollow, Kept, SlotsOf

\* What mrpd notifies of is the new declaration, or concerns another station or stream.
LEMMA NotifyReady ==
    ASSUME MInv, NEW n \in Notes, Notify(n), UNCHANGED devices,
           heard' \subseteq Registrars,
           \A r \in heard' :
             declared'[r] \in Ready =>
               /\ ~LeaveOf(n, r)
               /\ \/ r \in heard /\ declared[r] \in Ready
                  \/ known /\ Fits(<<n>>) /\ ReadyOf(n, r)
    PROVE  ReadyFollow'
<1> DEFINE p == <<n>>
<1>1. p \in Seq(Notes) /\ Len(p) = 1 /\ p[1] = n /\ \A k \in 1 .. Len(p) : k = 1
  OBVIOUS
<1>2. CASE known
  <2>1. Deliver(p)
    BY <1>2 DEF Notify
  <2>2. ASSUME NEW r \in heard', declared'[r] \in Ready
        PROVE  /\ \A k \in 1 .. Len(p) : ~LeaveOf(p[k], r)
               /\ \/ r \in heard /\ declared[r] \in Ready
                  \/ Fits(p) /\ \E k \in 1 .. Len(p) : ReadyOf(p[k], r)
    <3>1. ReadyOf(n, r) => \E k \in 1 .. Len(p) : ReadyOf(p[k], r)
      <4>1. 1 \in 1 .. Len(p)
        BY <1>1
      <4> HIDE DEF p
      <4>2. QED
        BY <1>1, <4>1
    <3>2. \A k \in 1 .. Len(p) : p[k] = n
      BY <1>1
    <3>3. QED
      BY <2>2, <3>1, <3>2
  <2> HIDE DEF p
  <2>3. QED
    BY <1>1, <2>1, <2>2, DeliverReady
<1>3. CASE ~known
  <2>1. inbox' = inbox
    BY <1>3 DEF Notify
  <2>2. QED
    BY <1>3, <2>1 DEF MInv, ReadyFollow, Kept, SlotsOf
<1>4. QED
  BY <1>2, <1>3

\* The answers to a query take no station out.
LEMMA AnswersReady ==
    ASSUME MInv, MrpdAnswers
    PROVE  ReadyFollow'
<1>1. PICK notes \in AnswerDatagrams : Deliver(notes)
  BY DEF MrpdAnswers
<1>2. notes \in Seq(Notes)
  BY DatagramsType DEF MInv, IInv
<1>3. UNCHANGED <<devices, declared, heard>> /\ heard \subseteq Registrars
  BY DEF MrpdAnswers, clientVars, stationVars, MInv, IInv, TypeOK
<1>4. ASSUME NEW r \in Registrars, NEW k \in 1 .. Len(notes)
      PROVE  ~LeaveOf(notes[k], r)
  <2>1. \A a \in Answers : ~LeaveOf(a, r) /\ ~LeaveOf([a EXCEPT !.more = TRUE], r)
    BY DEF Answers, ListenerNote, TalkerNote, LeaveOf
  <2>2. QED
    BY <2>1, DatagramsType DEF MInv, IInv
<1>5. QED
  BY <1>1, <1>2, <1>3, <1>4, DeliverReady

\* A declaration that reaches the socket is the station's last, one that is lost is not heard.
LEMMA StationsReady ==
    ASSUME MInv, Stations
    PROVE  ReadyFollow'
<1> USE DEF clientVars, stationVars
<1>0. heard \subseteq Registrars
  BY DEF MInv, IInv, TypeOK
<1>1. ASSUME NEW r \in Registrars, NEW d \in Declared, ListenerDeclares(r, d)
      PROVE  ReadyFollow'
  <2> DEFINE n == ListenerNote(IF declared[r] = "none" THEN "new" ELSE "join", Mine, r, d)
  <2>1. n \in Notes
    BY MsrpAssumption DEF ListenerNote, Notes, ListenerNotes
  <2>2. Notify(n) /\ Hear(r, n) /\ UNCHANGED devices
    BY <1>1 DEF ListenerDeclares
  <2>3. heard' \subseteq Registrars
    BY <1>0, <2>2 DEF Hear
  <2>4. ASSUME NEW s \in heard', declared'[s] \in Ready
        PROVE  /\ ~LeaveOf(n, s)
               /\ \/ s \in heard /\ declared[s] \in Ready
                  \/ known /\ Fits(<<n>>) /\ ReadyOf(n, s)
    <3>1. ~LeaveOf(n, s)
      BY DEF LeaveOf, ListenerNote
    <3>2. CASE s = r
      <4>1. d \in Ready
        BY <1>1, <2>4, <3>2 DEF ListenerDeclares, MInv, IInv, TypeOK
      <4>2. known /\ Fits(<<n>>)
        BY <2>2, <2>4, <3>2 DEF Hear
      <4>3. ReadyOf(n, s)
        BY <3>2, <4>1 DEF ReadyOf, JoinOf, ListenerNote, Parsed
      <4>4. QED
        BY <3>1, <4>2, <4>3
    <3>3. CASE s # r
      <4>1. s \in heard
        BY <2>2, <2>4, <3>3 DEF Hear
      <4>2. declared[s] \in Ready
        BY <1>0, <1>1, <2>4, <3>3, <4>1 DEF ListenerDeclares, MInv, IInv, TypeOK
      <4>3. QED
        BY <3>1, <4>1, <4>2
    <3>4. QED
      BY <3>2, <3>3
  <2> HIDE DEF n
  <2>5. QED
    BY <2>1, <2>2, <2>3, <2>4, NotifyReady
<1>2. ASSUME NEW r \in Registrars, ListenerLeaves(r)
      PROVE  ReadyFollow'
  <2> DEFINE n == ListenerNote("leave", Mine, r, declared[r])
  <2>1. n \in Notes
    BY <1>2, MsrpAssumption DEF ListenerNote, Notes, ListenerNotes, ListenerLeaves, MInv, IInv, TypeOK
  <2>2. Notify(n) /\ Hear(r, n) /\ UNCHANGED devices
    BY <1>2 DEF ListenerLeaves
  <2>3. heard' \subseteq Registrars
    BY <1>0, <2>2 DEF Hear
  <2>4. ASSUME NEW s \in heard', declared'[s] \in Ready
        PROVE  ~LeaveOf(n, s) /\ s \in heard /\ declared[s] \in Ready
    <3>1. s # r
      BY <1>2, <2>4 DEF ListenerLeaves, MInv, IInv, TypeOK, Ready
    <3>2. s \in heard
      BY <2>2, <2>4, <3>1 DEF Hear
    <3>3. declared[s] \in Ready
      BY <1>0, <1>2, <2>4, <3>1, <3>2 DEF ListenerLeaves, MInv, IInv, TypeOK
    <3>4. QED
      BY <3>1, <3>2, <3>3 DEF LeaveOf, ListenerNote
  <2> HIDE DEF n
  <2>5. QED
    BY <2>1, <2>2, <2>3, <2>4, NotifyReady
<1>3. ASSUME NEW r \in Registrars, NEW notify \in {"join", "leave"}, OtherStream(r, notify)
      PROVE  ReadyFollow'
  <2> DEFINE n == ListenerNote(notify, Other, r, "ready")
  <2>1. n \in Notes
    BY DEF ListenerNote, Notes, ListenerNotes, Declarations
  <2>2. Notify(n) /\ UNCHANGED <<devices, declared, heard>>
    BY <1>3 DEF OtherStream
  <2>3. \A s \in Registrars : ~LeaveOf(n, s)
    BY MsrpAssumption DEF LeaveOf, ListenerNote
  <2> HIDE DEF n
  <2>4. QED
    BY <1>0, <2>1, <2>2, <2>3, NotifyReady
<1>4. ASSUME NEW notify \in {"new", "join", "leave"}, Notify(TalkerNote(notify)),
             UNCHANGED <<devices, declared, heard>>
      PROVE  ReadyFollow'
  <2>1. TalkerNote(notify) \in Notes
    BY DEF TalkerNote, Notes, TalkerNotes
  <2>2. \A s \in Registrars : ~LeaveOf(TalkerNote(notify), s)
    BY DEF LeaveOf, TalkerNote
  <2>3. QED
    BY <1>0, <1>4, <2>1, <2>2, NotifyReady
<1>5. CASE TalkerDeclares
  <2>1. (IF talker THEN "join" ELSE "new") \in {"new", "join", "leave"}
    OBVIOUS
  <2>2. QED
    BY <1>4, <1>5, <2>1 DEF TalkerDeclares
<1>6. CASE TalkerLeaves
  BY <1>4, <1>6 DEF TalkerLeaves
<1>7. QED
  BY <1>1, <1>2, <1>3, <1>5, <1>6 DEF Stations

LEMMA MInductive == Spec => []MInv
<1>1. Init => MInv
  BY InitIInv DEF Init, MInv, ReadyFollow
<1>2. MInv /\ [Next]_vars => MInv'
  <2> SUFFICES ASSUME MInv, [Next]_vars PROVE ReadyFollow'
    BY NextIInv DEF MInv
  <2> USE DEF clientVars, threadVars, linkVars, stationVars
  <2>1. CASE Receive
    BY <2>1, ReceiveReady
  <2>2. CASE MrpdAnswers
    BY <2>2, AnswersReady
  <2>3. CASE Stations
    BY <2>3, StationsReady
  <2>4. CASE RecvTimeout \/ RecvFails \/ Halt \/ Send \/ Query \/ UNCHANGED vars
    <3>1. UNCHANGED <<devices, inbox, declared, heard>>
      BY <2>4 DEF RecvTimeout, RecvFails, Halt, Send, Query, vars
    <3>2. QED
      BY <3>1 DEF MInv, ReadyFollow, Kept, SlotsOf
  <2>5. QED
    BY <2>1, <2>2, <2>3, <2>4 DEF Next
<1>3. QED
  BY <1>1, <1>2, PTL DEF Spec

\* For any number of stations that MSRP_MAX_STREAMS suffices for, and whatever was lost
\* before: once the socket is read, a listener that is ready and whose last notification
\* reached the socket is in the table of msrp_exist_listener.
THEOREM NobodyIsMissed == Spec => []NobodyMissed
<1>1. MInv => NobodyMissed
  <2> SUFFICES ASSUME MInv, inbox = <<>>, Cardinality(Registrars) <= MaxStreams,
                      NEW r \in heard, declared[r] \in Ready
               PROVE  SlotsOf(r) # {}
    BY DEF NobodyMissed
  <2>1. Kept(inbox, r) /\ Len(inbox) = 0
    BY DEF MInv, ReadyFollow
  <2>2. ~ReadyLast(inbox, r)
    BY <2>1 DEF ReadyLast
  <2>3. QED
    BY <2>1, <2>2 DEF Kept
<1>2. QED
  BY <1>1, MInductive, PTL

=============================================================================
