-------------------------- MODULE AcmpTalkerProofs --------------------------
(***************************************************************************)
(* Proofs about the ACMP talker, for every number of sources, listeners    *)
(* and records, and every set of deliverable commands.  The invariant is   *)
(* TypeOK with FreedBehindLive; the two action properties follow from one  *)
(* step taken in such a state.                                             *)
(***************************************************************************)
EXTENDS AcmpTalker, SequenceTheorems, WellFoundedInduction, TLAPS

IInv == TypeOK /\ FreedBehindLive

\* A search over a nonempty set of table indices ends at a member of the set,
\* and at the smallest: no search of acmp.c runs past its match.
LEMMA FirstInSet ==
    ASSUME NEW S, S \subseteq Nat, S # {}
    PROVE  /\ First(S) \in S
           /\ \A j \in S : First(S) <= j
<1> DEFINE Less == {p \in Nat \X Nat : p[1] < p[2]}
<1>1. IsWellFoundedOn(Less, Nat)
  BY NatLessThanWellFounded, Zenon DEF OpToRel
<1>2. PICK x \in S : \A y \in S : ~ (<<y, x>> \in Less)
  <2> HIDE DEF Less
  <2> QED BY <1>1, WFMin
<1>3. \A y \in S : x <= y
  <2>1. SUFFICES ASSUME NEW y \in S, y < x PROVE FALSE
    OBVIOUS
  <2>2. <<y, x>> \in Less
    BY <2>1
  <2>3. QED
    BY <1>2, <2>2
<1>4. QED
  BY <1>3 DEF First

\* The frames acmp_tx_response builds from a well-formed command.
LEMMA FrameType ==
    ASSUME NEW m \in Messages, NEW type \in CommandTypes \cup ResponseTypes,
           NEW status \in Statuses
    PROVE  Frame(m, type, status) \in Messages
  BY DEF Frame, Messages

LEMMA CountRangeType == CountRange \in Nat /\ CountRange >= 3 /\ CountRange <= 65536
  BY TalkerAssumption

\* connection_count going up and down by one.
LEMMA CountSteps ==
    \A c \in 0 .. CountRange - 1 :
        /\ (c + 1) % CountRange \in 0 .. CountRange - 1
        /\ (c + CountRange - 1) % CountRange \in 0 .. CountRange - 1
        /\ (c + CountRange - 1) % CountRange # c
        /\ (c + CountRange - 1) % CountRange # (c + 1) % CountRange
<1> SUFFICES ASSUME NEW c \in 0 .. CountRange - 1
             PROVE  /\ (c + 1) % CountRange \in 0 .. CountRange - 1
                    /\ (c + CountRange - 1) % CountRange \in 0 .. CountRange - 1
                    /\ (c + CountRange - 1) % CountRange # c
                    /\ (c + CountRange - 1) % CountRange # (c + 1) % CountRange
  OBVIOUS
<1> USE CountRangeType
<1>1. (c + 1) % CountRange = IF c = CountRange - 1 THEN 0 ELSE c + 1
  OBVIOUS
<1>2. (c + CountRange - 1) % CountRange = IF c = 0 THEN CountRange - 1 ELSE c - 1
  OBVIOUS
<1>3. (c + 1) % CountRange \in 0 .. CountRange - 1
  OBVIOUS
<1>4. (c + CountRange - 1) % CountRange \in 0 .. CountRange - 1
  OBVIOUS
<1>5. (c + CountRange - 1) % CountRange # c
  BY <1>2
<1>6. (c + CountRange - 1) % CountRange # (c + 1) % CountRange
  BY <1>1, <1>2
<1>7. QED
  BY <1>3, <1>4, <1>5, <1>6

\* Taking one record out of a list leaves every other one in.
LEMMA RemoveAtKeeps ==
    ASSUME NEW S, NEW s \in Seq(S), NEW k \in 1 .. Len(s)
    PROVE  /\ RemoveAt(s, k) \in Seq(S)
           /\ Len(RemoveAt(s, k)) = Len(s) - 1
           /\ \A j \in 1 .. Len(s) : j # k => \E i \in 1 .. Len(RemoveAt(s, k)) :
                RemoveAt(s, k)[i] = s[j]
<1> DEFINE a == SubSeq(s, 1, k - 1)
<1> DEFINE b == SubSeq(s, k + 1, Len(s))
<1>1. a \in Seq(S) /\ Len(a) = k - 1 /\ \A i \in 1 .. k - 1 : a[i] = s[i]
  OBVIOUS
<1>2. /\ b \in Seq(S) /\ Len(b) = Len(s) - k
      /\ \A i \in 1 .. Len(s) - k : b[i] = s[k + i]
  <2>1. k \in Nat /\ k + 1 \in Nat /\ Len(s) \in Nat /\ k <= Len(s)
    OBVIOUS
  <2>2. \A i \in k + 1 .. Len(s) : s[i] \in S
    BY <2>1
  <2>3. b \in Seq(S)
    BY <2>1, <2>2
  <2>4. Len(b) = Len(s) - k
    BY <2>1
  <2>5. ASSUME NEW i \in 1 .. Len(s) - k
        PROVE  b[i] = s[k + i]
    <3>1. i \in Nat /\ i \in 1 .. Len(s) - (k + 1) + 1 /\ k + 1 + i - 1 = k + i
      BY <2>1
    <3>2. b[i] = s[k + 1 + i - 1]
      BY <2>1, <3>1
    <3>3. QED
      BY <3>1, <3>2
  <2>6. QED
    BY <2>3, <2>4, <2>5
<1>3. RemoveAt(s, k) = a \o b
  BY DEF RemoveAt
<1> HIDE DEF a, b
<1>4. a \o b \in Seq(S) /\ Len(a \o b) = Len(s) - 1
  <2>1. a \o b \in Seq(S) /\ Len(a \o b) = Len(a) + Len(b)
    BY <1>1, <1>2, ConcatProperties
  <2>2. Len(s) \in Nat
    OBVIOUS
  <2>3. QED
    BY <1>1, <1>2, <2>1, <2>2
<1>5. ASSUME NEW j \in 1 .. Len(s), j # k
      PROVE  \E i \in 1 .. Len(a \o b) : (a \o b)[i] = s[j]
  <2>1. CASE j < k
    <3>1. j \in 1 .. Len(a \o b) /\ (a \o b)[j] = s[j]
      BY <1>1, <1>2, <1>4, <2>1
    <3>2. QED
      BY <3>1
  <2>2. CASE j > k
    <3>1. j - 1 \in 1 .. Len(a \o b) /\ (a \o b)[j - 1] = b[j - k]
      BY <1>1, <1>2, <1>4, <2>2
    <3>2. b[j - k] = s[j]
      BY <1>2, <2>2
    <3>3. QED
      BY <3>1, <3>2
  <2>3. QED
    BY <1>5, <2>1, <2>2
<1>6. QED
  BY <1>3, <1>4, <1>5


LEMMA InitInv == Init => IInv
<1> SUFFICES ASSUME Init PROVE IInv
  OBVIOUS
<1>1. <<>> \in Seq(Pairs) /\ Len(<<>>) = 0
  OBVIOUS
<1>2. 0 \in 0 .. CountRange - 1 /\ MaxPairs >= 0
  BY CountRangeType, TalkerAssumption
<1>3. TypeOK
  BY <1>1, <1>2 DEF Init, TypeOK
<1>4. QED
  BY <1>3 DEF Init, IInv, FreedBehindLive

\* Appending a record and dropping a list.
LEMMA AddInv ==
    ASSUME IInv, NEW u \in Sources, NEW p \in Pairs, tx' \subseteq Messages,
           (CanAllocate(u) /\ ~dangling[u] /\ AppendPair(u, p)) \/ DropList(u)
    PROVE  IInv'
<1>1. /\ pairs \in [Sources -> Seq(Pairs)] /\ dangling \in [Sources -> BOOLEAN]
      /\ count \in [Sources -> 0 .. CountRange - 1]
      /\ \A v \in Sources : Len(pairs[v]) <= MaxPairs
      /\ \A v \in Sources : dangling[v] => pairs[v] # <<>>
      /\ MaxPairs \in Nat
  BY TalkerAssumption DEF IInv, TypeOK, FreedBehindLive
<1>2. CASE CanAllocate(u) /\ ~dangling[u] /\ AppendPair(u, p)
  <2>1. /\ Append(pairs[u], p) \in Seq(Pairs)
        /\ Len(Append(pairs[u], p)) = Len(pairs[u]) + 1
        /\ Len(pairs[u]) \in Nat
    BY <1>1
  <2>2. Len(pairs[u]) < MaxPairs
    BY <1>2 DEF CanAllocate
  <2>3. Len(Append(pairs[u], p)) <= MaxPairs
    BY <1>1, <2>1, <2>2
  <2>4. /\ pairs' = [pairs EXCEPT ![u] = Append(pairs[u], p)]
        /\ dangling' = dangling /\ monitor' = monitor
    BY <1>2 DEF AppendPair
  <2>5. pairs' \in [Sources -> Seq(Pairs)] /\ \A v \in Sources : Len(pairs'[v]) <= MaxPairs
    BY <1>1, <2>1, <2>3, <2>4
  <2>6. (count[u] + 1) % CountRange \in 0 .. CountRange - 1
    BY <1>1, CountSteps
  <2>7. count' \in [Sources -> 0 .. CountRange - 1]
    BY <1>1, <1>2, <2>6 DEF AppendPair
  <2>8. \A v \in Sources : dangling'[v] => pairs'[v] # <<>>
    BY <1>1, <1>2, <2>4
  <2>9. QED
    BY <1>1, <2>4, <2>5, <2>7, <2>8 DEF IInv, TypeOK, FreedBehindLive
<1>3. CASE DropList(u)
  <2>1. <<>> \in Seq(Pairs) /\ Len(<<>>) <= MaxPairs
    BY <1>1
  <2>2. pairs' \in [Sources -> Seq(Pairs)] /\ \A v \in Sources : Len(pairs'[v]) <= MaxPairs
    BY <1>1, <1>3, <2>1 DEF DropList
  <2>3. /\ dangling' \in [Sources -> BOOLEAN]
        /\ \A v \in Sources : dangling'[v] => pairs'[v] # <<>>
    BY <1>1, <1>3 DEF DropList
  <2>4. QED
    BY <1>1, <1>3, <2>2, <2>3 DEF IInv, TypeOK, FreedBehindLive, DropList
<1>4. QED
  BY <1>2, <1>3

\* Unlinking record k of a list: the head stays, so a list never gets empty.
LEMMA UnlinkedList ==
    ASSUME IInv, NEW u \in Sources, NEW k \in 1 .. Len(pairs[u])
    PROVE  /\ Unlinked(u, k) \in Seq(Pairs)
           /\ Len(Unlinked(u, k)) <= Len(pairs[u])
           /\ Unlinked(u, k) # <<>>
           /\ \A j \in 1 .. Len(pairs[u]) : pairs[u][j] # pairs[u][k] =>
                 pairs[u][j] \in Range(Unlinked(u, k))
<1>1. pairs[u] \in Seq(Pairs) /\ Len(pairs[u]) \in Nat
  BY DEF IInv, TypeOK
<1>2. CASE k = 1
  BY <1>1, <1>2 DEF Unlinked, Range
<1>3. CASE k # 1
  <2>1. Unlinked(u, k) = RemoveAt(pairs[u], k)
    BY <1>3 DEF Unlinked
  <2>2. /\ Unlinked(u, k) \in Seq(Pairs)
        /\ Len(Unlinked(u, k)) = Len(pairs[u]) - 1
        /\ \A j \in 1 .. Len(pairs[u]) : j # k =>
              \E i \in 1 .. Len(Unlinked(u, k)) : Unlinked(u, k)[i] = pairs[u][j]
    BY <1>1, <2>1, RemoveAtKeeps
  <2>3. Len(Unlinked(u, k)) # 0
    BY <1>1, <1>3, <2>2
  <2>4. \A j \in 1 .. Len(pairs[u]) : pairs[u][j] # pairs[u][k] =>
           pairs[u][j] \in Range(Unlinked(u, k))
    BY <2>2 DEF Range
  <2>5. Len(Unlinked(u, k)) <= Len(pairs[u]) /\ Unlinked(u, k) # <<>>
    <3>1. Len(Unlinked(u, k)) <= Len(pairs[u])
      BY <1>1, <2>2
    <3>2. \A t : Len(t) # 0 => t # <<>>
      OBVIOUS
    <3>3. QED
      BY <2>3, <3>1, <3>2
  <2>6. QED
    BY <2>2, <2>4, <2>5
<1>4. QED
  BY <1>2, <1>3

LEMMA RemoveInv ==
    ASSUME IInv, NEW u \in Sources, NEW k \in 1 .. Len(pairs[u]), tx' \subseteq Messages,
           RemovePair(u, k)
    PROVE  IInv'
<1>1. /\ pairs \in [Sources -> Seq(Pairs)] /\ dangling \in [Sources -> BOOLEAN]
      /\ count \in [Sources -> 0 .. CountRange - 1]
      /\ \A v \in Sources : Len(pairs[v]) <= MaxPairs
      /\ \A v \in Sources : dangling[v] => pairs[v] # <<>>
      /\ MaxPairs \in Nat
  BY TalkerAssumption DEF IInv, TypeOK, FreedBehindLive
<1>2. /\ pairs' = [pairs EXCEPT ![u] = Unlinked(u, k)]
      /\ dangling' = [dangling EXCEPT ![u] = DanglingAfter(u, k)]
      /\ count' = [count EXCEPT ![u] = (count[u] + CountRange - 1) % CountRange]
      /\ monitor' = monitor
  BY DEF RemovePair
<1>3. Unlinked(u, k) \in Seq(Pairs) /\ Unlinked(u, k) # <<>> /\ Len(Unlinked(u, k)) <= MaxPairs
  <2>1. Len(pairs[u]) \in Nat /\ Len(pairs[u]) <= MaxPairs
    BY <1>1
  <2>2. QED
    BY <1>1, <2>1, UnlinkedList
<1>4. pairs' \in [Sources -> Seq(Pairs)] /\ \A v \in Sources : Len(pairs'[v]) <= MaxPairs
  BY <1>1, <1>2, <1>3
<1>5. DanglingAfter(u, k) \in BOOLEAN
  BY <1>1 DEF DanglingAfter
<1>6. dangling' \in [Sources -> BOOLEAN]
  BY <1>1, <1>2, <1>5
<1>7. (count[u] + CountRange - 1) % CountRange \in 0 .. CountRange - 1
  BY <1>1, CountSteps
<1>8. count' \in [Sources -> 0 .. CountRange - 1]
  BY <1>1, <1>2, <1>7
<1>9. \A v \in Sources : dangling'[v] => pairs'[v] # <<>>
  BY <1>1, <1>2, <1>3
<1>10. QED
  BY <1>1, <1>2, <1>4, <1>6, <1>8, <1>9 DEF IInv, TypeOK, FreedBehindLive


\* The positions of a command's record, when there are any.
LEMMA FoundPosition ==
    ASSUME NEW u \in Sources, NEW p, PositionsOf(u, p) # {}
    PROVE  /\ First(PositionsOf(u, p)) \in 1 .. Len(pairs[u])
           /\ pairs[u][First(PositionsOf(u, p))] = p
<1>1. PositionsOf(u, p) \subseteq Nat
  BY DEF PositionsOf
<1>2. First(PositionsOf(u, p)) \in PositionsOf(u, p)
  BY <1>1, FirstInSet
<1>3. QED
  BY <1>2 DEF PositionsOf

\* The steps that leave the talker's records alone.
LEMMA QuietInv ==
    ASSUME IInv, tx' \subseteq Messages,
           UNCHANGED <<pairs, dangling, count>>,
           monitor' \in {"running", "looping", "undefined"}
    PROVE  IInv'
<1> USE DEF IInv
<1>1. TypeOK'
  BY DEF TypeOK
<1>2. FreedBehindLive'
  BY DEF FreedBehindLive
<1>3. QED
  BY <1>1, <1>2

\* The connection_count a frame carries fits its 16 bits.
LEMMA CountedFrame ==
    ASSUME NEW m \in Messages, NEW type \in CommandTypes \cup ResponseTypes,
           NEW status \in Statuses, NEW n \in 0 .. CountRange - 1
    PROVE  [Frame(m, type, status) EXCEPT !.connection_count = n] \in Messages
<1>1. n \in UInt16
  BY CountRangeType DEF UInt16
<1>2. \A f \in Messages : [f EXCEPT !.connection_count = n] \in Messages
  BY <1>1 DEF Messages
<1>3. QED
  BY <1>2, FrameType

LEMMA ConnectInv ==
    ASSUME IInv, NEW m \in Messages, ConnectTxCommand(m), monitor = "running"
    PROVE  IInv'
<1> DEFINE u == m.talker_unique_id
<1>1. PairOf(m) \in Pairs
  BY DEF PairOf, Pairs, Messages
<1>2. /\ "CONNECT_TX_RESPONSE" \in ResponseTypes
      /\ {"SUCCESS", "TALKER_UNKNOWN_ID", "TALKER_MISBEHAVING"} \subseteq Statuses
  BY DEF ResponseTypes, Statuses
<1>3. CASE ~ValidTalkerUnique(u)
  <2>1. TxResponse(m, "CONNECT_TX_RESPONSE", "TALKER_UNKNOWN_ID") /\ UNCHANGED talkerVars
    BY <1>3 DEF ConnectTxCommand
  <2>2. tx' \subseteq Messages
    BY <1>2, <2>1, FrameType DEF TxResponse
  <2>3. QED
    BY <2>1, <2>2, QuietInv DEF talkerVars
<1>4. CASE ValidTalkerUnique(u) /\ DropList(u)
           /\ tx' = {[Frame(m, "CONNECT_TX_RESPONSE", "TALKER_MISBEHAVING") EXCEPT
                        !.connection_count = count[u]]}
  <2>1. u \in Sources /\ count[u] \in 0 .. CountRange - 1
    BY <1>4 DEF ValidTalkerUnique, IInv, TypeOK
  <2>2. tx' \subseteq Messages
    BY <1>2, <1>4, <2>1, CountedFrame
  <2>3. QED
    BY <1>1, <1>4, <2>1, <2>2, AddInv
<1>5. CASE ValidTalkerUnique(u) /\ CanAllocate(u) /\ ~dangling[u] /\ AppendPair(u, PairOf(m))
           /\ tx' = {[Frame(m, "CONNECT_TX_RESPONSE", "SUCCESS") EXCEPT
                        !.connection_count = count'[u]]}
  <2>1. u \in Sources /\ count \in [Sources -> 0 .. CountRange - 1]
    BY <1>5 DEF ValidTalkerUnique, IInv, TypeOK
  <2>2. count'[u] = (count[u] + 1) % CountRange
    BY <1>5, <2>1 DEF AppendPair
  <2>3. count'[u] \in 0 .. CountRange - 1
    BY <2>1, <2>2, CountSteps
  <2>4. tx' \subseteq Messages
    BY <1>2, <1>5, <2>3, CountedFrame
  <2>5. QED
    BY <1>1, <1>5, <2>1, <2>4, AddInv
<1>6. CASE ReadFreed
  <2>1. tx' \subseteq Messages
    BY <1>6 DEF ReadFreed
  <2>2. QED
    BY <1>6, <2>1, QuietInv DEF ReadFreed
<1>7. QED
  BY <1>3, <1>4, <1>5, <1>6 DEF ConnectTxCommand

LEMMA DisconnectInv ==
    ASSUME IInv, NEW m \in Messages, DisconnectTxCommand(m), monitor = "running"
    PROVE  IInv'
<1> DEFINE u == m.talker_unique_id
<1> DEFINE found == PositionsOf(u, PairOf(m))
<1>1. \A status \in {"SUCCESS", "TALKER_UNKNOWN_ID"} :
         TxResponse(m, "DISCONNECT_TX_RESPONSE", status) => tx' \subseteq Messages
  <2>1. "DISCONNECT_TX_RESPONSE" \in ResponseTypes /\ {"SUCCESS", "TALKER_UNKNOWN_ID"} \subseteq Statuses
    BY DEF ResponseTypes, Statuses
  <2>2. QED
    BY <2>1, FrameType DEF TxResponse
<1>2. CASE /\ UNCHANGED talkerVars
           /\ \E status \in {"SUCCESS", "TALKER_UNKNOWN_ID"} :
                TxResponse(m, "DISCONNECT_TX_RESPONSE", status)
  BY <1>1, <1>2, QuietInv DEF talkerVars
<1>3. CASE /\ ValidTalkerUnique(u) /\ found # {} /\ RemovePair(u, First(found))
           /\ TxResponse(m, "DISCONNECT_TX_RESPONSE", "SUCCESS")
  <2>1. u \in Sources /\ First(found) \in 1 .. Len(pairs[u])
    BY <1>3, FoundPosition DEF ValidTalkerUnique
  <2>2. QED
    BY <1>1, <1>3, <2>1, RemoveInv
<1>4. CASE ReadFreed
  <2>1. tx' \subseteq Messages
    BY <1>4 DEF ReadFreed
  <2>2. QED
    BY <1>4, <2>1, QuietInv DEF ReadFreed
<1>5. QED
  BY <1>2, <1>3, <1>4 DEF DisconnectTxCommand


LEMMA QueriesInv ==
    ASSUME IInv, NEW m \in Messages, GetTxState(m) \/ GetTxConnection(m),
           monitor = "running"
    PROVE  IInv'
<1> DEFINE u == m.talker_unique_id
<1>1. /\ {"GET_TX_STATE_RESPONSE", "GET_TX_CONNECTION_RESPONSE"} \subseteq ResponseTypes
      /\ {"SUCCESS", "TALKER_UNKNOWN_ID", "NO_SUCH_CONNECTION"} \subseteq Statuses
  BY DEF ResponseTypes, Statuses
<1>2. ASSUME ValidTalkerUnique(u)
      PROVE  u \in Sources /\ count[u] \in 0 .. CountRange - 1
  BY <1>2 DEF ValidTalkerUnique, IInv, TypeOK
<1>3. CASE GetTxState(m)
  <2>1. UNCHANGED talkerVars
    BY <1>3 DEF GetTxState
  <2>2. CASE TxResponse(m, "GET_TX_STATE_RESPONSE", "TALKER_UNKNOWN_ID")
    BY <1>1, <2>1, <2>2, FrameType, QuietInv DEF TxResponse, talkerVars
  <2>3. CASE /\ ValidTalkerUnique(u)
             /\ tx' = {[Frame(m, "GET_TX_STATE_RESPONSE", "SUCCESS") EXCEPT
                          !.connection_count = count[u]]}
    <3>1. tx' \subseteq Messages
      BY <1>1, <1>2, <2>3, CountedFrame
    <3>2. QED
      BY <2>1, <3>1, QuietInv DEF talkerVars
  <2>4. QED
    BY <1>3, <2>2, <2>3 DEF GetTxState
<1>4. CASE GetTxConnection(m)
  <2>1. CASE /\ UNCHANGED talkerVars
             /\ \E status \in {"TALKER_UNKNOWN_ID", "NO_SUCH_CONNECTION"} :
                  TxResponse(m, "GET_TX_CONNECTION_RESPONSE", status)
    <3>1. tx' \subseteq Messages
      BY <1>1, <2>1, FrameType DEF TxResponse
    <3>2. QED
      BY <2>1, <3>1, QuietInv DEF talkerVars
  <2>2. CASE /\ ValidTalkerUnique(u) /\ pairs[u] # <<>> /\ UNCHANGED talkerVars
             /\ tx' = {[Frame(m, "GET_TX_CONNECTION_RESPONSE", "SUCCESS") EXCEPT
                          !.listener = Head(pairs[u]).listener,
                          !.listener_unique_id = Head(pairs[u]).listener_unique_id,
                          !.connection_count = count[u]]}
    <3>1. pairs[u] \in Seq(Pairs)
      BY <1>2, <2>2 DEF IInv, TypeOK
    <3>2. Head(pairs[u]) \in Pairs
      BY <2>2, <3>1
    <3>3. count[u] \in UInt16
      BY <1>2, <2>2, CountRangeType DEF UInt16
    <3>4. \A f \in Messages, p \in Pairs, n \in UInt16 :
             [f EXCEPT !.listener = p.listener, !.listener_unique_id = p.listener_unique_id,
                       !.connection_count = n] \in Messages
      BY DEF Messages, Pairs
    <3>5. Frame(m, "GET_TX_CONNECTION_RESPONSE", "SUCCESS") \in Messages
      BY <1>1, FrameType
    <3> DEFINE f == Frame(m, "GET_TX_CONNECTION_RESPONSE", "SUCCESS")
    <3> DEFINE p == Head(pairs[u])
    <3> DEFINE answer == [f EXCEPT !.listener = p.listener,
                                   !.listener_unique_id = p.listener_unique_id,
                                   !.connection_count = count[u]]
    <3>6. tx' = {answer}
      BY <2>2
    <3>7. answer \in Messages
      <4> HIDE DEF f, p
      <4>1. f \in Messages /\ p \in Pairs
        BY <3>2, <3>5 DEF f, p
      <4>2. QED
        BY <3>3, <3>4, <4>1
    <3>8. tx' \subseteq Messages
      BY <3>6, <3>7
    <3>9. QED
      BY <2>2, <3>8, QuietInv DEF talkerVars
  <2>3. CASE ReadFreed \/ (monitor' = "looping" /\ tx' = {} /\ UNCHANGED <<pairs, dangling, count>>)
    <3>1. tx' \subseteq Messages
      BY <2>3 DEF ReadFreed
    <3>2. QED
      BY <2>3, <3>1, QuietInv DEF ReadFreed
  <2>4. QED
    BY <1>4, <2>1, <2>2, <2>3 DEF GetTxConnection
<1>5. QED
  BY <1>3, <1>4

LEMMA StepInv == IInv /\ [Next]_vars => IInv'
<1> SUFFICES ASSUME IInv, [Next]_vars
             PROVE  IInv'
  OBVIOUS
<1>1. ASSUME NEW m \in Inputs, Receive(m)
      PROVE  IInv'
  <2>1. m \in Messages /\ monitor = "running"
    BY <1>1, TalkerAssumption DEF Receive
  <2>2. QED
    BY <1>1, <2>1, ConnectInv, DisconnectInv, QueriesInv DEF Receive
<1>2. CASE UNCHANGED vars
  BY <1>2, QuietInv DEF vars, IInv, TypeOK
<1>3. QED
  BY <1>1, <1>2 DEF Next

LEMMA Invariance == Spec => []IInv
  BY InitInv, StepInv, PTL DEF Spec

\* The talker's stream infos and frames stay well formed: connection counts
\* wrap within their 16 bits, and lists within the memory there is.
THEOREM TypeCorrect == Spec => []TypeOK
<1>1. IInv => TypeOK
  BY DEF IInv
<1>2. QED
  BY <1>1, Invariance, PTL

\* No sequence of commands and failed allocations leaves the head pointer of a
\* connected_listeners list at a freed record.
THEOREM HeadNeverFreed == Spec => []FreedBehindLive
<1>1. IInv => FreedBehindLive
  BY DEF IInv
<1>2. QED
  BY <1>1, Invariance, PTL


\* What one step does to the records and the count of source u: nothing, a new
\* record, the loss of the whole list, or the command of a known listener.
LEMMA StepCases ==
    ASSUME IInv, NEW m \in Messages, Receive(m), NEW u \in Sources
    PROVE  \/ pairs'[u] = pairs[u] /\ count'[u] = count[u]
           \/ \E p \in Pairs :
                pairs'[u] = Append(pairs[u], p) /\ count'[u] = (count[u] + 1) % CountRange
           \/ pairs'[u] = <<>> /\ count'[u] = count[u]
           \/ \E k \in 1 .. Len(pairs[u]) :
                /\ pairs'[u] = Unlinked(u, k)
                /\ DisconnectAnswer(u, pairs[u][k])
<1> DEFINE v == m.talker_unique_id
<1>1. pairs \in [Sources -> Seq(Pairs)] /\ count \in [Sources -> 0 .. CountRange - 1]
  BY DEF IInv, TypeOK
<1>2. PairOf(m) \in Pairs
  BY DEF PairOf, Pairs, Messages
<1>3. CASE UNCHANGED <<pairs, count>>
  BY <1>3
<1>4. CASE ValidTalkerUnique(v) /\ DropList(v)
  BY <1>1, <1>4 DEF DropList
<1>5. CASE ValidTalkerUnique(v) /\ AppendPair(v, PairOf(m))
  <2>1. v \in Sources
    BY <1>5 DEF ValidTalkerUnique
  <2>2. CASE u = v
    BY <1>1, <1>2, <1>5, <2>1, <2>2 DEF AppendPair
  <2>3. CASE u # v
    BY <1>1, <1>5, <2>1, <2>3 DEF AppendPair
  <2>4. QED
    BY <2>2, <2>3
<1>6. CASE /\ ValidTalkerUnique(v) /\ PositionsOf(v, PairOf(m)) # {}
           /\ RemovePair(v, First(PositionsOf(v, PairOf(m))))
           /\ TxResponse(m, "DISCONNECT_TX_RESPONSE", "SUCCESS")
  <2> DEFINE k == First(PositionsOf(v, PairOf(m)))
  <2>1. v \in Sources /\ k \in 1 .. Len(pairs[v]) /\ pairs[v][k] = PairOf(m)
    BY <1>6, FoundPosition DEF ValidTalkerUnique
  <2> DEFINE r == Frame(m, "DISCONNECT_TX_RESPONSE", "SUCCESS")
  <2>2. /\ r.message_type = "DISCONNECT_TX_RESPONSE"
        /\ r.talker_unique_id = v
        /\ PairOf(r) = PairOf(m)
    BY DEF Frame, Messages, PairOf
  <2>3. r \in tx'
    BY <1>6 DEF TxResponse
  <2>4. DisconnectAnswer(v, PairOf(m))
    <3> HIDE DEF r
    <3>1. QED
      BY <2>2, <2>3 DEF DisconnectAnswer
  <2>5. CASE u = v
    <3>1. pairs'[u] = Unlinked(u, k)
      BY <1>1, <1>6, <2>1, <2>5 DEF RemovePair
    <3> HIDE DEF k
    <3>2. k \in 1 .. Len(pairs[u]) /\ DisconnectAnswer(u, pairs[u][k])
      BY <2>1, <2>4, <2>5
    <3>3. QED
      BY <3>1, <3>2
  <2>6. CASE u # v
    BY <1>1, <1>6, <2>1, <2>6 DEF RemovePair
  <2>7. QED
    BY <2>5, <2>6
<1>7. QED
  BY <1>3, <1>4, <1>5, <1>6
  DEF Receive, ConnectTxCommand, DisconnectTxCommand, GetTxState, GetTxConnection,
      ReadFreed, talkerVars

\* Removing one listener's record takes no other listener along, whatever the
\* order in which records came and went.
THEOREM ListenersNeverTakenAlong == Spec => ListenersLeaveByOwnCommand
<1> DEFINE Step ==
        \A u \in Sources : \A p \in Range(pairs[u]) :
            p \notin Range(pairs'[u]) => pairs'[u] = <<>> \/ DisconnectAnswer(u, p)
<1>1. ASSUME IInv, NEW m \in Messages, Receive(m)
      PROVE  Step
  <2> SUFFICES ASSUME NEW u \in Sources, NEW p \in Range(pairs[u]),
                      p \notin Range(pairs'[u]), pairs'[u] # <<>>
               PROVE  DisconnectAnswer(u, p)
    OBVIOUS
  <2>1. pairs[u] \in Seq(Pairs)
    BY <1>1 DEF IInv, TypeOK
  <2>2. PICK j \in 1 .. Len(pairs[u]) : pairs[u][j] = p
    BY <2>1 DEF Range
  <2>3. CASE \E q \in Pairs : pairs'[u] = Append(pairs[u], q)
    <3>1. PICK q \in Pairs : pairs'[u] = Append(pairs[u], q)
      BY <2>3
    <3>2. j \in DOMAIN Append(pairs[u], q) /\ Append(pairs[u], q)[j] = p
      BY <2>1, <2>2
    <3>3. QED
      BY <3>1, <3>2 DEF Range
  <2>4. CASE \E k \in 1 .. Len(pairs[u]) :
               pairs'[u] = Unlinked(u, k) /\ DisconnectAnswer(u, pairs[u][k])
    BY <1>1, <2>2, <2>4, UnlinkedList
  <2>5. QED
    BY <1>1, <2>3, <2>4, StepCases
<1>2. IInv /\ [Next]_vars => [Step]_vars
  <2> HIDE DEF Step
  <2> SUFFICES ASSUME IInv, Next
               PROVE  Step
    OBVIOUS
  <2>1. PICK m \in Inputs : Receive(m)
    BY DEF Next
  <2>2. m \in Messages
    BY TalkerAssumption
  <2>3. QED
    BY <1>1, <2>1, <2>2
<1>3. QED
  BY <1>2, Invariance, PTL DEF Spec, ListenersLeaveByOwnCommand

\* The count goes down only by the command of a listener that is in the list.
THEOREM CountFallsOnlyForKnown == Spec => CountFallsForKnownListener
<1> DEFINE Step ==
        \A u \in Sources :
            count'[u] = (count[u] + CountRange - 1) % CountRange =>
                \E p \in Range(pairs[u]) : DisconnectAnswer(u, p)
<1>1. ASSUME IInv, NEW m \in Messages, Receive(m)
      PROVE  Step
  <2> SUFFICES ASSUME NEW u \in Sources,
                      count'[u] = (count[u] + CountRange - 1) % CountRange
               PROVE  \E p \in Range(pairs[u]) : DisconnectAnswer(u, p)
    OBVIOUS
  <2>1. pairs[u] \in Seq(Pairs) /\ count[u] \in 0 .. CountRange - 1
    BY <1>1 DEF IInv, TypeOK
  <2>2. count'[u] # count[u] /\ count'[u] # (count[u] + 1) % CountRange
    BY <2>1, CountSteps
  <2>3. PICK k \in 1 .. Len(pairs[u]) : DisconnectAnswer(u, pairs[u][k])
    BY <1>1, <2>2, StepCases
  <2>4. pairs[u][k] \in Range(pairs[u])
    BY <2>1 DEF Range
  <2>5. QED
    BY <2>3, <2>4
<1>2. IInv /\ [Next]_vars => [Step]_vars
  <2> HIDE DEF Step
  <2> SUFFICES ASSUME IInv, Next
               PROVE  Step
    OBVIOUS
  <2>1. PICK m \in Inputs : Receive(m)
    BY DEF Next
  <2>2. m \in Messages
    BY TalkerAssumption
  <2>3. QED
    BY <1>1, <2>1, <2>2
<1>3. QED
  BY <1>2, Invariance, PTL DEF Spec, CountFallsForKnownListener

=============================================================================
