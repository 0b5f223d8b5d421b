---------------------------- MODULE LauncherProofs ----------------------------
(***************************************************************************)
(* Proofs about the launcher, for every number of contexts and every set   *)
(* of configuration files.                                                 *)
(*                                                                         *)
(* What main takes back depends on where every thread left its context,    *)
(* and that on the order of the stages of streaming_thread: DummyPlace and *)
(* AppPlace say, for each place of a thread, how far its mrpdummy and its  *)
(* application can have come.                                              *)
(***************************************************************************)
EXTENDS Launcher, FiniteSetTheorems, SequenceTheorems, WellFoundedInduction, TLAPS

\* Where main is says what maap_daemon has been asked and has answered.
MaapInv ==
    /\ main \in {"starting", "asking"} => maap = "none" /\ tries = 0 /\ maap_id = 0
    /\ maap_id # 0 => maap_socket
    /\ main = "reserving" => tries < RetryNum
    /\ main = "failed" => maap # "held" /\ (maap = "asked" => tries = 0)
    /\ main \in {"leaving", "returned"} => maap \in Released \/ maap_id = 0

\* What is joined is left again by an order that is still to run, or has failed.
OrdersInv ==
    /\ c_info \in Seq(Range(c_info)) /\ orders \in Seq(Range(c_info))
    /\ main \in {"starting", "asking", "reserving", "connecting"} => joined = {} /\ refused = {}
    /\ main \in {"releasing", "leaving", "returned"} => joined \subseteq refused \cup Range(orders)
    /\ main = "returned" => orders = <<>>

\* The threads run between Spawn and JoinThreads.
ThreadsInv ==
    \A c \in Context :
        /\ main \in {"releasing", "leaving", "returned"} => Finished(c)
        /\ main \notin {"streaming", "releasing", "leaving", "returned"} => pc[c] = "none"

\* The places before the fork of mrpdummy, and before that of the application.
NoAppYet == {"none", "avdecc", "gptp", "manage", "unconnected", "listener_app"}
NoDummyYet == NoAppYet \cup {"reserve"}

\* The mrpdummy of a context.
DummyPlace(c) ==
    /\ stdout[c] \/ pipe[c] => made[c]
    /\ declared[c] => dummy[c] = "reserved" \/ (dummy[c] = "waiting" /\ setup[c].mode = "talker")
    /\ pc[c] \in NoDummyYet \/ ~ setup[c].use_srp => dummy[c] = "none"
    /\ pc[c] \in {"reserve", "reading", "cancel", "cancel_wait", "release", "release_wait"} =>
            setup[c].use_srp
    /\ setup[c].use_srp /\ pc[c] \in {"talker_app", "wait_app", "release", "release_wait"} =>
            made[c]
    /\ pc[c] \in {"cancel", "cancel_wait"} => sigint
    /\ pc[c] \in {"terminate", "done", "bailed"} =>
            dummy[c] \in {"none", "ended"} \/ (sigint /\ sent[c] # "no")

\* Its application.
AppPlace(c) ==
    /\ pc[c] \in NoAppYet => app[c] = "none"
    /\ pc[c] \in {"reserve", "reading", "cancel", "cancel_wait", "talker_app"}
        /\ app[c] # "none" => Mode(c) = "listener"
    /\ pc[c] = "listener_app" => Mode(c) = "listener"
    /\ pc[c] = "talker_app" => Mode(c) = "talker"
    /\ pc[c] \in {"release", "release_wait", "terminate", "done", "bailed"} =>
            \/ app[c] \in {"none", "ended"}
            \/ sigint
            \/ Mode(c) = "listener" /\ pc[c] = "bailed" /\ setup[c].use_srp /\ dummy[c] = "none"
    /\ Mode(c) = "talker" /\ setup[c].use_srp /\ app[c] # "none" => made[c]
    /\ sigint /\ app[c] \in {"forked", "running"} => deaf[c]

IInv ==
    /\ TypeOK /\ MaapInv /\ OrdersInv /\ ThreadsInv
    /\ \A c \in Context : DummyPlace(c) /\ AppPlace(c)

-----------------------------------------------------------------------------
(* The stages of streaming_thread.                                         *)

\* A nonempty set of numbers has a least one.
LEMMA LeastOf ==
    ASSUME NEW S, S \subseteq Nat, S # {}
    PROVE  /\ Min(S) \in S
           /\ \A j \in S : Min(S) <= j
<1> DEFINE Less == {p \in Nat \X Nat : p[1] < p[2]}
<1>1. IsWellFoundedOn(Less, Nat)
  BY NatLessThanWellFounded, Zenon DEF OpToRel
<1>2. PICK x \in S : \A y \in S : ~ (<<y, x>> \in Less)
  <2> HIDE DEF Less
  <2> QED BY <1>1, WFMin
<1>3. \A y \in S : x <= y
  <2>1. SUFFICES ASSUME NEW y \in S, y < x PROVE FALSE
    OBVIOUS
  <2>2. <<y, x>> \in Less
    BY <2>1
  <2>3. QED
    BY <1>2, <2>2
<1>4. QED
  BY <1>3 DEF Min

\* After finds the first of the later stages that the context has.
LEMMA NextStage ==
    ASSUME NEW c, NEW n \in 1..10
    PROVE  \E k \in (n + 1)..11 :
              /\ After(c, Stages[n]) = Stages[k]
              /\ HasStage(c, Stages[k])
              /\ \A i \in (n + 1)..(k - 1) : ~ HasStage(c, Stages[i])
<1> DEFINE later == {i \in (n + 1)..11 : HasStage(c, Stages[i])}
<1>1. Len(Stages) = 11 /\ DOMAIN Stages = 1..11
  BY DEF Stages
<1>2. \A i, j \in 1..11 : Stages[i] = Stages[j] => i = j
  BY DEF Stages
<1>3. (CHOOSE i \in DOMAIN Stages : Stages[i] = Stages[n]) = n
  BY <1>1, <1>2
<1>4. Stages[11] = "done"
  BY DEF Stages
<1>5. HasStage(c, "done")
  BY DEF HasStage
<1>6. 11 \in later
  BY <1>4, <1>5
<1>7. Min(later) \in later /\ \A j \in later : Min(later) <= j
  BY <1>6, LeastOf
<1>8. After(c, Stages[n]) = Stages[Min(later)]
  BY <1>1, <1>3 DEF After
<1>9. \A i \in (n + 1)..(Min(later) - 1) : i \notin later
  BY <1>7
<1>10. QED
  BY <1>7, <1>8, <1>9

\* Where a thread can be after it has been started, and after each of its stages.
LEMMA StagesFollow ==
    ASSUME NEW c
    PROVE  /\ \A s \in {"created", "avdecc", "gptp", "manage", "listener_app"} :
                /\ After(c, s) \in {"avdecc", "gptp", "manage", "listener_app", "reserve",
                                    "talker_app", "wait_app"}
                /\ After(c, s) = "reserve" => setup[c].use_srp
                /\ After(c, s) \in {"talker_app", "wait_app"} => ~ setup[c].use_srp
                /\ After(c, s) = "listener_app" => Mode(c) = "listener"
                /\ After(c, s) = "talker_app" => Mode(c) = "talker"
           /\ After(c, "listener_app") \in {"reserve", "talker_app", "wait_app"}
           /\ After(c, "reserve") \in {"talker_app", "wait_app"}
           /\ After(c, "reserve") = "talker_app" => Mode(c) = "talker"
           /\ After(c, "talker_app") = "wait_app"
           /\ After(c, "wait_app") \in {"release", "terminate", "done"}
           /\ setup[c].use_srp <=> After(c, "wait_app") = "release"
           /\ After(c, "release") \in {"terminate", "done"}
<1>1. /\ Stages[1] = "created" /\ Stages[2] = "avdecc" /\ Stages[3] = "gptp"
      /\ Stages[4] = "manage" /\ Stages[5] = "listener_app" /\ Stages[6] = "reserve"
      /\ Stages[7] = "talker_app" /\ Stages[8] = "wait_app" /\ Stages[9] = "release"
      /\ Stages[10] = "terminate" /\ Stages[11] = "done"
  BY DEF Stages
<1>2. /\ HasStage(c, "listener_app") <=> Mode(c) = "listener"
      /\ HasStage(c, "talker_app") <=> Mode(c) = "talker"
      /\ HasStage(c, "reserve") <=> setup[c].use_srp
      /\ HasStage(c, "release") <=> setup[c].use_srp
      /\ HasStage(c, "wait_app") /\ HasStage(c, "done")
  BY DEF HasStage
<1>3. ASSUME NEW n \in 1..5
      PROVE  /\ After(c, Stages[n]) \in {"avdecc", "gptp", "manage", "listener_app", "reserve",
                                         "talker_app", "wait_app"}
             /\ After(c, Stages[n]) = "reserve" => setup[c].use_srp
             /\ After(c, Stages[n]) \in {"talker_app", "wait_app"} => ~ setup[c].use_srp
             /\ After(c, Stages[n]) = "listener_app" => Mode(c) = "listener"
             /\ After(c, Stages[n]) = "talker_app" => Mode(c) = "talker"
  <2>1. PICK k \in (n + 1)..11 :
              /\ After(c, Stages[n]) = Stages[k]
              /\ HasStage(c, Stages[k])
              /\ \A i \in (n + 1)..(k - 1) : ~ HasStage(c, Stages[i])
    BY NextStage
  <2>2. 8 \in (n + 1)..(k - 1) => FALSE
    BY <1>1, <1>2, <2>1
  <2>3. k \in 2..8
    BY <2>2
  <2>4. k \in 7..8 => ~ HasStage(c, Stages[6])
    BY <2>1
  <2>5. QED
    BY <1>1, <1>2, <2>1, <2>3, <2>4
<1>4. After(c, Stages[5]) \in {"reserve", "talker_app", "wait_app"}
  <2>1. PICK k \in 6..11 :
              /\ After(c, Stages[5]) = Stages[k]
              /\ \A i \in 6..(k - 1) : ~ HasStage(c, Stages[i])
    BY NextStage
  <2>2. k \in 6..8
    BY <1>1, <1>2, <2>1
  <2>3. QED
    BY <1>1, <2>1, <2>2
<1>5. /\ After(c, Stages[6]) \in {"talker_app", "wait_app"}
      /\ After(c, Stages[6]) = "talker_app" => Mode(c) = "talker"
  <2>1. PICK k \in 7..11 :
              /\ After(c, Stages[6]) = Stages[k]
              /\ HasStage(c, Stages[k])
              /\ \A i \in 7..(k - 1) : ~ HasStage(c, Stages[i])
    BY NextStage
  <2>2. k \in 7..8
    BY <1>1, <1>2, <2>1
  <2>3. QED
    BY <1>1, <1>2, <2>1, <2>2
<1>6. After(c, Stages[7]) = "wait_app"
  <2>1. PICK k \in 8..11 :
              /\ After(c, Stages[7]) = Stages[k]
              /\ \A i \in 8..(k - 1) : ~ HasStage(c, Stages[i])
    BY NextStage
  <2>2. k = 8
    BY <1>1, <1>2, <2>1
  <2>3. QED
    BY <1>1, <2>1, <2>2
<1>7. /\ After(c, Stages[8]) \in {"release", "terminate", "done"}
      /\ setup[c].use_srp <=> After(c, Stages[8]) = "release"
  <2>1. PICK k \in 9..11 :
              /\ After(c, Stages[8]) = Stages[k]
              /\ HasStage(c, Stages[k])
              /\ \A i \in 9..(k - 1) : ~ HasStage(c, Stages[i])
    BY NextStage
  <2>2. setup[c].use_srp <=> k = 9
    BY <1>1, <1>2, <2>1
  <2>3. QED
    BY <1>1, <2>1, <2>2
<1>8. After(c, Stages[9]) \in {"terminate", "done"}
  BY <1>1, NextStage
<1>9. \A s \in {"created", "avdecc", "gptp", "manage", "listener_app"} :
          \E n \in 1..5 : s = Stages[n]
  BY <1>1
<1>10. QED
  BY <1>1, <1>3, <1>4, <1>5, <1>6, <1>7, <1>8, <1>9

-----------------------------------------------------------------------------
(* The orders of main.                                                     *)

\* The first order and those after it are all the orders.
LEMMA FirstAndRest ==
    ASSUME NEW S, NEW s \in Seq(S), s # <<>>
    PROVE  /\ Tail(s) \in Seq(S) /\ Head(s) \in S
           /\ Range(s) = Range(Tail(s)) \cup {Head(s)}
<1>1. /\ Tail(s) \in Seq(S) /\ Head(s) \in S /\ Head(s) = s[1]
      /\ Len(s) \in Nat /\ 1 <= Len(s) /\ Len(Tail(s)) = Len(s) - 1
      /\ \A i \in 1..Len(Tail(s)) : Tail(s)[i] = s[i + 1]
  BY HeadTailProperties
<1>2. /\ Range(s) = {s[i] : i \in 1..Len(s)}
      /\ Range(Tail(s)) = {Tail(s)[i] : i \in 1..Len(Tail(s))}
  <2>1. s \in Seq(S) /\ Tail(s) \in Seq(S)
    BY <1>1
  <2>2. QED
    BY <2>1, RangeEquality, Zenon
<1>3. ASSUME NEW i \in 1..Len(s)
      PROVE  s[i] \in Range(Tail(s)) \cup {Head(s)}
  <2>1. CASE i = 1
    BY <1>1, <2>1
  <2>2. CASE i # 1
    <3>1. i - 1 \in 1..Len(Tail(s))
      BY <1>1, <2>2
    <3>2. Tail(s)[i - 1] = s[(i - 1) + 1]
      BY <1>1, <3>1
    <3>3. (i - 1) + 1 = i
      OBVIOUS
    <3>4. QED
      BY <1>2, <3>1, <3>2, <3>3
  <2>3. QED
    BY <2>1, <2>2
<1>4. ASSUME NEW i \in 1..Len(Tail(s))
      PROVE  Tail(s)[i] \in Range(s)
  <2>1. i + 1 \in 1..Len(s)
    BY <1>1
  <2>2. QED
    BY <1>1, <1>2, <2>1
<1>5. Head(s) \in Range(s)
  BY <1>1, <1>2
<1>6. QED
  BY <1>1, <1>2, <1>3, <1>4, <1>5

\* The orders to leave are those to join, the first of them last.
LEMMA Turned ==
    ASSUME NEW S, NEW s \in Seq(S), s # <<>>
    PROVE  /\ Append(Tail(s), Head(s)) \in Seq(S)
           /\ Range(Append(Tail(s), Head(s))) = Range(s)
<1>1. /\ Tail(s) \in Seq(S) /\ Head(s) \in S
      /\ Range(s) = Range(Tail(s)) \cup {Head(s)}
  BY FirstAndRest
<1>2. /\ Append(Tail(s), Head(s)) = Tail(s) \o <<Head(s)>>
      /\ Append(Tail(s), Head(s)) \in Seq(S)
  BY <1>1, AppendIsConcat, AppendProperties
<1>3. <<Head(s)>> \in Seq(S) /\ Len(<<Head(s)>>) = 1 /\ <<Head(s)>>[1] = Head(s)
  BY <1>1
<1>4. Range(<<Head(s)>>) = {Head(s)}
  <2>1. Range(<<Head(s)>>) = {<<Head(s)>>[i] : i \in 1..1}
    BY <1>3, RangeEquality
  <2>2. QED
    BY <1>3, <2>1
<1>5. Range(Tail(s) \o <<Head(s)>>) = Range(Tail(s)) \cup Range(<<Head(s)>>)
  <2>1. Tail(s) \in Seq(S) /\ <<Head(s)>> \in Seq(S)
    BY <1>1, <1>3
  <2>2. \A u, v \in Seq(S) : Range(u \o v) = Range(u) \cup Range(v)
    BY RangeConcatenation
  <2>3. QED
    BY <2>1, <2>2
<1>6. Range(Append(Tail(s), Head(s))) = Range(Tail(s)) \cup {Head(s)}
  BY <1>2, <1>4, <1>5, Zenon
<1>7. QED
  BY <1>1, <1>2, <1>6, Zenon

\* The contexts are finitely many, with numbers.
LEMMA Contexts == IsFiniteSet(Context) /\ Context \subseteq Nat
<1>1. IsFiniteSet(Context)
  BY LauncherAssumption DEF LauncherAssumption
<1>2. Context = 1..Cardinality(Context)
  BY LauncherAssumption, Zenon DEF LauncherAssumption
<1>3. Cardinality(Context) \in Nat
  BY <1>1, FS_CardinalityType
<1>4. \A n \in Nat : 1..n \subseteq Nat
  OBVIOUS
<1>5. 1..Cardinality(Context) \subseteq Nat
  BY <1>3, <1>4
<1>6. QED
  BY <1>1, <1>2, <1>5, Zenon

\* The orders to join are a list.
LEMMA OrderList ==
    ASSUME NEW C, C \subseteq Context, NEW first
    PROVE  LET domains == InOrder(C)
               list == <<first>> \o [i \in DOMAIN domains |-> JoinDomain(domains[i])]
           IN  list \in Seq(Range(list))
<1>1. Cardinality(C) \in Nat
  <2>1. IsFiniteSet(C)
    BY Contexts, FS_Subset
  <2>2. QED
    BY <2>1, FS_CardinalityType
<1> DEFINE domains == InOrder(C)
           rest == [i \in DOMAIN domains |-> JoinDomain(domains[i])]
           S == {first} \cup {rest[i] : i \in 1..Cardinality(C)}
<1>2. DOMAIN domains = 1..Cardinality(C)
  BY DEF InOrder
<1>3. rest \in [1..Cardinality(C) -> S]
  BY <1>2
<1>4. rest \in Seq(S) /\ <<first>> \in Seq(S)
  BY <1>1, <1>3
<1>5. <<first>> \o rest \in Seq(S)
  BY <1>4, ConcatProperties
<1>6. QED
  BY <1>5, SeqOfRange

-----------------------------------------------------------------------------
(* main.                                                                   *)

\* What a context keeps when its thread and its processes do nothing.
LEMMA PlaceKept ==
    ASSUME NEW c, DummyPlace(c), AppPlace(c), UNCHANGED <<setup, sigint>>,
           pc'[c] = pc[c], app'[c] = app[c], deaf'[c] = deaf[c], dummy'[c] = dummy[c],
           sent'[c] = sent[c], stdout'[c] = stdout[c], pipe'[c] = pipe[c],
           declared'[c] = declared[c], made'[c] = made[c]
    PROVE  DummyPlace(c)' /\ AppPlace(c)'
<1>1. DummyPlace(c)'
  BY DEF DummyPlace
<1>2. AppPlace(c)'
  BY DEF AppPlace, Mode
<1>3. QED
  BY <1>1, <1>2

\* What main does beside the threads, but for its own state.
Beside == UNCHANGED <<setup, sigint, threadVars, dummyVars>>

LEMMA MainAlone ==
    ASSUME IInv, Beside
    PROVE  \A c \in Context : DummyPlace(c)' /\ AppPlace(c)'
BY DEF IInv, Beside, threadVars, dummyVars, DummyPlace, AppPlace, Mode

LEMMA MainTypes ==
    ASSUME TypeOK, Beside, err' \in [Context -> BOOLEAN],
           main' \in {"starting", "asking", "reserving", "connecting", "joining", "streaming",
                      "releasing", "leaving", "returned", "failed"},
           maap_socket' \in BOOLEAN, maap' \in {"none", "asked", "held", "kept"},
           maap_id' \in MaapIds \cup {0}, tries' \in 0..RetryNum,
           joined' \subseteq Range(c_info'), refused' \subseteq Range(c_info'),
           Range(orders') \subseteq Range(c_info')
    PROVE  TypeOK'
BY DEF TypeOK, Beside, threadVars, dummyVars, DummyTypeOK

\* The steps before the orders to join are listed.
LEMMA StartIInv ==
    ASSUME IInv, StartUp \/ MaapAsks \/ MaapAnswers
    PROVE  IInv'
<1>1. Beside /\ UNCHANGED <<c_info, orders, joined, refused>>
  BY DEF StartUp, MaapAsks, MaapAnswers, Beside, networkVars
<1>2. /\ main \in {"starting", "asking", "reserving"}
      /\ main' \in {"asking", "reserving", "connecting", "failed"}
  BY DEF StartUp, MaapAsks, MaapAnswers
<1>3. maap_socket' \in BOOLEAN /\ maap' \in {"none", "asked", "held", "kept"}
  BY DEF IInv, TypeOK, StartUp, MaapAsks, MaapAnswers, Released
<1>4. maap_id' \in MaapIds \cup {0} /\ err' \in [Context -> BOOLEAN]
  <2>1. maap_id' \in MaapIds \cup {0}
    BY DEF IInv, TypeOK, StartUp, MaapAsks, MaapAnswers
  <2>2. CASE StartUp
    BY <2>2 DEF IInv, TypeOK, StartUp
  <2>3. CASE MaapAsks \/ MaapAnswers
    BY <2>3 DEF IInv, TypeOK, MaapAsks, MaapAnswers
  <2>4. QED
    BY <2>1, <2>2, <2>3
<1>5. RetryNum \in Nat \ {0} /\ tries \in 0..RetryNum
  BY LauncherAssumption DEF LauncherAssumption, IInv, TypeOK
<1>6. tries' \in 0..RetryNum /\ MaapInv'
  <2>1. CASE StartUp
    BY <1>5, <2>1 DEF IInv, MaapInv, StartUp
  <2>2. CASE MaapAsks
    BY <1>5, <2>2 DEF IInv, MaapInv, MaapAsks
  <2>3. CASE MaapAnswers
    BY <1>5, <2>3 DEF IInv, MaapInv, MaapAnswers, Released
  <2>4. QED
    BY <2>1, <2>2, <2>3
<1>7. TypeOK'
  <2>1. /\ joined' \subseteq Range(c_info') /\ refused' \subseteq Range(c_info')
        /\ Range(orders') \subseteq Range(c_info')
    BY <1>1 DEF IInv, TypeOK
  <2>2. QED
    BY <1>1, <1>2, <1>3, <1>4, <1>6, <2>1, MainTypes DEF IInv
<1>8. OrdersInv'
  BY <1>1, <1>2 DEF IInv, OrdersInv
<1>9. ThreadsInv'
  BY <1>1, <1>2 DEF IInv, ThreadsInv, Beside, threadVars
<1>10. QED
  BY <1>1, <1>6, <1>7, <1>8, <1>9, MainAlone DEF IInv

\* The list of the orders, made before the first is run.
LEMMA ConnectIInv ==
    ASSUME IInv, Connect
    PROVE  IInv'
<1>1. Beside /\ UNCHANGED <<maap_socket, maap, maap_id, tries, joined, refused>>
  BY Zenon DEF Connect, Beside, maapVars
<1>2. main = "connecting" /\ main' = "joining" /\ orders' = c_info'
  BY Zenon DEF Connect
<1>3. c_info' \in Seq(Range(c_info')) /\ err' \in [Context -> BOOLEAN]
  <2> DEFINE uses == {c \in Context : ~ err[c] /\ setup[c].use_srp}
             head == Min(uses)
             alike(c) == setup[c].srclass = setup[head].srclass
             wrong == {c \in uses : alike(c) /\ setup[c].srpriority # setup[head].srpriority}
             listed == {c \in uses : ~ alike(c) /\ \A w \in wrong : c < w}
             domains == InOrder({head} \cup listed)
             list == <<JoinVlan(head)>> \o [i \in DOMAIN domains |-> JoinDomain(domains[i])]
  <2>1. /\ c_info' = IF uses = {} THEN <<>> ELSE list
        /\ err' = [c \in Context |-> err[c] \/ (uses # {} /\ wrong # {} /\ c = Min(wrong))]
    BY Zenon DEF Connect
  <2>2. uses \subseteq Context /\ listed \subseteq uses
    <3> HIDE DEF domains, list
    <3> QED OBVIOUS
  <2>3. uses # {} => head \in uses
    <3> HIDE DEF uses
    <3>1. uses \subseteq Nat
      BY <2>2, Contexts
    <3>2. QED
      BY <3>1, LeastOf
  <2>4. uses # {} => list \in Seq(Range(list))
    <3> HIDE DEF head, uses, listed
    <3>1. SUFFICES ASSUME uses # {} PROVE list \in Seq(Range(list))
      OBVIOUS
    <3>2. {head} \cup listed \subseteq Context
      BY <2>2, <2>3, <3>1
    <3>3. QED
      BY <3>2, OrderList
  <2> HIDE DEF list, uses, wrong
  <2>5. c_info' \in Seq(Range(c_info'))
    <3>1. CASE uses = {}
      BY <2>1, <3>1
    <3>2. CASE uses # {}
      BY <2>1, <2>4, <3>2
    <3>3. QED
      BY <3>1, <3>2
  <2>6. err' \in [Context -> BOOLEAN]
    <3>1. err \in [Context -> BOOLEAN]
      BY DEF IInv, TypeOK
    <3>2. QED
      BY <2>1, <3>1
  <2>7. QED
    BY <2>5, <2>6
<1>4. joined' = {} /\ refused' = {}
  BY <1>1, <1>2 DEF IInv, OrdersInv
<1>5. TypeOK'
  <2>1. /\ maap_socket' \in BOOLEAN /\ maap' \in {"none", "asked", "held", "kept"}
        /\ maap_id' \in MaapIds \cup {0} /\ tries' \in 0..RetryNum
    BY <1>1 DEF IInv, TypeOK
  <2>2. QED
    BY <1>1, <1>2, <1>3, <1>4, <2>1, MainTypes DEF IInv
<1>6. MaapInv'
  BY <1>1, <1>2 DEF IInv, MaapInv
<1>7. OrdersInv'
  BY <1>2, <1>3 DEF OrdersInv
<1>8. ThreadsInv'
  BY <1>1, <1>2 DEF IInv, ThreadsInv, Beside, threadVars
<1>9. QED
  BY <1>1, <1>5, <1>6, <1>7, <1>8, MainAlone DEF IInv

\* An order to join is recorded when it is run.
LEMMA JoinIInv ==
    ASSUME IInv, Join
    PROVE  IInv'
<1>1. /\ Beside /\ UNCHANGED <<main, maap_socket, maap, maap_id, tries, c_info, refused, err>>
      /\ main = "joining" /\ orders # <<>>
      /\ orders' = Tail(orders) /\ joined' = joined \cup {Head(orders)}
  BY DEF Join, Beside, maapVars
<1>2. /\ orders \in Seq(Range(c_info)) /\ Range(orders) \subseteq Range(c_info)
      /\ joined \subseteq Range(c_info)
  BY DEF IInv, OrdersInv, TypeOK
<1>3. /\ Tail(orders) \in Seq(Range(c_info)) /\ Head(orders) \in Range(c_info)
      /\ Range(orders) = Range(Tail(orders)) \cup {Head(orders)}
  BY <1>1, <1>2, FirstAndRest
<1>4. Range(orders') \subseteq Range(c_info') /\ joined' \subseteq Range(c_info')
  BY <1>1, <1>2, <1>3
<1>5. TypeOK'
  <2>1. /\ maap_socket' \in BOOLEAN /\ maap' \in {"none", "asked", "held", "kept"}
        /\ maap_id' \in MaapIds \cup {0} /\ tries' \in 0..RetryNum
        /\ err' \in [Context -> BOOLEAN] /\ refused' \subseteq Range(c_info')
    BY <1>1 DEF IInv, TypeOK
  <2>2. main' = "joining"
    BY <1>1
  <2>3. QED
    BY <1>1, <1>4, <2>1, <2>2, MainTypes DEF IInv
<1>6. MaapInv'
  BY <1>1 DEF IInv, MaapInv
<1>7. OrdersInv'
  BY <1>1, <1>3 DEF IInv, OrdersInv
<1>8. ThreadsInv'
  BY <1>1 DEF IInv, ThreadsInv, Beside, threadVars
<1>9. QED
  BY <1>1, <1>5, <1>6, <1>7, <1>8, MainAlone DEF IInv

\* An order to leave is done, or recorded as refused.
LEMMA LeaveIInv ==
    ASSUME IInv, Leave
    PROVE  IInv'
<1>1. /\ Beside /\ UNCHANGED <<main, maap_socket, maap, maap_id, tries, c_info, err>>
      /\ main = "leaving" /\ orders # <<>> /\ orders' = Tail(orders)
      /\ \/ joined' = joined \ {Head(orders)} /\ refused' = refused
         \/ refused' = refused \cup {Head(orders)} /\ joined' = joined
  BY DEF Leave, Beside, maapVars
<1>2. /\ orders \in Seq(Range(c_info)) /\ Range(orders) \subseteq Range(c_info)
      /\ joined \subseteq Range(c_info) /\ refused \subseteq Range(c_info)
      /\ joined \subseteq refused \cup Range(orders)
  BY <1>1 DEF IInv, OrdersInv, TypeOK
<1>3. /\ Tail(orders) \in Seq(Range(c_info)) /\ Head(orders) \in Range(c_info)
      /\ Range(orders) = Range(Tail(orders)) \cup {Head(orders)}
  BY <1>1, <1>2, FirstAndRest
<1>4. /\ Range(orders') \subseteq Range(c_info') /\ joined' \subseteq Range(c_info')
      /\ refused' \subseteq Range(c_info') /\ joined' \subseteq refused' \cup Range(orders')
  <2>1. CASE joined' = joined \ {Head(orders)} /\ refused' = refused
    BY <1>1, <1>2, <1>3, <2>1
  <2>2. CASE refused' = refused \cup {Head(orders)} /\ joined' = joined
    BY <1>1, <1>2, <1>3, <2>2
  <2>3. QED
    BY <1>1, <2>1, <2>2
<1>5. TypeOK'
  <2>1. /\ maap_socket' \in BOOLEAN /\ maap' \in {"none", "asked", "held", "kept"}
        /\ maap_id' \in MaapIds \cup {0} /\ tries' \in 0..RetryNum
        /\ err' \in [Context -> BOOLEAN]
    BY <1>1 DEF IInv, TypeOK
  <2>2. main' = "leaving"
    BY <1>1
  <2>3. QED
    BY <1>1, <1>4, <2>1, <2>2, MainTypes DEF IInv
<1>6. MaapInv'
  BY <1>1 DEF IInv, MaapInv
<1>7. OrdersInv'
  BY <1>1, <1>3, <1>4 DEF IInv, OrdersInv
<1>8. ThreadsInv'
  BY <1>1 DEF IInv, ThreadsInv, Finished, Beside, threadVars
<1>9. QED
  BY <1>1, <1>5, <1>6, <1>7, <1>8, MainAlone DEF IInv

\* When the threads have ended, every order that may have joined is to leave.
LEMMA JoinThreadsIInv ==
    ASSUME IInv, JoinThreads
    PROVE  IInv'
<1>1. /\ Beside
      /\ UNCHANGED <<maap_socket, maap, maap_id, tries, c_info, joined, refused, err>>
      /\ main = "streaming" /\ main' = "releasing" /\ \A c \in Context : Finished(c)
      /\ orders' = IF c_info = <<>> THEN <<>> ELSE Append(Tail(c_info), Head(c_info))
  BY DEF JoinThreads, Beside, maapVars
<1>2. c_info \in Seq(Range(c_info)) /\ joined \subseteq Range(c_info)
  BY DEF IInv, OrdersInv, TypeOK
<1>3. orders' \in Seq(Range(c_info)) /\ Range(orders') = Range(c_info)
  BY <1>1, <1>2, Turned
<1>4. TypeOK'
  <2>1. /\ maap_socket' \in BOOLEAN /\ maap' \in {"none", "asked", "held", "kept"}
        /\ maap_id' \in MaapIds \cup {0} /\ tries' \in 0..RetryNum
        /\ err' \in [Context -> BOOLEAN]
        /\ joined' \subseteq Range(c_info') /\ refused' \subseteq Range(c_info')
    BY <1>1 DEF IInv, TypeOK
  <2>2. Range(orders') \subseteq Range(c_info')
    BY <1>1, <1>3
  <2>3. QED
    BY <1>1, <2>1, <2>2, MainTypes DEF IInv
<1>5. MaapInv'
  BY <1>1 DEF IInv, MaapInv
<1>6. OrdersInv'
  BY <1>1, <1>2, <1>3 DEF OrdersInv
<1>7. ThreadsInv'
  BY <1>1 DEF ThreadsInv, Finished, Beside, threadVars
<1>8. QED
  BY <1>1, <1>4, <1>5, <1>6, <1>7, MainAlone DEF IInv

\* The reservation of the address is released, and main returns with no order left.
LEMMA EndIInv ==
    ASSUME IInv, MaapReleases \/ Return
    PROVE  IInv'
<1>1. /\ Beside /\ UNCHANGED <<maap_socket, maap_id, tries, c_info, orders, joined, refused, err>>
      /\ main' \in {"leaving", "returned"}
  BY DEF MaapReleases, Return, Beside, maapVars, networkVars
<1>2. /\ main \in {"releasing", "leaving"}
      /\ main' = "returned" => main = "leaving" /\ orders = <<>> /\ maap' = maap
      /\ maap' \in Released \/ maap' = maap
      /\ main' = "leaving" => maap' \in Released \/ ~ maap_socket \/ maap_id = 0
  BY DEF MaapReleases, Return, maapVars
<1>3. TypeOK'
  <2>1. /\ maap_socket' \in BOOLEAN /\ maap' \in {"none", "asked", "held", "kept"}
        /\ maap_id' \in MaapIds \cup {0} /\ tries' \in 0..RetryNum
        /\ err' \in [Context -> BOOLEAN]
        /\ joined' \subseteq Range(c_info') /\ refused' \subseteq Range(c_info')
        /\ Range(orders') \subseteq Range(c_info')
    BY <1>1, <1>2 DEF IInv, TypeOK, Released
  <2>2. QED
    BY <1>1, <2>1, MainTypes DEF IInv
<1>4. MaapInv'
  BY <1>1, <1>2 DEF IInv, MaapInv
<1>5. OrdersInv'
  BY <1>1, <1>2 DEF IInv, OrdersInv
<1>6. ThreadsInv'
  BY <1>1, <1>2 DEF IInv, ThreadsInv, Finished, Beside, threadVars
<1>7. QED
  BY <1>1, <1>3, <1>4, <1>5, <1>6, MainAlone DEF IInv

-----------------------------------------------------------------------------
(* The threads.                                                            *)

Places == {"created", "avdecc", "gptp", "manage", "unconnected", "listener_app", "reserve",
           "reading", "cancel", "cancel_wait", "talker_app", "wait_app", "release",
           "release_wait", "terminate", "done", "bailed", "none"}

LEMMA StagesArePlaces ==
    Range(Stages) \cup {"none", "unconnected", "reading", "cancel", "cancel_wait",
                        "release_wait", "bailed"} = Places
<1>1. /\ Stages[1] = "created" /\ Stages[2] = "avdecc" /\ Stages[3] = "gptp"
      /\ Stages[4] = "manage" /\ Stages[5] = "listener_app" /\ Stages[6] = "reserve"
      /\ Stages[7] = "talker_app" /\ Stages[8] = "wait_app" /\ Stages[9] = "release"
      /\ Stages[10] = "terminate" /\ Stages[11] = "done"
      /\ DOMAIN Stages = 1..11
  BY DEF Stages
<1>2. \A x : x \in Range(Stages) <=> \E i \in 1..11 : x = Stages[i]
  BY <1>1 DEF Range
<1>3. Range(Stages) = {"created", "avdecc", "gptp", "manage", "listener_app", "reserve",
                       "talker_app", "wait_app", "release", "terminate", "done"}
  BY <1>1, <1>2
<1>4. QED
  BY <1>3 DEF Places

\* What follows a stage is a place.
LEMMA StagesTyped ==
    ASSUME NEW c
    PROVE  \A s \in {"created", "avdecc", "gptp", "manage", "listener_app", "reserve",
                     "talker_app", "wait_app", "release"} : After(c, s) \in Places
BY StagesFollow DEF Places

Applications == {"none", "forked", "running", "told", "ended"}
Avdeccs == {"none", "monitoring", "stopped", "locked", "terminated"}

\* A step that leaves main alone keeps what main keeps.
LEMMA ThreadTypes ==
    ASSUME IInv, UNCHANGED <<setup, mainVars>>, sigint' \in BOOLEAN,
           pc' \in [Context -> Places], app' \in [Context -> Applications],
           deaf' \in [Context -> BOOLEAN],
           avdecc' \in [Context -> Avdeccs], DummyTypeOK'
    PROVE  TypeOK' /\ MaapInv' /\ OrdersInv'
<1>1. UNCHANGED <<setup, main, maap_socket, maap, maap_id, tries, c_info, orders, joined,
                  refused, err>>
  BY DEF mainVars, maapVars, networkVars
<1>2. TypeOK'
  BY <1>1, StagesArePlaces DEF IInv, TypeOK, Applications, Avdeccs
<1>3. MaapInv' /\ OrdersInv'
  BY <1>1 DEF IInv, MaapInv, OrdersInv
<1>4. QED
  BY <1>2, <1>3

\* A step in one context, whose thread has not ended or does not move.
LEMMA OneContext ==
    ASSUME IInv, NEW c \in Context, UNCHANGED <<setup, sigint, mainVars>>,
           pc' \in [Context -> Places], app' \in [Context -> Applications],
           deaf' \in [Context -> BOOLEAN],
           avdecc' \in [Context -> Avdeccs], DummyTypeOK',
           pc'[c] = pc[c] \/ ~ Finished(c),
           \A d \in Context \ {c} :
              /\ pc'[d] = pc[d] /\ app'[d] = app[d] /\ deaf'[d] = deaf[d]
              /\ dummy'[d] = dummy[d] /\ sent'[d] = sent[d] /\ stdout'[d] = stdout[d]
              /\ pipe'[d] = pipe[d] /\ declared'[d] = declared[d] /\ made'[d] = made[d],
           DummyPlace(c)', AppPlace(c)'
    PROVE  IInv'
<1>1. main' = main
  BY DEF mainVars
<1>2. TypeOK' /\ MaapInv' /\ OrdersInv'
  <2>1. sigint' \in BOOLEAN
    BY DEF IInv, TypeOK
  <2>2. QED
    BY <2>1, ThreadTypes
<1>3. ThreadsInv'
  BY <1>1 DEF IInv, ThreadsInv, Finished
<1>4. \A d \in Context : DummyPlace(d)' /\ AppPlace(d)'
  <2>1. SUFFICES ASSUME NEW d \in Context \ {c} PROVE DummyPlace(d)' /\ AppPlace(d)'
    OBVIOUS
  <2>2. DummyPlace(d) /\ AppPlace(d)
    BY DEF IInv
  <2>3. QED
    BY <2>2, PlaceKept
<1>5. QED
  BY <1>2, <1>3, <1>4 DEF IInv

\* A thread that only goes on to its next place.
LEMMA GoesOn ==
    ASSUME IInv, NEW c \in Context, NEW s \in Places, Goes(c, s), ~ Finished(c),
           UNCHANGED <<setup, sigint, mainVars, app, deaf, dummyVars>>,
           avdecc' \in [Context -> Avdeccs],
           pc'[c] = s => DummyPlace(c)' /\ AppPlace(c)'
    PROVE  IInv'
<1>1. /\ pc \in [Context -> Places] /\ app \in [Context -> Applications]
      /\ deaf \in [Context -> BOOLEAN] /\ DummyTypeOK
  BY StagesArePlaces DEF IInv, TypeOK, Applications
<1>2. /\ pc' \in [Context -> Places] /\ pc'[c] = s
      /\ \A d \in Context \ {c} : pc'[d] = pc[d]
  BY <1>1 DEF Goes
<1>3. /\ app' \in [Context -> Applications] /\ deaf' \in [Context -> BOOLEAN]
      /\ DummyTypeOK'
      /\ \A d \in Context \ {c} :
            /\ app'[d] = app[d] /\ deaf'[d] = deaf[d] /\ dummy'[d] = dummy[d]
            /\ sent'[d] = sent[d] /\ stdout'[d] = stdout[d] /\ pipe'[d] = pipe[d]
            /\ declared'[d] = declared[d] /\ made'[d] = made[d]
  BY <1>1 DEF DummyTypeOK, dummyVars
<1>4. QED
  BY <1>2, <1>3, OneContext

\* The threads start with neither mrpdummy nor application.
LEMMA SpawnIInv ==
    ASSUME IInv, Spawn
    PROVE  IInv'
<1>1. /\ UNCHANGED <<setup, sigint, maap_socket, maap, maap_id, tries, c_info, orders, joined,
                     refused, err, app, deaf, avdecc, dummy, sent, stdout, pipe, declared,
                     made>>
      /\ main = "joining" /\ main' = "streaming"
      /\ pc' = [c \in Context |-> IF err[c] THEN "none" ELSE After(c, "created")]
  BY DEF Spawn, maapVars, networkVars, dummyVars
<1>2. pc' \in [Context -> Places]
  <2>1. \A c \in Context : After(c, "created") \in Places /\ "none" \in Places
    BY StagesTyped DEF Places
  <2>2. QED
    BY <1>1, <2>1
<1>3. TypeOK'
  BY <1>1, <1>2, StagesArePlaces DEF IInv, TypeOK, DummyTypeOK
<1>4. MaapInv' /\ OrdersInv' /\ ThreadsInv'
  BY <1>1 DEF IInv, MaapInv, OrdersInv, ThreadsInv
<1>5. ASSUME NEW c \in Context
      PROVE  DummyPlace(c)' /\ AppPlace(c)'
  <2>1. pc[c] = "none"
    BY <1>1 DEF IInv, ThreadsInv
  <2>2. dummy'[c] = "none" /\ app'[c] = "none"
    BY <1>1, <2>1 DEF IInv, DummyPlace, AppPlace, NoDummyYet, NoAppYet
  <2>3. pc'[c] \in {"none", After(c, "created")}
    BY <1>1
  <2>4. DummyPlace(c) /\ AppPlace(c)
    BY DEF IInv
  <2>5. DummyPlace(c)'
    BY <1>1, <2>2, <2>3, <2>4, StagesFollow DEF DummyPlace
  <2>6. AppPlace(c)'
    BY <1>1, <2>2, <2>3, <2>4, StagesFollow DEF AppPlace, Mode
  <2>7. QED
    BY <2>5, <2>6
<1>6. QED
  BY <1>3, <1>4, <1>5 DEF IInv

\* The places before mrpdummy and the application are forked.
LEMMA EarlyIInv ==
    ASSUME IInv, NEW c \in Context,
           \/ StartAvdecc(c) \/ Capable(c) \/ GptpGivesUp(c) \/ Manage(c)
           \/ Connected(c) \/ ConnectionGivesUp(c)
    PROVE  IInv'
<1>1. UNCHANGED <<setup, sigint, mainVars, app, deaf, dummyVars>>
  BY DEF StartAvdecc, Capable, GptpGivesUp, Manage, Connected, ConnectionGivesUp
<1>2. pc[c] \in {"avdecc", "gptp", "manage", "unconnected"}
  BY DEF StartAvdecc, Capable, GptpGivesUp, Manage, Connected, ConnectionGivesUp
<1>3. PICK s \in {"unconnected", "terminate", "bailed", After(c, "avdecc"), After(c, "gptp"),
                  After(c, "manage")} : Goes(c, s)
  BY DEF StartAvdecc, Capable, GptpGivesUp, Manage, Connected, ConnectionGivesUp
<1>4. s \in Places
  BY <1>3, StagesTyped DEF Places
<1>5. avdecc' \in [Context -> Avdeccs]
  BY DEF IInv, TypeOK, Avdeccs, StartAvdecc, Capable, GptpGivesUp, Manage, Connected,
         ConnectionGivesUp
<1>6. /\ setup' = setup /\ sigint' = sigint /\ app' = app /\ deaf' = deaf
      /\ dummy' = dummy /\ sent' = sent /\ stdout' = stdout /\ pipe' = pipe
      /\ declared' = declared /\ made' = made
  BY <1>1 DEF dummyVars
<1>7. DummyPlace(c) /\ AppPlace(c) /\ dummy[c] = "none" /\ app[c] = "none"
  BY <1>2 DEF IInv, DummyPlace, AppPlace, NoDummyYet, NoAppYet
<1>8. ASSUME pc'[c] = s
      PROVE  DummyPlace(c)' /\ AppPlace(c)'
  <2>1. DummyPlace(c)'
    BY <1>3, <1>6, <1>7, <1>8, StagesFollow DEF DummyPlace
  <2>2. AppPlace(c)'
    BY <1>3, <1>6, <1>7, <1>8, StagesFollow DEF AppPlace, Mode
  <2>3. QED
    BY <2>1, <2>2
<1>9. ~ Finished(c)
  BY <1>2 DEF Finished
<1>10. QED
  BY <1>1, <1>3, <1>4, <1>5, <1>8, <1>9, GoesOn

\* The waits that end, and the end of AVDECC.
LEMMA WaitedIInv ==
    ASSUME IInv, NEW c \in Context,
           ReadsText(c) \/ DummyWaited(c) \/ AppWaited(c) \/ Terminate(c)
    PROVE  IInv'
<1>1. UNCHANGED <<setup, sigint, mainVars, app, deaf, dummyVars>>
  BY DEF ReadsText, DummyWaited, AppWaited, Terminate
<1>2. PICK s \in Places :
          /\ Goes(c, s)
          /\ \/ pc[c] = "reading" /\ sigint /\ s = "cancel"
             \/ pc[c] = "cancel_wait" /\ dummy[c] = "ended" /\ s = "bailed"
             \/ pc[c] = "release_wait" /\ dummy[c] = "ended" /\ s = After(c, "release")
             \/ pc[c] = "wait_app" /\ app[c] = "ended" /\ s = After(c, "wait_app")
             \/ pc[c] = "terminate" /\ s = "done"
  <2>1. CASE ReadsText(c)
    BY <2>1 DEF ReadsText, Places
  <2>2. CASE DummyWaited(c)
    BY <2>2, StagesTyped DEF DummyWaited, Places
  <2>3. CASE AppWaited(c)
    BY <2>3, StagesTyped DEF AppWaited
  <2>4. CASE Terminate(c)
    BY <2>4 DEF Terminate, Places
  <2>5. QED
    BY <2>1, <2>2, <2>3, <2>4
<1>3. avdecc' \in [Context -> Avdeccs]
  BY DEF IInv, TypeOK, Avdeccs, ReadsText, DummyWaited, AppWaited, Terminate, threadVars
<1>4. /\ setup' = setup /\ sigint' = sigint /\ app' = app /\ deaf' = deaf
      /\ dummy' = dummy /\ sent' = sent /\ stdout' = stdout /\ pipe' = pipe
      /\ declared' = declared /\ made' = made
  BY <1>1 DEF dummyVars
<1>5. DummyPlace(c) /\ AppPlace(c)
  BY DEF IInv
<1>6. ASSUME pc'[c] = s
      PROVE  DummyPlace(c)' /\ AppPlace(c)'
  <2>1. DummyPlace(c)'
    BY <1>2, <1>4, <1>5, <1>6, StagesFollow DEF DummyPlace, NoDummyYet, NoAppYet
  <2>2. AppPlace(c)'
    BY <1>2, <1>4, <1>5, <1>6, StagesFollow DEF AppPlace, DummyPlace, Mode, NoAppYet
  <2>3. QED
    BY <2>1, <2>2
<1>7. ~ Finished(c)
  BY <1>2 DEF Finished
<1>8. QED
  BY <1>1, <1>2, <1>3, <1>6, <1>7, GoesOn

\* The variables of the processes are of their types.
LEMMA ContextTypes ==
    ASSUME IInv
    PROVE  /\ pc \in [Context -> Places] /\ app \in [Context -> Applications]
           /\ deaf \in [Context -> BOOLEAN] /\ avdecc \in [Context -> Avdeccs] /\ DummyTypeOK
           /\ \A c \in Context : DummyPlace(c) /\ AppPlace(c)
BY StagesArePlaces DEF IInv, TypeOK, Applications, Avdeccs

\* The application is forked, or is not.
LEMMA StartAppIInv ==
    ASSUME IInv, NEW c \in Context, StartApp(c)
    PROVE  IInv'
<1> DEFINE Forked == /\ app' = [app EXCEPT ![c] = "forked"]
                     /\ deaf' = [deaf EXCEPT ![c] = sigint]
<1>1. /\ UNCHANGED <<setup, sigint, mainVars, avdecc, dummyVars>>
      /\ pc[c] \in {"listener_app", "talker_app"}
  BY DEF StartApp
<1>2. DummyPlace(c) /\ AppPlace(c)
  BY ContextTypes
<1>3. PICK s \in Places :
          /\ Goes(c, s)
          /\ \/ /\ pc[c] = "listener_app" /\ Mode(c) = "listener"
                /\ \/ s = After(c, "listener_app") /\ Forked
                   \/ s = "bailed" /\ UNCHANGED <<app, deaf>>
             \/ /\ pc[c] = "talker_app" /\ Mode(c) = "talker"
                /\ \/ s = After(c, "talker_app") /\ Forked
                   \/ s = After(c, "wait_app") /\ UNCHANGED <<app, deaf>>
  <2>1. CASE pc[c] = "listener_app"
    <3>1. Mode(c) = "listener"
      BY <1>2, <2>1 DEF AppPlace
    <3>2. QED
      BY <2>1, <3>1, StagesTyped DEF StartApp, Places
  <2>2. CASE pc[c] = "talker_app"
    <3>1. Mode(c) = "talker"
      BY <1>2, <2>2 DEF AppPlace
    <3>2. QED
      BY <2>2, <3>1, StagesTyped DEF StartApp, Places
  <2>3. QED
    BY <1>1, <2>1, <2>2
<1>4. /\ pc' \in [Context -> Places] /\ pc'[c] = s
      /\ \A d \in Context \ {c} : pc'[d] = pc[d]
  BY <1>3, ContextTypes DEF Goes
<1>5. /\ app' \in [Context -> Applications] /\ app'[c] \in {app[c], "forked"}
      /\ app'[c] = app[c] \/ s \in {After(c, "listener_app"), After(c, "talker_app")}
      /\ \A d \in Context \ {c} : app'[d] = app[d] /\ deaf'[d] = deaf[d]
  BY <1>3, ContextTypes DEF Applications
<1>6. /\ deaf' \in [Context -> BOOLEAN]
      /\ app'[c] = app[c] \/ deaf'[c] = sigint
  BY <1>3, ContextTypes DEF IInv, TypeOK
<1>7. /\ setup' = setup /\ sigint' = sigint /\ dummy' = dummy /\ sent' = sent
      /\ stdout' = stdout /\ pipe' = pipe /\ declared' = declared /\ made' = made
      /\ DummyTypeOK' /\ avdecc' \in [Context -> Avdeccs]
  BY <1>1, ContextTypes DEF dummyVars, DummyTypeOK
<1>8. DummyPlace(c)'
  BY <1>2, <1>3, <1>4, <1>7, StagesFollow DEF DummyPlace, NoDummyYet, NoAppYet
<1>9. AppPlace(c)'
  <2>1. app[c] = "none"
    BY <1>2, <1>3 DEF AppPlace, NoAppYet
  <2>2. CASE app'[c] = "none"
    BY <1>3, <1>4, <1>7, <2>2, StagesFollow DEF AppPlace, Mode
  <2>3. CASE pc[c] = "listener_app" /\ s = After(c, "listener_app") /\ Mode(c) = "listener"
    BY <1>4, <1>6, <1>7, <2>1, <2>3, StagesFollow DEF AppPlace, Mode, NoAppYet
  <2>4. CASE pc[c] = "talker_app" /\ s = After(c, "talker_app")
    BY <1>2, <1>4, <1>6, <1>7, <2>1, <2>4, StagesFollow DEF AppPlace, DummyPlace, Mode, NoAppYet
  <2>5. QED
    BY <1>3, <2>1, <2>2, <2>3, <2>4
<1>10. ~ Finished(c)
  BY <1>1 DEF Finished
<1>11. \A d \in Context \ {c} :
          /\ pc'[d] = pc[d] /\ app'[d] = app[d] /\ deaf'[d] = deaf[d]
          /\ dummy'[d] = dummy[d] /\ sent'[d] = sent[d] /\ stdout'[d] = stdout[d]
          /\ pipe'[d] = pipe[d] /\ declared'[d] = declared[d] /\ made'[d] = made[d]
  BY <1>4, <1>5, <1>7
<1>12. /\ app' \in [Context -> Applications] /\ deaf' \in [Context -> BOOLEAN]
       /\ avdecc' \in [Context -> Avdeccs] /\ DummyTypeOK'
  BY <1>5, <1>6, <1>7
<1>13. UNCHANGED <<setup, sigint, mainVars>> /\ pc' \in [Context -> Places]
  BY <1>1, <1>4
<1>14. QED
  BY <1>8, <1>9, <1>10, <1>11, <1>12, <1>13, OneContext

\* mrpdummy is forked, or is not.
LEMMA ReserveIInv ==
    ASSUME IInv, NEW c \in Context, Reserve(c)
    PROVE  IInv'
<1>1. /\ UNCHANGED <<setup, sigint, mainVars, app, deaf, avdecc, sent, stdout, pipe, declared,
                     made>>
      /\ pc[c] = "reserve" /\ ~ Finished(c)
  BY DEF Reserve, Finished
<1>2. PICK s \in Places :
          /\ Goes(c, s)
          /\ \/ /\ s = (IF sigint THEN "cancel" ELSE "reading")
                /\ dummy' = [dummy EXCEPT ![c] = "forked"]
             \/ s = "bailed" /\ dummy' = dummy
  BY DEF Reserve, Places
<1>3. DummyPlace(c) /\ AppPlace(c)
  BY ContextTypes
<1>4. /\ pc' \in [Context -> Places] /\ pc'[c] = s
      /\ \A d \in Context \ {c} : pc'[d] = pc[d]
  BY <1>2, ContextTypes DEF Goes
<1>5. /\ DummyTypeOK' /\ dummy'[c] = (IF s = "bailed" THEN dummy[c] ELSE "forked")
      /\ \A d \in Context \ {c} : dummy'[d] = dummy[d]
  BY <1>1, <1>2, ContextTypes DEF DummyTypeOK
<1>6. setup[c].use_srp /\ dummy[c] = "none" /\ ~ declared[c]
  BY <1>1, <1>3 DEF DummyPlace, NoDummyYet
<1>7. DummyPlace(c)'
  BY <1>1, <1>2, <1>3, <1>4, <1>5, <1>6 DEF DummyPlace, NoDummyYet, NoAppYet
<1>8. AppPlace(c)'
  BY <1>1, <1>2, <1>3, <1>4, <1>5, <1>6 DEF AppPlace, Mode, NoAppYet
<1>9. QED
  BY <1>1, <1>4, <1>5, <1>7, <1>8, ContextTypes, OneContext

\* The line of mrpdummy is read.
LEMMA ReadsLineIInv ==
    ASSUME IInv, NEW c \in Context, ReadsLine(c)
    PROVE  IInv'
<1>1. /\ UNCHANGED <<setup, sigint, mainVars, app, deaf, avdecc, dummy, sent, stdout, declared,
                     made>>
      /\ pc[c] = "reading" /\ pipe[c] /\ pipe' = [pipe EXCEPT ![c] = FALSE] /\ ~ Finished(c)
  BY DEF ReadsLine, Finished
<1>2. PICK s \in Places :
          /\ Goes(c, s)
          /\ s \in {After(c, "reserve"), IF sigint THEN "cancel" ELSE "reading"}
  BY StagesTyped DEF ReadsLine, Places
<1>3. DummyPlace(c) /\ AppPlace(c)
  BY ContextTypes
<1>4. /\ pc' \in [Context -> Places] /\ pc'[c] = s
      /\ \A d \in Context \ {c} : pc'[d] = pc[d]
  BY <1>2, ContextTypes DEF Goes
<1>5. /\ DummyTypeOK' /\ pipe'[c] = FALSE
      /\ \A d \in Context \ {c} : pipe'[d] = pipe[d]
  BY <1>1, ContextTypes DEF DummyTypeOK
<1>6. made[c] /\ setup[c].use_srp
  BY <1>1, <1>3 DEF DummyPlace
<1>7. s \in {"talker_app", "wait_app", "cancel", "reading"} /\ (s = "cancel" => sigint)
  BY <1>2, StagesFollow
<1>8. DummyPlace(c)'
  BY <1>1, <1>3, <1>4, <1>5, <1>6, <1>7 DEF DummyPlace, NoDummyYet, NoAppYet
<1>9. AppPlace(c)'
  BY <1>1, <1>2, <1>3, <1>4, <1>7, StagesFollow DEF AppPlace, Mode, NoAppYet
<1>10. QED
  BY <1>1, <1>4, <1>5, <1>8, <1>9, ContextTypes, OneContext

\* What SIGINT for some of the mrpdummy processes does to them.
LEMMA Signalled ==
    ASSUME DummyTypeOK, NEW C \in SUBSET Context, Signal(C)
    PROVE  /\ DummyTypeOK'
           /\ \A c \in Context :
                /\ stdout'[c] = stdout[c] /\ pipe'[c] = pipe[c]
                /\ declared'[c] = declared[c] /\ made'[c] = made[c]
                /\ dummy'[c] = dummy[c] \/ (dummy[c] = "starting" /\ dummy'[c] = "ended")
                /\ c \in C => dummy'[c] \in {"none", "ended"} \/ sent'[c] # "no"
                /\ c \notin C => dummy'[c] = dummy[c] /\ sent'[c] = sent[c]
                /\ sent[c] # "no" => sent'[c] # "no"
<1>1. UNCHANGED <<stdout, pipe, declared, made>>
  BY DEF Signal
<1>2. PICK killed \in SUBSET {c \in C : dummy[c] = "starting"} :
          dummy' = [c \in Context |-> IF c \in killed THEN "ended" ELSE dummy[c]]
  BY DEF Signal
<1>3. sent' = [c \in Context |->
                  CASE c \notin C \/ dummy[c] \in {"none", "ended"} -> sent[c]
                    [] c \in C /\ dummy[c] = "forked" -> "lost"
                    [] OTHER -> "yes"]
  BY DEF Signal
<1>4. \A c \in Context :
        /\ sent'[c] \in {sent[c], "lost", "yes"}
        /\ sent'[c] = sent[c] \/ sent'[c] # "no"
        /\ c \notin C => sent'[c] = sent[c]
        /\ c \in C => dummy[c] \in {"none", "ended"} \/ sent'[c] # "no"
  BY <1>3
<1>5. \A c \in Context :
        /\ dummy'[c] = dummy[c] \/ (dummy[c] = "starting" /\ dummy'[c] = "ended")
        /\ c \notin C => dummy'[c] = dummy[c]
  BY <1>2
<1>6. DummyTypeOK'
  <2>1. sent' \in [Context -> {"no", "lost", "yes"}]
    <3>1. sent' = [c \in Context |-> sent'[c]]
      BY <1>3
    <3>2. QED
      BY <1>4, <3>1 DEF DummyTypeOK
  <2>2. dummy' \in [Context -> {"none", "forked", "starting", "waiting", "reserved", "ended"}]
    BY <1>2 DEF DummyTypeOK
  <2>3. QED
    BY <1>1, <2>1, <2>2 DEF DummyTypeOK
<1>7. QED
  BY <1>1, <1>4, <1>5, <1>6

\* mrpdummy is told to end.
LEMMA KillDummyIInv ==
    ASSUME IInv, NEW c \in Context, KillDummy(c)
    PROVE  IInv'
<1>1. /\ UNCHANGED <<setup, sigint, mainVars, app, deaf, avdecc>> /\ Signal({c})
      /\ pc[c] \in {"cancel", "release"} /\ ~ Finished(c)
  BY DEF KillDummy, Finished
<1>2. PICK s \in Places :
          Goes(c, s) /\ s = (IF pc[c] = "cancel" THEN "cancel_wait" ELSE "release_wait")
  BY DEF KillDummy, Places
<1>3. DummyPlace(c) /\ AppPlace(c)
  BY ContextTypes
<1>4. /\ pc' \in [Context -> Places] /\ pc'[c] = s
      /\ \A d \in Context \ {c} : pc'[d] = pc[d]
  BY <1>2, ContextTypes DEF Goes
<1>5. /\ DummyTypeOK'
      /\ stdout'[c] = stdout[c] /\ pipe'[c] = pipe[c]
      /\ declared'[c] = declared[c] /\ made'[c] = made[c]
      /\ dummy'[c] = dummy[c] \/ (dummy[c] = "starting" /\ dummy'[c] = "ended")
      /\ \A d \in Context \ {c} :
            /\ dummy'[d] = dummy[d] /\ sent'[d] = sent[d] /\ stdout'[d] = stdout[d]
            /\ pipe'[d] = pipe[d] /\ declared'[d] = declared[d] /\ made'[d] = made[d]
  BY <1>1, ContextTypes, Signalled
<1>6. DummyPlace(c)'
  BY <1>1, <1>2, <1>3, <1>4, <1>5 DEF DummyPlace, NoDummyYet, NoAppYet
<1>7. AppPlace(c)'
  BY <1>1, <1>2, <1>3, <1>4, <1>5 DEF AppPlace, DummyPlace, Mode, NoAppYet
<1>8. QED
  BY <1>1, <1>4, <1>5, <1>6, <1>7, ContextTypes, OneContext

-----------------------------------------------------------------------------
(* What happens around the threads.                                        *)

\* The monitor thread of AVDECC, and the application, run by themselves.
LEMMA BesideIInv ==
    ASSUME IInv, NEW c \in Context, MonitorStops(c) \/ MonitorLoops(c) \/ AppExecs(c) \/ AppEnds(c)
    PROVE  IInv'
<1>1. UNCHANGED <<setup, sigint, mainVars, pc, deaf, dummyVars>>
  BY DEF MonitorStops, MonitorLoops, AppExecs, AppEnds
<1>2. /\ avdecc' \in [Context -> Avdeccs]
      /\ app' \in [Context -> Applications]
      /\ \A d \in Context \ {c} : app'[d] = app[d]
      /\ app'[c] = app[c] \/ app[c] # "none"
      /\ app'[c] \in {app[c], "running", "ended"}
      /\ app[c] = "ended" => app'[c] = "ended"
      /\ app'[c] = "running" => app[c] \in {"forked", "running"}
  BY ContextTypes DEF MonitorStops, MonitorLoops, AppExecs, AppEnds, Avdeccs, Applications
<1>3. /\ pc' \in [Context -> Places] /\ deaf' \in [Context -> BOOLEAN] /\ DummyTypeOK'
      /\ \A d \in Context :
            /\ pc'[d] = pc[d] /\ deaf'[d] = deaf[d] /\ dummy'[d] = dummy[d]
            /\ sent'[d] = sent[d] /\ stdout'[d] = stdout[d] /\ pipe'[d] = pipe[d]
            /\ declared'[d] = declared[d] /\ made'[d] = made[d]
  BY <1>1, ContextTypes DEF dummyVars, DummyTypeOK
<1>4. DummyPlace(c) /\ AppPlace(c)
  BY ContextTypes
<1>5. DummyPlace(c)'
  BY <1>1, <1>3, <1>4 DEF DummyPlace
<1>6. AppPlace(c)'
  BY <1>1, <1>2, <1>3, <1>4 DEF AppPlace, Mode
<1>7. QED
  BY <1>1, <1>2, <1>3, <1>5, <1>6, OneContext

\* A step of the mrpdummy of c, seen from its own state: it runs, it says that the stream
\* is reserved only when it is, and once reserved it stays so to its end.
LEMMA DummyStepped ==
    ASSUME DummyTypeOK, NEW c \in Context, DummyPlace(c),
           DummyRuns(c, Mode(c)) \/ DummyHears(c, Mode(c))
    PROVE  /\ DummyTypeOK' /\ sent' = sent
           /\ \A d \in Context \ {c} :
                /\ dummy'[d] = dummy[d] /\ stdout'[d] = stdout[d] /\ pipe'[d] = pipe[d]
                /\ declared'[d] = declared[d] /\ made'[d] = made[d]
           /\ dummy[c] # "none" /\ dummy'[c] # "none"
           /\ stdout'[c] \/ pipe'[c] => made'[c]
           /\ made[c] => made'[c]
           /\ declared'[c] => \/ dummy'[c] = "reserved"
                              \/ dummy'[c] = "waiting" /\ setup[c].mode = "talker"
           /\ dummy[c] = "ended" => dummy'[c] = "ended"
<1>1. CASE DummyExecs(c) \/ DummyFails(c)
  BY <1>1 DEF DummyExecs, DummyFails, DummyGoes, DummyPlace, DummyTypeOK
<1>2. CASE DummyInitialises(c, Mode(c))
  BY <1>2 DEF Mode, DummyInitialises, DummyGoes, DummyPlace, DummyTypeOK
<1>3. CASE DummyReserves(c, Mode(c))
  <2>1. /\ sent' = sent /\ pipe' = pipe /\ dummy[c] = "waiting"
        /\ \/ /\ dummy' = [dummy EXCEPT ![c] = "reserved"]
              /\ declared' = [declared EXCEPT ![c] = TRUE]
              /\ stdout' = [stdout EXCEPT ![c] = TRUE]
              /\ made' = [made EXCEPT ![c] = TRUE]
           \/ /\ setup[c].mode = "listener" /\ dummy' = [dummy EXCEPT ![c] = "ended"]
              /\ declared' = declared /\ stdout' = stdout /\ made' = made
    BY <1>3 DEF Mode, DummyReserves, DummyGoes
  <2>2. (stdout[c] \/ pipe[c] => made[c]) /\ (declared[c] => setup[c].mode = "talker")
    BY <2>1 DEF DummyPlace
  <2>3. DummyTypeOK'
    BY <2>1 DEF DummyTypeOK
  <2>4. CASE dummy' = [dummy EXCEPT ![c] = "reserved"]
    BY <2>1, <2>2, <2>3, <2>4, SMT DEF DummyTypeOK
  <2>5. CASE made' = made
    BY <2>1, <2>2, <2>3, <2>5 DEF DummyTypeOK
  <2>6. QED
    BY <2>1, <2>4, <2>5
<1>4. CASE DummyStops(c) \/ ListenerLeaves(c, Mode(c))
  <2>1. dummy[c] \in {"waiting", "reserved"} /\ Withdraw(c)
    BY <1>4 DEF DummyStops, ListenerLeaves
  <2>2. QED
    BY <2>1 DEF Withdraw, Flush, DummyPlace, DummyTypeOK
<1>5. CASE DummyNotified(c)
  BY <1>5 DEF DummyNotified, Flush, DummyPlace, DummyTypeOK
<1>6. QED
  BY <1>1, <1>2, <1>3, <1>4, <1>5 DEF DummyRuns, DummyHears

LEMMA DummyIInv ==
    ASSUME IInv, NEW c \in Context, DummySteps(c) \/ DummyTold(c)
    PROVE  IInv'
<1>1. /\ UNCHANGED <<setup, sigint, mainVars, pc, app, deaf, avdecc>>
      /\ DummyRuns(c, Mode(c)) \/ DummyHears(c, Mode(c))
  BY DEF DummySteps, DummyTold, threadVars
<1>2. DummyPlace(c) /\ AppPlace(c)
  BY ContextTypes
<1>3. /\ DummyTypeOK' /\ sent' = sent
      /\ \A d \in Context \ {c} :
            /\ dummy'[d] = dummy[d] /\ stdout'[d] = stdout[d] /\ pipe'[d] = pipe[d]
            /\ declared'[d] = declared[d] /\ made'[d] = made[d]
      /\ dummy[c] # "none" /\ dummy'[c] # "none"
      /\ stdout'[c] \/ pipe'[c] => made'[c]
      /\ made[c] => made'[c]
      /\ declared'[c] => \/ dummy'[c] = "reserved"
                         \/ dummy'[c] = "waiting" /\ setup[c].mode = "talker"
      /\ dummy[c] = "ended" => dummy'[c] = "ended"
  BY <1>1, <1>2, ContextTypes, DummyStepped
<1>4. DummyPlace(c)'
  BY <1>1, <1>2, <1>3 DEF DummyPlace
<1>5. AppPlace(c)'
  BY <1>1, <1>2, <1>3 DEF AppPlace, Mode
<1>6. QED
  BY <1>1, <1>3, <1>4, <1>5, ContextTypes, OneContext

\* SIGINT: from then on every mrpdummy that runs has been sent the signal, and each
\* thread is where it was or past the wait it was in.
LEMMA InterruptIInv ==
    ASSUME IInv, NEW t \in Context \cup {0}, Interrupt(t)
    PROVE  IInv'
<1>1. /\ UNCHANGED <<setup, mainVars, avdecc>> /\ sigint' = TRUE /\ Signal(Context)
      /\ app' = [c \in Context |-> IF app[c] = "running" THEN "told" ELSE app[c]]
      /\ deaf' = [c \in Context |-> deaf[c] \/ app[c] = "forked"]
  BY DEF Interrupt
<1>2. \A c \in Context : After(c, "wait_app") \in Places /\ After(c, "release") \in Places
  BY StagesTyped
<1>3. Interrupted(t) \in Places \cup {pc[t]}
  <2>1. Interrupted(t) \in {"cancel", "bailed", pc[t], After(t, "wait_app"), After(t, "release")}
    BY DEF Interrupted
  <2>2. After(t, "wait_app") \in Places /\ After(t, "release") \in Places
    BY StagesTyped
  <2>3. QED
    BY <2>1, <2>2 DEF Places
<1>4. /\ pc' \in [Context -> Places]
      /\ \A c \in Context : pc'[c] = pc[c] \/ (~ Finished(c) /\ pc'[c] = Interrupted(c))
  <2>1. CASE t = 0
    BY <2>1, ContextTypes DEF Interrupt
  <2>2. CASE t # 0
    <3>1. t \in Context /\ ~ Finished(t) /\ pc' = [pc EXCEPT ![t] = Interrupted(t)]
      BY <2>2 DEF Interrupt, Goes, Finished
    <3>2. Interrupted(t) \in Places
      BY <1>3, <3>1, ContextTypes
    <3>3. QED
      BY <3>1, <3>2, ContextTypes
  <2>3. QED
    BY <2>1, <2>2
<1>5. /\ app' \in [Context -> Applications] /\ deaf' \in [Context -> BOOLEAN]
      /\ \A c \in Context : /\ app[c] = "none" <=> app'[c] = "none"
                           /\ app'[c] \in {"forked", "running"} => deaf'[c]
  BY <1>1, ContextTypes DEF Applications
<1>6. /\ DummyTypeOK'
      /\ \A c \in Context :
            /\ stdout'[c] = stdout[c] /\ pipe'[c] = pipe[c]
            /\ declared'[c] = declared[c] /\ made'[c] = made[c]
            /\ dummy'[c] = dummy[c] \/ (dummy[c] = "starting" /\ dummy'[c] = "ended")
            /\ dummy'[c] \in {"none", "ended"} \/ sent'[c] # "no"
  BY <1>1, ContextTypes, Signalled
<1>7. TypeOK' /\ MaapInv' /\ OrdersInv'
  BY <1>1, <1>4, <1>5, <1>6, ContextTypes, ThreadTypes
<1>8. ThreadsInv'
  <2>1. main' = main
    BY <1>1 DEF mainVars
  <2>2. QED
    BY <1>4, <2>1 DEF IInv, ThreadsInv, Finished
<1>9. ASSUME NEW c \in Context
      PROVE  DummyPlace(c)' /\ AppPlace(c)'
  <2>1. DummyPlace(c) /\ AppPlace(c)
    BY ContextTypes
  <2>2. \/ pc'[c] = pc[c]
        \/ pc[c] = "reading" /\ pc'[c] = "cancel"
        \/ pc[c] = "wait_app" /\ pc'[c] = After(c, "wait_app")
        \/ pc[c] = "cancel_wait" /\ pc'[c] = "bailed"
        \/ pc[c] = "release_wait" /\ pc'[c] = After(c, "release")
    BY <1>4 DEF Interrupted
  <2>3. DummyPlace(c)'
    <3>1. CASE pc'[c] = pc[c]
      BY <1>1, <1>6, <2>1, <3>1 DEF DummyPlace, NoDummyYet, NoAppYet
    <3>2. CASE pc[c] = "wait_app" /\ pc'[c] = After(c, "wait_app")
      BY <1>1, <1>6, <2>1, <3>2, StagesFollow DEF DummyPlace, NoDummyYet, NoAppYet
    <3>3. CASE pc[c] \in {"reading", "cancel_wait"} /\ pc'[c] \in {"cancel", "bailed"}
      BY <1>1, <1>6, <2>1, <3>3 DEF DummyPlace, NoDummyYet, NoAppYet
    <3>4. CASE pc[c] = "release_wait" /\ pc'[c] = After(c, "release")
      BY <1>1, <1>6, <2>1, <3>4, StagesFollow DEF DummyPlace, NoDummyYet, NoAppYet
    <3>5. QED
      BY <2>2, <3>1, <3>2, <3>3, <3>4
  <2>4. AppPlace(c)'
    <3>1. CASE pc'[c] = pc[c]
      BY <1>1, <1>5, <1>6, <2>1, <3>1 DEF AppPlace, Mode, NoAppYet
    <3>2. CASE pc[c] = "reading" /\ pc'[c] = "cancel"
      BY <1>1, <1>5, <1>6, <2>1, <3>2 DEF AppPlace, Mode, NoAppYet
    <3>3. CASE pc'[c] \in {"release", "terminate", "done", "bailed"}
      BY <1>1, <1>5, <1>6, <2>1, <3>3 DEF AppPlace, Mode, NoAppYet
    <3>4. QED
      BY <2>2, <3>1, <3>2, <3>3, StagesFollow
  <2>5. QED
    BY <2>3, <2>4
<1>10. QED
  BY <1>7, <1>8, <1>9 DEF IInv

-----------------------------------------------------------------------------
(* The invariant.                                                          *)

LEMMA InitIInv == Init => IInv
<1> SUFFICES ASSUME Init PROVE IInv
  OBVIOUS
<1>1. RetryNum \in Nat \ {0}
  BY LauncherAssumption DEF LauncherAssumption
<1>2. Range(c_info) = {} /\ Range(orders) = {} /\ c_info \in Seq({}) /\ orders \in Seq({})
  <2>1. c_info = <<>> /\ orders = <<>>
    BY DEF Init
  <2>2. DOMAIN <<>> = {}
    OBVIOUS
  <2>3. QED
    BY <2>1, <2>2 DEF Range
<1>3. TypeOK
  <2>1. DummyTypeOK
    BY DEF Init, DummyInit, DummyTypeOK
  <2>2. pc \in [Context -> Places]
    BY DEF Init, Places
  <2>3. QED
    <3>1. tries \in 0..RetryNum /\ maap_id \in MaapIds \cup {0}
      BY <1>1 DEF Init
    <3>2. /\ err \in [Context -> BOOLEAN]
          /\ app \in [Context -> {"none", "forked", "running", "told", "ended"}]
          /\ deaf \in [Context -> BOOLEAN]
          /\ avdecc \in [Context -> {"none", "monitoring", "stopped", "locked", "terminated"}]
      BY DEF Init
    <3>3. joined = {} /\ refused = {} /\ sigint = FALSE /\ setup \in Setups
          /\ main = "starting" /\ maap_socket = FALSE /\ maap = "none"
      BY DEF Init
    <3>4. QED
      BY <1>2, <2>1, <2>2, <3>1, <3>2, <3>3, StagesArePlaces DEF TypeOK
<1>4. MaapInv /\ OrdersInv /\ ThreadsInv
  BY <1>1, <1>2 DEF Init, MaapInv, OrdersInv, ThreadsInv
<1>5. \A c \in Context : DummyPlace(c) /\ AppPlace(c)
  BY DEF Init, DummyInit, DummyPlace, AppPlace
<1>6. QED
  BY <1>3, <1>4, <1>5 DEF IInv

LEMMA NextIInv == IInv /\ [Next]_vars => IInv'
<1> SUFFICES ASSUME IInv, [Next]_vars PROVE IInv'
  OBVIOUS
<1>1. CASE MainRuns
  BY <1>1, StartIInv, ConnectIInv, JoinIInv, SpawnIInv, JoinThreadsIInv, EndIInv, LeaveIInv
     DEF MainRuns
<1>2. ASSUME NEW c \in Context, ThreadRuns(c) PROVE IInv'
  BY <1>2, EarlyIInv, WaitedIInv, StartAppIInv, ReserveIInv, ReadsLineIInv, KillDummyIInv
     DEF ThreadRuns
<1>3. ASSUME NEW c \in Context, DummySteps(c) PROVE IInv'
  BY <1>3, DummyIInv
<1>4. ASSUME NEW c \in Context, Happens(c) PROVE IInv'
  BY <1>4, EarlyIInv, WaitedIInv, BesideIInv, DummyIInv, InterruptIInv DEF Happens
<1>5. CASE Interrupt(0)
  BY <1>5, InterruptIInv
<1>6. CASE UNCHANGED vars
  <2>1. Beside /\ UNCHANGED mainVars
    BY <1>6 DEF vars, Beside
  <2>2. sigint' \in BOOLEAN /\ ThreadsInv'
    BY <2>1 DEF IInv, TypeOK, ThreadsInv, Finished, Beside, mainVars, threadVars
  <2>3. /\ pc' \in [Context -> Places] /\ app' \in [Context -> Applications]
        /\ deaf' \in [Context -> BOOLEAN] /\ avdecc' \in [Context -> Avdeccs] /\ DummyTypeOK'
    BY <2>1, ContextTypes DEF Beside, threadVars, dummyVars, DummyTypeOK
  <2>4. TypeOK' /\ MaapInv' /\ OrdersInv'
    BY <2>1, <2>2, <2>3, ThreadTypes DEF Beside
  <2>5. QED
    BY <2>1, <2>2, <2>4, MainAlone DEF IInv
<1>7. CASE Ended
  BY <1>6, <1>7 DEF Ended
<1>8. QED
  BY <1>1, <1>2, <1>3, <1>4, <1>5, <1>6, <1>7 DEF Next

LEMMA Invariance == Spec => []IInv
BY InitIInv, NextIInv, PTL DEF Spec

\* The launcher, its threads, their mrpdummy processes and applications are where
\* avblauncher can have them, and main only runs orders it has listed.
THEOREM TypeCorrect == Spec => []TypeOK
<1>1. IInv => TypeOK
  BY DEF IInv
<1>2. QED
  BY Invariance, <1>1, PTL

\* A talker's application is started, and a listener's waited for, only after mrpdummy
\* has made the reservation, whatever interrupts start_stream_reservation or ends
\* mrpdummy, and whichever stages the context has.
THEOREM ReservedFirst == Spec => []ReservedBeforeStreaming
<1>1. IInv => ReservedBeforeStreaming
  BY DEF IInv, DummyPlace, AppPlace, ReservedBeforeStreaming
<1>2. QED
  BY Invariance, <1>1, PTL

\* When disconnect_avb_network runs, every mrpdummy has ended or was sent SIGINT, and
\* every application has ended or was told to, but for those StreamsBeforeDomains names:
\* one that was forked and not yet executed when SIGINT came, or forked after it, and a
\* listener's whose mrpdummy could not be started.
THEOREM StreamsEndFirst == Spec => []StreamsBeforeDomains
<1>1. IInv => StreamsBeforeDomains
  <2> SUFFICES ASSUME IInv, main \in {"releasing", "leaving", "returned"}, NEW c \in Context
               PROVE  /\ dummy[c] \notin {"none", "ended"} => sigint /\ sent[c] # "no"
                      /\ declared[c] => sigint /\ sent[c] # "no"
                      /\ app[c] \in {"forked", "running"} =>
                            \/ deaf[c]
                            \/ /\ Mode(c) = "listener" /\ setup[c].use_srp
                               /\ pc[c] = "bailed" /\ dummy[c] = "none"
    BY DEF StreamsBeforeDomains
  <2>1. pc[c] \in {"none", "bailed", "done"}
    BY DEF IInv, ThreadsInv, Finished
  <2>2. DummyPlace(c) /\ AppPlace(c)
    BY DEF IInv
  <2>3. dummy[c] \in {"none", "ended"} \/ (sigint /\ sent[c] # "no")
    BY <2>1, <2>2 DEF DummyPlace, NoDummyYet, NoAppYet
  <2>4. declared[c] => dummy[c] \notin {"none", "ended"}
    BY <2>2 DEF DummyPlace
  <2>5. app[c] \in {"forked", "running"} =>
            \/ deaf[c]
            \/ /\ Mode(c) = "listener" /\ setup[c].use_srp
               /\ pc[c] = "bailed" /\ dummy[c] = "none"
    BY <2>1, <2>2 DEF AppPlace, NoAppYet
  <2>6. QED
    BY <2>3, <2>4, <2>5
<1>2. QED
  BY Invariance, <1>1, PTL

\* What the launcher joined it leaves, or the leaving has failed; what it reserved from
\* maap_daemon it releases, or the release has failed, unless the id is 0.
THEOREM EverythingTakenBack == Spec => []TakenBack
<1>1. IInv => TakenBack
  <2> SUFFICES ASSUME IInv PROVE TakenBack
    OBVIOUS
  <2>1. main = "returned" => joined \subseteq refused
    <3>1. Range(<<>>) = {}
      BY DEF Range
    <3>2. QED
      BY <3>1 DEF IInv, OrdersInv
  <2>2. QED
    BY <2>1 DEF IInv, MaapInv, TakenBack
<1>2. QED
  BY Invariance, <1>1, PTL

=============================================================================
