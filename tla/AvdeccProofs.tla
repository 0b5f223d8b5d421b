---------------------------- MODULE AvdeccProofs ----------------------------
(***************************************************************************)
(* What holds of Avdecc for every set of grandmaster ids and of calls.     *)
(***************************************************************************)
EXTENDS Avdecc, TLAPS

\* Where the monitor thread holds data_lock, and where it waits for it or for a
\* frame.
Inside == {"receive", "halt_flag", "check", "copy", "available", "return", "looping",
           "ended"}
Outside == {"select", "lock"}

LockInv ==
    /\ monitor \in Inside => data_lock = "monitor"
    /\ monitor \in Outside => data_lock # "monitor"
    /\ app = "info" => data_lock = "app"

\* What the application's call has still to write, and from which argument.
CallInv ==
    /\ app = "grandmaster" => value \in Grandmasters /\ todo \subseteq Part
    /\ app = "info_lock" => value \in Version /\ todo = Field
    /\ app = "info" => value \in Version /\ todo \subseteq Field

Whole == \A f, g \in Field : stream_info[f] = stream_info[g]

\* The fields of a stream differ only while avdecc_set_talker_stream_info writes
\* them, and those it has written are its argument.
InfoInv ==
    /\ app # "info" => Whole
    /\ app = "info" /\ todo = Field => Whole
    /\ app = "info" => \A f \in Field \ todo : stream_info[f] = value

\* A pass that has taken leave ends the thread.
HaltInv ==
    /\ do_terminate => halt_flag
    /\ departed => halt_flag /\ monitor = "ended"

IInv == TypeOK /\ LockInv /\ CallInv /\ InfoInv /\ HaltInv /\ FreedUnused

-----------------------------------------------------------------------------

LEMMA InitIInv == Init => IInv
<1> SUFFICES ASSUME Init PROVE IInv
    OBVIOUS
<1> USE DEF Init, AdpInit
<1>1. TypeOK
    BY AdpAssumption DEF TypeOK, AdpTypeOK, GrandmasterIds, MonitorAt, AppAt, Frame
<1>2. LockInv /\ CallInv /\ HaltInv /\ FreedUnused
    BY DEF LockInv, CallInv, HaltInv, FreedUnused, Inside, Outside
<1>3. InfoInv
    BY DEF InfoInv, Whole
<1> QED BY <1>1, <1>2, <1>3 DEF IInv

\* The steps of the monitor thread.
LEMMA MonitorIInv == IInv /\ Monitor => IInv'
<1> SUFFICES ASSUME IInv, Monitor PROVE IInv'
    OBVIOUS
<1> USE DEF IInv, MonitorGoes, MonitorKeeps, adpVars
<1>1. (app' = app /\ todo' = todo /\ value' = value /\ stream_info' = stream_info
        /\ halt_flag' = halt_flag /\ acmp_started' = acmp_started
        /\ gptp_grandmaster_id' = gptp_grandmaster_id)
    BY DEF Monitor, Select, SelectFails, Lock, Receive, ReadHaltFlag, Check, CheckFails,
        CopyGrandmaster, SendAvailable, Return,
        AdpDiscovered, AdpChangeDeparting, AdpCheck, AdpCopyGrandmaster, AdpAvailable,
        AdpDeparting
<1>2. CallInv' /\ InfoInv'
    BY <1>1 DEF CallInv, InfoInv, Whole
<1>3. ASSUME NEW f \in Frame, Select(f) PROVE TypeOK' /\ LockInv' /\ HaltInv' /\ FreedUnused'
    BY <1>3 DEF Select, TypeOK, AdpTypeOK, MonitorAt, LockInv, HaltInv, FreedUnused, Inside, Outside
<1>4. ASSUME SelectFails PROVE TypeOK' /\ LockInv' /\ HaltInv' /\ FreedUnused'
    BY <1>4 DEF SelectFails, TypeOK, AdpTypeOK, MonitorAt, LockInv, HaltInv, FreedUnused, Inside, Outside
<1>5. ASSUME Lock PROVE TypeOK' /\ LockInv' /\ HaltInv' /\ FreedUnused'
    BY <1>5 DEF Lock, TypeOK, AdpTypeOK, MonitorAt, LockInv, HaltInv, FreedUnused, Inside, Outside
<1>6. ASSUME Receive PROVE TypeOK' /\ LockInv' /\ HaltInv' /\ FreedUnused'
  <2>1. AdpTypeOK'
    BY <1>6 DEF Receive, AdpDiscovered, TypeOK, AdpTypeOK
  <2>2. TypeOK'
    BY <1>6, <1>1, <2>1 DEF Receive, AdpDiscovered, TypeOK, MonitorAt, Frame
  <2>3. LockInv'
    BY <1>6 DEF Receive, AdpDiscovered, LockInv, Inside, Outside
  <2>4. HaltInv' /\ FreedUnused'
    BY <1>6 DEF Receive, AdpDiscovered, HaltInv, FreedUnused, TypeOK, AdpTypeOK
  <2> QED BY <2>2, <2>3, <2>4
<1>7. ASSUME ReadHaltFlag PROVE TypeOK' /\ LockInv' /\ HaltInv' /\ FreedUnused'
  <2>1. AdpTypeOK'
    BY <1>7 DEF ReadHaltFlag, AdpChangeDeparting, TypeOK, AdpTypeOK
  <2>2. TypeOK'
    BY <1>7, <1>1, <2>1 DEF ReadHaltFlag, AdpChangeDeparting, TypeOK, MonitorAt
  <2>3. LockInv'
    BY <1>7 DEF ReadHaltFlag, AdpChangeDeparting, LockInv, Inside, Outside
  <2>4. HaltInv' /\ FreedUnused'
    BY <1>7 DEF ReadHaltFlag, AdpChangeDeparting, HaltInv, FreedUnused, TypeOK, AdpTypeOK
  <2> QED BY <2>2, <2>3, <2>4
<1>8. ASSUME Check PROVE TypeOK' /\ LockInv' /\ HaltInv' /\ FreedUnused'
  <2>1. AdpTypeOK'
    BY <1>8 DEF Check, AdpCheck, TypeOK, AdpTypeOK
  <2>2. TypeOK'
    BY <1>8, <1>1, <2>1 DEF Check, AdpCheck, TypeOK, MonitorAt
  <2>3. LockInv'
    BY <1>8 DEF Check, AdpCheck, LockInv, Inside, Outside
  <2>4. HaltInv' /\ FreedUnused'
    BY <1>8 DEF Check, AdpCheck, HaltInv, FreedUnused, TypeOK, AdpTypeOK
  <2> QED BY <2>2, <2>3, <2>4
<1>9. ASSUME CheckFails PROVE TypeOK' /\ LockInv' /\ HaltInv' /\ FreedUnused'
  <2>1. AdpTypeOK'
    BY <1>9 DEF CheckFails, TypeOK, AdpTypeOK
  <2>2. TypeOK'
    BY <1>9, <1>1, <2>1 DEF CheckFails, TypeOK, MonitorAt
  <2>3. LockInv'
    BY <1>9 DEF CheckFails, LockInv, Inside, Outside
  <2>4. HaltInv' /\ FreedUnused'
    BY <1>9 DEF CheckFails, HaltInv, FreedUnused, TypeOK, AdpTypeOK
  <2> QED BY <2>2, <2>3, <2>4
<1>10. ASSUME CopyGrandmaster PROVE TypeOK' /\ LockInv' /\ HaltInv' /\ FreedUnused'
  <2>1. AdpTypeOK'
    BY <1>10 DEF CopyGrandmaster, AdpCopyGrandmaster, TypeOK, AdpTypeOK
  <2>2. TypeOK'
    BY <1>10, <1>1, <2>1 DEF CopyGrandmaster, AdpCopyGrandmaster, TypeOK, MonitorAt
  <2>3. LockInv'
    BY <1>10 DEF CopyGrandmaster, AdpCopyGrandmaster, LockInv, Inside, Outside
  <2>4. HaltInv' /\ FreedUnused'
    BY <1>10 DEF CopyGrandmaster, AdpCopyGrandmaster, HaltInv, FreedUnused, TypeOK, AdpTypeOK
  <2> QED BY <2>2, <2>3, <2>4
<1>11. ASSUME SendAvailable PROVE TypeOK' /\ LockInv' /\ HaltInv' /\ FreedUnused'
  <2>1. AdpTypeOK'
    BY <1>11 DEF SendAvailable, AdpAvailable, TypeOK, AdpTypeOK
  <2>2. TypeOK'
    BY <1>11, <1>1, <2>1 DEF SendAvailable, AdpAvailable, TypeOK, MonitorAt
  <2>3. LockInv'
    BY <1>11 DEF SendAvailable, AdpAvailable, LockInv, Inside, Outside
  <2>4. HaltInv' /\ FreedUnused'
    BY <1>11 DEF SendAvailable, AdpAvailable, HaltInv, FreedUnused, TypeOK, AdpTypeOK
  <2> QED BY <2>2, <2>3, <2>4
<1>12. ASSUME Return PROVE TypeOK' /\ LockInv' /\ HaltInv' /\ FreedUnused'
  <2>1. AdpTypeOK'
    BY <1>12 DEF Return, AdpDeparting, TypeOK, AdpTypeOK
  <2>2. TypeOK'
    BY <1>12, <1>1, <2>1 DEF Return, AdpDeparting, TypeOK, MonitorAt
  <2>3. LockInv'
    BY <1>12 DEF Return, AdpDeparting, LockInv, Inside, Outside
  <2>4. HaltInv' /\ FreedUnused'
    BY <1>12 DEF Return, AdpDeparting, HaltInv, FreedUnused, TypeOK, AdpTypeOK
  <2> QED BY <2>2, <2>3, <2>4
<1> QED BY <1>2, <1>3, <1>4, <1>5, <1>6, <1>7, <1>8, <1>9, <1>10, <1>11, <1>12
    DEF Monitor

\* The steps of the application.  The monitor thread stays where it is, so that what
\* is left to show of FreedUnused is that only Join frees.
LEMMA AppIInv == IInv /\ (AppCalls \/ AppReturns) => IInv'
<1> SUFFICES ASSUME IInv, AppCalls \/ AppReturns PROVE IInv'
    OBVIOUS
<1> USE DEF IInv, AppGoes, AppKeeps, adpVars
<1>1. ASSUME NEW id \in Grandmasters, SetGrandmaster(id) PROVE IInv'
    BY <1>1 DEF SetGrandmaster, TypeOK, AdpTypeOK, AppAt, LockInv, CallInv, InfoInv, Whole,
        HaltInv, FreedUnused
<1>2. ASSUME NEW p \in Part, WriteGrandmaster(p) PROVE IInv'
  <2>1. value \in GrandmasterIds /\ gptp_grandmaster_id \in GrandmasterIds
    BY <1>2, AvdeccAssumption DEF WriteGrandmaster, CallInv, TypeOK, AdpTypeOK
  <2>2. gptp_grandmaster_id' \in GrandmasterIds
    BY <1>2, <2>1 DEF WriteGrandmaster, AdpWriteGrandmaster, GrandmasterIds
  <2>3. TypeOK'
    BY <1>2, <2>2 DEF WriteGrandmaster, AdpWriteGrandmaster, TypeOK, AdpTypeOK, AppAt
  <2>4. LockInv' /\ CallInv' /\ InfoInv' /\ HaltInv' /\ FreedUnused'
    BY <1>2 DEF WriteGrandmaster, AdpWriteGrandmaster, LockInv, CallInv, InfoInv, Whole,
        HaltInv, FreedUnused
  <2> QED BY <2>3, <2>4
<1>3. ASSUME NEW v \in Version, SetStreamInfo(v) PROVE IInv'
    BY <1>3 DEF SetStreamInfo, TypeOK, AdpTypeOK, AppAt, LockInv, CallInv, InfoInv, Whole,
        HaltInv, FreedUnused
<1>4. ASSUME LockInfo PROVE IInv'
    BY <1>4 DEF LockInfo, TypeOK, AdpTypeOK, AppAt, LockInv, CallInv, InfoInv, Whole,
        HaltInv, FreedUnused, Inside, Outside
<1>5. ASSUME SetterFails PROVE IInv'
    BY <1>5 DEF SetterFails, TypeOK, AdpTypeOK, AppAt, LockInv, CallInv, InfoInv, Whole,
        HaltInv, FreedUnused
<1>6. ASSUME WriteInfo PROVE IInv'
  <2>1. PICK f \in todo : /\ stream_info' = [stream_info EXCEPT ![f] = value]
                         /\ todo' = todo \ {f}
    BY <1>6 DEF WriteInfo
  <2>2. value \in Version /\ todo \subseteq Field /\ stream_info \in [Field -> Version]
    BY <1>6 DEF WriteInfo, CallInv, TypeOK
  <2>3. stream_info' \in [Field -> Version]
    BY <2>1, <2>2
  <2>4. TypeOK'
    BY <1>6, <2>1, <2>2, <2>3 DEF WriteInfo, TypeOK, AdpTypeOK
  <2>5. LockInv' /\ CallInv' /\ HaltInv' /\ FreedUnused'
    BY <1>6, <2>1, <2>2 DEF WriteInfo, LockInv, CallInv, HaltInv, FreedUnused
  <2>6. InfoInv'
    <3>1. app = "info" /\ app' = "info" /\ value' = value
      BY <1>6 DEF WriteInfo
    <3>2. f \in Field /\ f \notin todo'
      BY <2>1, <2>2
    <3>3. ASSUME NEW g \in Field, g \notin todo'
          PROVE  stream_info'[g] = value
      <4>1. CASE g = f
        BY <2>1, <2>2, <4>1
      <4>2. CASE g # f
        <5>1. g \in Field \ todo
          BY <2>1, <3>3, <4>2
        <5>2. stream_info[g] = value
          BY <3>1, <5>1 DEF InfoInv
        <5> QED
          BY <2>1, <2>2, <4>2, <5>2
      <4> QED
        BY <4>1, <4>2
    <3> QED
      BY <3>1, <3>2, <3>3 DEF InfoInv
  <2> QED BY <2>4, <2>5, <2>6
<1>7. ASSUME UnlockInfo PROVE IInv'
    BY <1>7 DEF UnlockInfo, TypeOK, AdpTypeOK, AppAt, LockInv, CallInv, InfoInv, Whole,
        HaltInv, FreedUnused, Inside, Outside
<1>8. ASSUME CallStart \/ CallStop PROVE IInv'
    BY <1>8 DEF CallStart, CallStop, TypeOK, AdpTypeOK, AppAt, LockInv, CallInv, InfoInv, Whole,
        HaltInv, FreedUnused
<1>9. ASSUME StartStop PROVE IInv'
  <2>1. /\ app # "info" /\ app' = "idle" /\ acmp_started' \in BOOLEAN
        /\ UNCHANGED <<adpVars, data_lock, halt_flag, stream_info, todo, value, monitor, frame>>
    BY <1>9 DEF StartStop
  <2>2. TypeOK'
    BY <2>1 DEF TypeOK, AdpTypeOK, AppAt
  <2>3. LockInv' /\ HaltInv' /\ FreedUnused'
    BY <2>1 DEF LockInv, HaltInv, FreedUnused
  <2>4. CallInv' /\ InfoInv'
    BY <2>1 DEF CallInv, InfoInv, Whole
  <2> QED BY <2>2, <2>3, <2>4
<1>10. ASSUME Terminate PROVE IInv'
    BY <1>10 DEF Terminate, TypeOK, AdpTypeOK, AppAt, LockInv, CallInv, InfoInv, Whole,
        HaltInv, FreedUnused
<1>11. ASSUME Join PROVE IInv'
    BY <1>11 DEF Join, TypeOK, AdpTypeOK, AppAt, LockInv, CallInv, InfoInv, Whole,
        HaltInv, FreedUnused
<1> QED BY <1>1, <1>2, <1>3, <1>4, <1>5, <1>6, <1>7, <1>8, <1>9, <1>10, <1>11
    DEF AppCalls, AppReturns

LEMMA QuietIInv == IInv /\ (Environment \/ UNCHANGED vars) => IInv'
<1> SUFFICES ASSUME IInv, Environment \/ UNCHANGED vars PROVE IInv'
    OBVIOUS
<1>1. UNCHANGED avdeccVars
      /\ UNCHANGED <<do_advertise, do_terminate, last_link_is_up, gptp_grandmaster_id,
                     advertised_grandmaster_id, heard, departed>>
    BY DEF Environment, TimerExpires, LinkChanges, vars, adpVars
<1>2. due' \in BOOLEAN /\ link' \in BOOLEAN
    BY DEF IInv, TypeOK, AdpTypeOK, Environment, TimerExpires, LinkChanges, vars, adpVars
<1>3. TypeOK'
    BY <1>1, <1>2 DEF IInv, TypeOK, AdpTypeOK, avdeccVars
<1>4. LockInv' /\ CallInv' /\ InfoInv' /\ HaltInv' /\ FreedUnused'
    BY <1>1 DEF IInv, LockInv, CallInv, InfoInv, Whole, HaltInv, FreedUnused, avdeccVars
<1> QED BY <1>3, <1>4 DEF IInv

LEMMA Invariance == Spec => []IInv
<1>1. IInv /\ [Next]_vars => IInv'
    BY MonitorIInv, AppIInv, QuietIInv DEF Next
<1> QED BY InitIInv, <1>1, PTL DEF Spec

-----------------------------------------------------------------------------

\* The threads, the lock and what they share are of their types: a call writes its
\* own argument.
THEOREM TypeCorrect == Spec => []TypeOK
<1>1. IInv => TypeOK
    BY DEF IInv
<1> QED BY Invariance, <1>1, PTL

\* Whoever handles a frame sees the stream information of one call: the fields differ
\* only while the application holds data_lock to write them.
THEOREM StreamInfoIsWhole == Spec => []StreamInfoWhole
<1>1. IInv => StreamInfoWhole
    BY DEF IInv, LockInv, InfoInv, Whole, StreamInfoWhole
<1> QED BY Invariance, <1>1, PTL

\* avdecc_terminate frees a context no thread uses.
THEOREM FreedIsUnused == Spec => []FreedUnused
<1>1. IInv => FreedUnused
    BY DEF IInv
<1> QED BY Invariance, <1>1, PTL

\* The pass that sends ENTITY_DEPARTING is the last: halt_flag, which made it do so,
\* is still set at its end.
THEOREM DepartsLast == Spec => NothingAfterDeparting
<1>1. IInv /\ [Next]_vars => [departed => heard' = heard]_vars
  <2> SUFFICES ASSUME IInv, Next, departed PROVE heard' = heard
    BY DEF vars, adpVars
  <2>1. monitor = "ended"
    BY DEF IInv, HaltInv
  <2>2. CASE Monitor
    BY <2>1, <2>2 DEF Monitor, MonitorGoes, Select, SelectFails, Lock, Receive, ReadHaltFlag,
        Check, CheckFails, CopyGrandmaster, SendAvailable, Return, adpVars
  <2>3. CASE AppCalls
    BY <2>3 DEF AppCalls, SetGrandmaster, SetStreamInfo, CallStart, CallStop, Terminate, adpVars
  <2>4. CASE AppReturns
    BY <2>4 DEF AppReturns, WriteGrandmaster, AdpWriteGrandmaster, LockInfo, SetterFails,
        WriteInfo, UnlockInfo, StartStop, Join, adpVars
  <2>5. CASE Environment
    BY <2>5 DEF Environment, TimerExpires, LinkChanges
  <2> QED BY <2>2, <2>3, <2>4, <2>5 DEF Next
<1> QED BY Invariance, <1>1, PTL DEF Spec, NothingAfterDeparting

=============================================================================
