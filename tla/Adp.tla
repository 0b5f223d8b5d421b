-------------------------------- MODULE Adp --------------------------------
(***************************************************************************)
(* The discovery protocol of an AVDECC entity, lib/avdecc/adp.c: when it   *)
(* announces itself, answers a discovery and takes its leave.              *)
(*                                                                         *)
(* Every action but the application's and the environment's is a part of   *)
(* adp_state_process or adp_receive_process, which the monitor thread      *)
(* calls with data_lock held.  adp_set_grandmaster_id is called without    *)
(* the lock and writes the id byte by byte: two parts stand for the bytes, *)
(* which become visible one at a time and in any order.                    *)
(*                                                                         *)
(* do_discover is never set, so ENTITY_DISCOVER is never sent; the rcvd_   *)
(* flags are cleared before anything reads them.  available_index, which   *)
(* goes out in each announcement, is never read back.                      *)
(***************************************************************************)

CONSTANTS
    Byte,           \* what a part of a grandmaster id may be
    Zero,           \* the content of a part of GPTP_GRANDMASTER_ID
    Silent          \* what the network heard of an entity that never announced

ASSUME AdpAssumption ==
    /\ Zero \in Byte
    /\ Silent \notin [{"high", "low"} -> Byte]

Part == {"high", "low"}
GrandmasterIds == [Part -> Byte]

VARIABLES
    do_advertise, do_terminate,     \* requests to adp_state_process
    last_link_is_up,                \* the link as adp_state_process saw it
    gptp_grandmaster_id,            \* in the adpdu, written by the application
    advertised_grandmaster_id,
    due,            \* more than half of VALID_TIME has passed since the last
                    \* announcement (last_time_in_microseconds)
    link,           \* IFF_UP of the interface
    heard,          \* the grandmaster in the last ENTITY_AVAILABLE that left the
                    \* host, or Silent
    departed        \* an ENTITY_DEPARTING has been given to the socket

adpVars == <<do_advertise, do_terminate, last_link_is_up, gptp_grandmaster_id,
             advertised_grandmaster_id, due, link, heard, departed>>

AdpTypeOK ==
    /\ do_advertise \in BOOLEAN
    /\ do_terminate \in BOOLEAN
    /\ last_link_is_up \in BOOLEAN
    /\ gptp_grandmaster_id \in GrandmasterIds
    /\ advertised_grandmaster_id \in GrandmasterIds
    /\ due \in BOOLEAN
    /\ link \in BOOLEAN
    /\ heard \in GrandmasterIds \cup {Silent}
    /\ departed \in BOOLEAN

\* adp_advertise_init.  last_time_in_microseconds starts at 0 on a clock that
\* counts from boot: the timer may have expired already.
AdpInit ==
    /\ do_advertise = TRUE
    /\ do_terminate = FALSE
    /\ gptp_grandmaster_id = [p \in Part |-> Zero]
    /\ advertised_grandmaster_id = [p \in Part |-> Zero]
    /\ due \in BOOLEAN
    /\ link \in BOOLEAN
    /\ last_link_is_up = link
    /\ heard = Silent
    /\ departed = FALSE

-----------------------------------------------------------------------------
(* adp_receive_process and adp_state_change_departing.                      *)

\* ENTITY_DISCOVER for all entities (id 0) or for this one.
AdpDiscovered ==
    /\ do_advertise' = TRUE
    /\ UNCHANGED <<do_terminate, last_link_is_up, gptp_grandmaster_id,
                   advertised_grandmaster_id, due, link, heard, departed>>

AdpChangeDeparting ==
    /\ do_terminate' = TRUE
    /\ UNCHANGED <<do_advertise, last_link_is_up, gptp_grandmaster_id,
                   advertised_grandmaster_id, due, link, heard, departed>>

-----------------------------------------------------------------------------
(* The parts of adp_state_process, in their order.                          *)

\* Mutant: no reannounce timer.
AdpCheckUntimed ==
    /\ do_advertise' = (do_advertise \/ (link /\ ~ last_link_is_up))
    /\ last_link_is_up' = link
    /\ UNCHANGED <<do_terminate, gptp_grandmaster_id, advertised_grandmaster_id,
                   due, link, heard, departed>>

\* The reannounce timer and the link.
AdpCheck ==
    /\ do_advertise' = (do_advertise \/ due \/ (link /\ ~ last_link_is_up))
    /\ last_link_is_up' = link
    /\ UNCHANGED <<do_terminate, gptp_grandmaster_id, advertised_grandmaster_id,
                   due, link, heard, departed>>

GrandmasterChanged == gptp_grandmaster_id # advertised_grandmaster_id

\* The copy is a second reading of what the application may be writing.
AdpCopyGrandmaster ==
    /\ advertised_grandmaster_id' = gptp_grandmaster_id
    /\ do_advertise' = TRUE
    /\ UNCHANGED <<do_terminate, last_link_is_up, gptp_grandmaster_id,
                   due, link, heard, departed>>

\* A frame given to the socket of an interface that is down is lost.
AdpAvailable ==
    IF do_advertise
    THEN /\ heard' = IF link THEN gptp_grandmaster_id ELSE heard
         /\ do_advertise' = FALSE
         /\ due' = FALSE
         /\ UNCHANGED <<do_terminate, last_link_is_up, gptp_grandmaster_id,
                        advertised_grandmaster_id, link, departed>>
    ELSE UNCHANGED adpVars

AdpDeparting ==
    IF do_terminate
    THEN /\ departed' = TRUE
         /\ do_terminate' = FALSE
         /\ do_advertise' = FALSE
         /\ due' = FALSE
         /\ UNCHANGED <<last_link_is_up, gptp_grandmaster_id,
                        advertised_grandmaster_id, link, heard>>
    ELSE UNCHANGED adpVars

-----------------------------------------------------------------------------
(* The application and the environment.                                     *)

\* One byte of adp_set_grandmaster_id.
AdpWriteGrandmaster(p, id) ==
    /\ gptp_grandmaster_id' = [gptp_grandmaster_id EXCEPT ![p] = id[p]]
    /\ UNCHANGED <<do_advertise, do_terminate, last_link_is_up,
                   advertised_grandmaster_id, due, link, heard, departed>>

TimerExpires ==
    /\ ~ due
    /\ due' = TRUE
    /\ UNCHANGED <<do_advertise, do_terminate, last_link_is_up, gptp_grandmaster_id,
                   advertised_grandmaster_id, link, heard, departed>>

LinkChanges ==
    /\ link' = ~ link
    /\ UNCHANGED <<do_advertise, do_terminate, last_link_is_up, gptp_grandmaster_id,
                   advertised_grandmaster_id, due, heard, departed>>

=============================================================================
