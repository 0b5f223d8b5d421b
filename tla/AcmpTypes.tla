----------------------------- MODULE AcmpTypes -----------------------------
(***************************************************************************)
(* The ACMP messages of lib/avdecc: struct acmp_cmd_resp and the two ways  *)
(* acmp.c builds an outgoing frame from one.  A frame's stream id,         *)
(* destination address, VLAN id and flags are functions of the talker      *)
(* stream it names and are left out; entity ids are model values.          *)
(***************************************************************************)
EXTENDS Naturals, FiniteSets

CONSTANTS
    Controllers,    \* entity ids of the controllers
    Talkers,        \* entity ids of the talkers
    Listeners,      \* entity ids of the listeners
    TalkerUids,     \* talker_unique_id values that occur in frames
    ListenerUids,   \* listener_unique_id values that occur in frames
    SequenceIds,    \* sequence ids the controllers use
    NoEntity        \* the all-zero entity id a memset leaves behind

ASSUME TypesAssumption ==
    /\ TalkerUids \subseteq Nat
    /\ ListenerUids \subseteq Nat
    /\ 0 \in TalkerUids
    /\ NoEntity \notin Talkers

CommandTypes == {"CONNECT_RX_COMMAND", "DISCONNECT_RX_COMMAND", "GET_RX_STATE_COMMAND",
                 "CONNECT_TX_COMMAND", "DISCONNECT_TX_COMMAND",
                 "GET_TX_STATE_COMMAND", "GET_TX_CONNECTION_COMMAND"}

ResponseTypes == {"CONNECT_RX_RESPONSE", "DISCONNECT_RX_RESPONSE", "GET_RX_STATE_RESPONSE",
                  "CONNECT_TX_RESPONSE", "DISCONNECT_TX_RESPONSE",
                  "GET_TX_STATE_RESPONSE", "GET_TX_CONNECTION_RESPONSE"}

Statuses == {"SUCCESS", "LISTENER_UNKNOWN_ID", "TALKER_UNKNOWN_ID", "LISTENER_EXCLUSIVE",
             "LISTENER_MISBEHAVING", "TALKER_MISBEHAVING", "LISTENER_TALKER_TIMEOUT",
             "NOT_CONNECTED", "NO_SUCH_CONNECTION", "COULD_NOT_SEND_MESSAGE"}

UInt16 == {n \in Nat : n < 65536}

\* struct acmp_cmd_resp
Messages == [message_type : CommandTypes \cup ResponseTypes,
             status : Statuses,
             controller : Controllers,
             talker : Talkers \cup {NoEntity},
             talker_unique_id : TalkerUids,
             listener : Listeners,
             listener_unique_id : ListenerUids,
             connection_count : UInt16,
             sequence_id : SequenceIds]

\* The frame both acmp_tx_response and acmp_tx_command put on the wire: the
\* fields of the struct they are handed under a new message type and status.
Frame(m, type, status) == [m EXCEPT !.message_type = type, !.status = status]

\* Two commands or records name the same talker stream.
SameStream(a, b) ==
    /\ a.talker = b.talker
    /\ a.talker_unique_id = b.talker_unique_id

=============================================================================
