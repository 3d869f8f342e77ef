----------------------------- MODULE Consumers ------------------------------
(***************************************************************************)
(* Two of those the listener of accepted events hands them to, the file    *)
(* storage and the senders of statistics.  They share no state: a          *)
(* behaviour follows one of them.                                          *)
(***************************************************************************)
EXTENDS Storage, Senders

VARIABLE consumer

consumerVars == <<vars, senderVars, consumer>>

ConsumersInit ==
    /\ consumer \in {"files", "statistics"}
    /\ Init
    /\ SendersInit
    /\ consumer = "files" => traffic = CHOOSE t \in Traffic : TRUE

ConsumersNext ==
    /\ UNCHANGED consumer
    /\ \/ consumer = "files" /\ Next /\ UNCHANGED senderVars
       \/ consumer = "statistics" /\ SendersNext /\ UNCHANGED vars

ConsumersSpec == ConsumersInit /\ [][ConsumersNext]_consumerVars
=============================================================================
