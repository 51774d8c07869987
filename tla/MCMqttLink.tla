----------------------------- MODULE MCMqttLink ------------------------------
(***************************************************************************)
(* An instance of MqttLink for TLC.                                        *)
(***************************************************************************)
EXTENDS MqttLink

Faults(reset, silence, down, refuse) ==
    [reset |-> reset, silence |-> silence, down |-> down, refuse |-> refuse]

(* What may go wrong together in one behaviour: a connection that breaks   *)
(* and falls silent; a broker that goes down and refuses; one that goes    *)
(* down with a connection that breaks.                                     *)
Troubles == {Faults(2, 1, 0, 0), Faults(0, 0, 1, 1), Faults(1, 0, 1, 0)}
==============================================================================
