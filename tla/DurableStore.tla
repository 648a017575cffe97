---------------------------- MODULE DurableStore ----------------------------
(***************************************************************************)
(* What the JSON-snapshot persistence promises its clients, without locks, *)
(* files or requests.  A state is the set of writes it reflects.           *)
(*                                                                         *)
(* memory  - the state the running server answers from,                    *)
(* durable - the state a restart would come back with,                     *)
(* acked   - the writes a client got a 200 for.                            *)
(*                                                                         *)
(* Memory may run ahead of the durable state (a failed save keeps the      *)
(* mutation), a restart falls back to the durable state, and nothing is    *)
(* acknowledged before it is durable.  The durable state never shrinks.    *)
(***************************************************************************)
CONSTANT Writes

VARIABLES memory, durable, acked

vars == <<memory, durable, acked>>

Init == memory = {} /\ durable = {} /\ acked = {}

Mutate == /\ \E w \in Writes \ memory : memory' = memory \cup {w}
          /\ UNCHANGED <<durable, acked>>

Sync == durable' = memory /\ UNCHANGED <<memory, acked>>

Ack == /\ \E w \in durable : acked' = acked \cup {w}
       /\ UNCHANGED <<memory, durable>>

Restart == memory' = durable /\ UNCHANGED <<durable, acked>>

Next == Mutate \/ Sync \/ Ack \/ Restart

Spec == Init /\ [][Next]_vars
=============================================================================
