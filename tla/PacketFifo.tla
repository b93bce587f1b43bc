----------------------------- MODULE PacketFifo ------------------------------
(***************************************************************************)
(* What evo_packet_queue.h promises of a PacketQueue: a bounded FIFO that  *)
(* takes a packet or refuses it when full, hands the oldest one out, and   *)
(* is emptied by a clear.                                                  *)
(***************************************************************************)
EXTENDS Naturals, Sequences

CONSTANTS Packets,      \* what a consumer can tell of a packet
          Capacity      \* PACKET_QUEUE_SIZE

VARIABLE fifo           \* the packets queued, oldest first

Init == fifo = <<>>

Push == \E p \in Packets : Len(fifo) < Capacity /\ fifo' = Append(fifo, p)

Pop == fifo # <<>> /\ fifo' = Tail(fifo)

Clear == fifo' = <<>>

Next == Push \/ Pop \/ Clear

Spec == Init /\ [][Next]_fifo
=============================================================================
