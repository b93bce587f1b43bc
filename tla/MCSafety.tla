------------------------------ MODULE MCSafety ------------------------------
(***************************************************************************)
(* Seven parts that share no state, each checked alone, and for safety     *)
(* only: a behaviour picks one of them and leaves the others as they start.*)
(***************************************************************************)
EXTENDS MCParallelIo, MCFileTransfer, Updater, NetConnect, BootLog, PcmRing, PacketRing, TLC

CONSTANTS c1, c2, j1, j2
MCCallers == {c1, c2}
MCConnJobs == {j1, j2}
MCList == <<"a1", "a2">>
Symmetry == Permutations(MCCallers) \cup Permutations(MCConnJobs)

\* A store of a dozen units, and packets of 3, 4 and 5: pads of every width from 1 to 4.
MCInitSize == 11
MCGrowSizes == {13}
MCPayloadSizes == {1, 65, 192}

VARIABLE part

partVars == <<part, pioVars, transferVars, updaterVars, connVars, logVars, pcmVars, ringVars>>

Init ==
  /\ part \in {"pio", "transfer", "updater", "connect", "log", "pcm", "ring"}
  /\ PioInit
  /\ part # "pio" => \A w \in Workers : fetch[w] = IdleWorker
  /\ TransferInit
  /\ UpdaterInit
  /\ part # "updater" => image = 1
  /\ ConnectInit
  /\ LogInit
  /\ PcmInit
  /\ RingInit

Next ==
  /\ UNCHANGED part
  /\ \/ /\ part = "pio" /\ PioNext
        /\ UNCHANGED <<transferVars, updaterVars, connVars, logVars, pcmVars, ringVars>>
     \/ /\ part = "transfer" /\ TransferNext
        /\ UNCHANGED <<pioVars, updaterVars, connVars, logVars, pcmVars, ringVars>>
     \/ /\ part = "updater" /\ UpdaterNext
        /\ UNCHANGED <<pioVars, transferVars, connVars, logVars, pcmVars, ringVars>>
     \/ /\ part = "connect" /\ ConnectNext
        /\ UNCHANGED <<pioVars, transferVars, updaterVars, logVars, pcmVars, ringVars>>
     \/ /\ part = "log" /\ LogNext
        /\ UNCHANGED <<pioVars, transferVars, updaterVars, connVars, pcmVars, ringVars>>
     \/ /\ part = "pcm" /\ PcmNext
        /\ UNCHANGED <<pioVars, transferVars, updaterVars, connVars, logVars, ringVars>>
     \/ /\ part = "ring" /\ RingNext
        /\ UNCHANGED <<pioVars, transferVars, updaterVars, connVars, logVars, pcmVars>>

Spec == Init /\ [][Next]_partVars
=============================================================================
