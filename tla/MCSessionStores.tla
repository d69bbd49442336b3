--------------------------- MODULE MCSessionStores ---------------------------
(* The run of the two containers a session keeps.  Neither knows of the    *)
(* other, so one is used while the other is empty.                         *)
EXTENDS Session

CONSTANTS RatchetPK, MessageNumber, MessageKey,  \* as in SkippedKeyStore
          PK, CK, Nr                             \* as in ReceiverChainRing

VARIABLES storage, ring

Stores == INSTANCE SkippedKeyStore
Rings == INSTANCE ReceiverChainRing

MCInit == Stores!Init /\ Rings!Init
UseStorage == Rings!Init /\ Stores!Next /\ UNCHANGED ring
UseRing == Stores!Init /\ Rings!Next /\ UNCHANGED storage
MCSpec == MCInit /\ [][UseStorage \/ UseRing]_<<storage, ring>>

(* The storage is a bounded first-in first-out map: see SkippedKeyStore.   *)
ImplementsFifoMap == Stores!ImplementsFifoMap
(* The receiver-chain buffer keeps the latest chains: see ReceiverChainRing. *)
ImplementsLatestChains == Rings!ImplementsLatestChains
=============================================================================
