----------------------------- MODULE PacketPool -----------------------------
(***************************************************************************)
(* The two pools a packet comes from: the BufferPool of transport/packet.rs*)
(* that holds its bytes, and the slab of boxslab/src/lib.rs that holds the *)
(* packet itself, with its Bitmap of the slots in use.  Both are of the    *)
(* same size; a packet takes a buffer first, and gives it back when it is  *)
(* dropped, which the slab does when it frees the slot.                    *)
(***************************************************************************)
EXTENDS Naturals, FiniteSets

CONSTANT MAX_PACKET_POOL_SIZE
ASSUME PoolAssumption == MAX_PACKET_POOL_SIZE \in Nat \ {0}

VARIABLES
  buffers,  \* the indices of the buffers that are taken
  map,      \* the slots of the slab that are taken
  pool,     \* what the slots hold: the index of a packet's buffer
  boxes     \* the slots of the BoxSlabs alive in the program

poolVars == << buffers, map, pool, boxes >>

Indices == 0 .. MAX_PACKET_POOL_SIZE - 1
FirstFree(taken) == {i \in Indices \ taken : \A j \in Indices \ taken : i =< j}
IsFull(taken) == FirstFree(taken) = {}

PoolInit ==
  /\ buffers = {} /\ map = {} /\ boxes = {}
  /\ pool = [i \in Indices |-> 0]

\* Packet::new_rx or new_tx, then Slab::new.
NewPacket ==
  \E index \in FirstFree(buffers), slot \in FirstFree(map) :
    /\ buffers' = buffers \union {index}
    /\ map' = map \union {slot}
    /\ pool' = [pool EXCEPT ![slot] = index]
    /\ boxes' = boxes \union {slot}

\* Without a buffer there is no packet; without a slot the packet is dropped,
\* and its buffer with it.
NewPacketFails ==
  /\ IsFull(buffers) \/ IsFull(map)
  /\ UNCHANGED poolVars

DropPacketBug(slot) ==
  /\ slot \in boxes
  /\ boxes' = boxes \ {slot}
  /\ map' = map \ {slot}
  /\ UNCHANGED << pool, buffers >>

\* The BoxSlab's drop: the slot is reset, then the packet in it is dropped.
DropPacket(slot) ==
  /\ slot \in boxes
  /\ boxes' = boxes \ {slot}
  /\ map' = map \ {slot}
  /\ buffers' = buffers \ {pool[slot]}
  /\ UNCHANGED pool

PoolNext == NewPacket \/ NewPacketFails \/ \E slot \in Indices : DropPacket(slot)

PoolSpec == PoolInit /\ [][PoolNext]_poolVars

\* The pools agree: in whatever order packets come and go, the slots taken are
\* those of the live packets, the buffers taken are theirs, and no two packets
\* write to one buffer.  So neither pool runs out before the other.
PoolsAgree ==
  /\ map = boxes
  /\ buffers = {pool[slot] : slot \in boxes}
  /\ \A a, b \in boxes : pool[a] = pool[b] => a = b
=============================================================================
