--------------------------------- MODULE Nic --------------------------------
(* The three network cards' drivers, sys/net/nic, as the enum EthernetDevice *)
(* of sys/net/mod.rs puts them under the protocol stack (smoltcp, external): *)
(* packets the stack hands over to be sent, through a ring of buffers, and   *)
(* packets the card has received, which the stack asks for.  The cards are   *)
(* external, and work at any time between two accesses of the driver.        *)
(*                                                                           *)
(* A packet is a number, in the order of its kind.  It fits a buffer of the  *)
(* PCNET and the E1000 (their sizes are above Ethernet's).  The receive ring *)
(* of the RTL8139 is in words of 4 bytes.                                    *)
EXTENDS Integers, SequencesExt

CONSTANTS
  TxCount, RxCount,      \* TX_BUFFERS_COUNT, RX_BUFFERS_COUNT
  RingLen, RingPad,      \* RX_BUFFER_LEN and RX_BUFFER_PAD, in words
  Wrap,                  \* 2^16 bytes, in words: where CAPR wraps
  PacketSizes,                 \* the words of a packet, with its header and checksum
  MaxPackets,            \* bound: packets handed over, and packets that arrive
  MaxFaults              \* bound: changes of the link, and faulty packets

(* A packet has a header and a checksum, and is of the MTU at most.          *)
ASSUME NicAssumption ==
  /\ TxCount \in Nat \ {0} /\ RxCount \in Nat \ {0, 1}
  /\ {RingLen, RingPad, Wrap} \subseteq Nat
  /\ RingPad < RingLen /\ Wrap % RingLen = 0 /\ RingLen < Wrap
  /\ PacketSizes \subseteq 1..RingLen - 1
  /\ \E s \in PacketSizes : \A r \in PacketSizes : r <= s
  /\ {MaxPackets, MaxFaults} \subseteq Nat

VARIABLES
  card,          \* which of them it is
  given, wire,   \* packets handed over by the stack; packets sent
  most,          \* the most that were handed over and not sent, at any time
  arrived, received,  \* packets the card took from the wire; packets handed up
  dsc,           \* the descriptors and registers, see the Init of each card
  harmed,        \* the card wrote over a packet while it was copied
  tx             \* the driver: "idle", "filled", "started"

nicVars == <<card, given, wire, most, arrived, received, dsc, harmed, tx>>

Empty == 0                       \* the content of a buffer never written
Larger(a, b) == IF a > b THEN a ELSE b

Bufs(count) == [i \in 0..count - 1 |-> Empty]

(* tx_id is raised before a buffer is filled, but in the PCNET's driver,     *)
(* where it is raised after.                                                 *)
PcnetInit ==
  [txId |-> 0, txBuf |-> Bufs(TxCount), txNext |-> 0,
   txCards |-> [i \in 0..TxCount - 1 |-> FALSE],
   rxId |-> 0, rxNext |-> 0, rxBuf |-> Bufs(RxCount),
   rxCards |-> [i \in 0..RxCount - 1 |-> TRUE]]

(* The E1000 has the descriptors between head and tail; lsc and up are the   *)
(* change of the link it reports, and the link.                              *)
E1000Init ==
  [txId |-> TxCount - 1, txBuf |-> Bufs(TxCount), txNext |-> 0, tail |-> 0,
   rxId |-> 0, rxNext |-> 0, rxTail |-> RxCount - 1, rxBuf |-> Bufs(RxCount),
   done |-> [i \in 0..RxCount - 1 |-> FALSE],
   lsc |-> FALSE, up |-> TRUE, faults |-> 0]

(* The RTL8139 writes packets one after the other; one that begins before    *)
(* the end of the ring goes on past it.  CAPR starts at 65520.               *)
LastSize == CHOOSE s \in PacketSizes : \A r \in PacketSizes : r <= s
Rtl8139Init ==
  [txId |-> TxCount - 1, txBuf |-> Bufs(TxCount), txNext |-> 0, sending |-> FALSE,
   capr |-> Wrap - RingPad, cba |-> 0,
   ring |-> [i \in 0..RingLen + LastSize - 1 |-> <<Empty, 0, TRUE>>],
   copy |-> <<0, 0>>, faults |-> 0]

NicInit ==
  /\ \/ card = "PCNET" /\ dsc = PcnetInit
     \/ card = "E1000" /\ dsc = E1000Init
     \/ card = "RTL8139" /\ dsc = Rtl8139Init
  /\ given = <<>> /\ wire = <<>> /\ most = 0 /\ arrived = <<>> /\ received = <<>>
  /\ harmed = FALSE /\ tx = "idle"

-----------------------------------------------------------------------------
(* TxToken::consume: the next buffer is filled, whoever owns it.             *)
next_tx_buffer ==
  IF card = "PCNET" THEN dsc.txId ELSE (dsc.txId + 1) % TxCount

Fill ==
  /\ tx = "idle" /\ Len(given) < MaxPackets
  /\ given' = Append(given, Len(given) + 1)
  /\ most' = Larger(most, Len(given) + 1 - Len(wire))
  /\ dsc' = [dsc EXCEPT !.txId = next_tx_buffer, !.txBuf[next_tx_buffer] = Len(given) + 1]
  /\ tx' = "filled"
  /\ UNCHANGED <<card, wire, arrived, received, harmed>>

(* The tail is where the next packet will be.                                *)
TxTailHere(id) == id
TxTail(id) == (id + 1) % TxCount

(* transmit_packet: the buffer becomes the card's.                           *)
Transmit ==
  /\ tx = "filled"
  /\ \/ /\ card = "PCNET"
        /\ dsc' = [dsc EXCEPT !.txCards[dsc.txId] = TRUE, !.txId = (@ + 1) % TxCount]
        /\ tx' = "idle"
     \/ /\ card = "E1000"
        /\ dsc' = [dsc EXCEPT !.tail = TxTail(dsc.txId)]
        /\ tx' = "idle"
     \/ /\ card = "RTL8139"
        /\ dsc' = [dsc EXCEPT !.sending = TRUE, !.txNext = dsc.txId]
        /\ tx' = "started"
  /\ UNCHANGED <<card, given, wire, most, arrived, received, harmed>>

(* The driver of the RTL8139 waits for the packet to be sent.                *)
Transmitted ==
  /\ tx = "started" /\ ~dsc.sending
  /\ tx' = "idle"
  /\ UNCHANGED <<card, given, wire, most, arrived, received, dsc, harmed>>

(* The card sends the next buffer it has.                                    *)
Send ==
  /\ wire' = Append(wire, dsc.txBuf[dsc.txNext])
  /\ \/ /\ card = "PCNET" /\ dsc.txCards[dsc.txNext]
        /\ dsc' = [dsc EXCEPT !.txCards[dsc.txNext] = FALSE, !.txNext = (@ + 1) % TxCount]
     \/ /\ card = "E1000" /\ dsc.txNext # dsc.tail
        /\ dsc' = [dsc EXCEPT !.txNext = (@ + 1) % TxCount]
     \/ /\ card = "RTL8139" /\ dsc.sending
        /\ dsc' = [dsc EXCEPT !.sending = FALSE]
  /\ UNCHANGED <<card, given, most, arrived, received, harmed, tx>>

-----------------------------------------------------------------------------
(* What the ring of the RTL8139 has room for: not as much as would make its  *)
(* end meet the place the driver reads.                                      *)
ReadAt == (dsc.capr + RingPad) % Wrap
Used == (dsc.cba - (ReadAt % RingLen) + RingLen) % RingLen

Taken(size) == dsc.cba..dsc.cba + size - 1
Written(size, id, ok) ==
  [dsc EXCEPT !.cba = (@ + size) % RingLen, !.faults = IF ok THEN @ ELSE @ + 1,
              !.ring = [i \in DOMAIN @ |-> IF i \in Taken(size) THEN <<id, size, ok>> ELSE @[i]]]
Copied == dsc.copy[1]..dsc.copy[1] + dsc.copy[2] - 1

(* The card takes a packet in.  The RTL8139 may take one it finds faulty.    *)
Arrive ==
  LET id == Len(arrived) + 1
  IN  /\ id <= MaxPackets
      /\ \/ /\ card = "PCNET" /\ dsc.rxCards[dsc.rxNext]
            /\ dsc' = [dsc EXCEPT !.rxBuf[dsc.rxNext] = id, !.rxCards[dsc.rxNext] = FALSE,
                                  !.rxNext = (@ + 1) % RxCount]
            /\ arrived' = Append(arrived, id) /\ UNCHANGED harmed
         \/ /\ card = "E1000" /\ dsc.up /\ dsc.rxNext # dsc.rxTail
            /\ dsc' = [dsc EXCEPT !.rxBuf[dsc.rxNext] = id, !.done[dsc.rxNext] = TRUE,
                                  !.rxNext = (@ + 1) % RxCount]
            /\ arrived' = Append(arrived, id) /\ UNCHANGED harmed
         \/ /\ card = "RTL8139"
            /\ \E size \in PacketSizes, ok \in BOOLEAN :
                 /\ Used + size < RingLen /\ (ok \/ dsc.faults < MaxFaults)
                 /\ dsc' = Written(size, id, ok)
                 /\ arrived' = IF ok THEN Append(arrived, id) ELSE arrived
                 /\ harmed' = (harmed \/ Taken(size) \cap Copied # {})
      /\ UNCHANGED <<card, given, wire, most, received, tx>>

(* The link of the E1000 goes down or comes up.                              *)
LinkChange ==
  /\ card = "E1000" /\ dsc.faults < MaxFaults
  /\ dsc' = [dsc EXCEPT !.up = ~@, !.lsc = TRUE, !.faults = @ + 1]
  /\ UNCHANGED <<card, given, wire, most, arrived, received, harmed, tx>>

-----------------------------------------------------------------------------
HandUp(id) == received' = Append(received, id)

(* A PCNET buffer that is the driver's is read and given back.               *)
ReceivePcnet ==
  /\ card = "PCNET" /\ ~dsc.rxCards[dsc.rxId]
  /\ HandUp(dsc.rxBuf[dsc.rxId])
  /\ dsc' = [dsc EXCEPT !.rxCards[dsc.rxId] = TRUE, !.rxId = (@ + 1) % RxCount]

(* The tail of the E1000 is moved to the buffer that was read, so that one   *)
(* is always the driver's.                                                   *)
RxTail(id) == id

ReceiveE1000 ==
  /\ card = "E1000" /\ ~(dsc.lsc /\ ~dsc.up) /\ dsc.done[dsc.rxId]
  /\ HandUp(dsc.rxBuf[dsc.rxId])
  /\ dsc' = [dsc EXCEPT !.done[dsc.rxId] = FALSE, !.rxTail = RxTail(dsc.rxId),
                        !.rxId = (@ + 1) % RxCount, !.lsc = FALSE]

(* The link is asked to come up again, and nothing is read; or there is      *)
(* nothing to read.  Reading the causes of interrupts clears them.           *)
NothingE1000 ==
  /\ card = "E1000" /\ dsc.lsc
  /\ ~dsc.up \/ ~dsc.done[dsc.rxId]
  /\ dsc' = [dsc EXCEPT !.lsc = FALSE]
  /\ UNCHANGED received

(* In the RTL8139's driver the place is moved on, in 16 bits, before the     *)
(* packet is copied.                                                         *)
PlaceUnpadded(offset) == offset % RingLen
Place(offset) == ((offset % RingLen) - RingPad + Wrap) % Wrap

AdvanceRtl8139 ==
  /\ card = "RTL8139" /\ dsc.copy = <<0, 0>> /\ Used # 0
  /\ LET header == dsc.ring[ReadAt]
     IN  \/ /\ header[3]
            /\ dsc' = [dsc EXCEPT !.copy = <<ReadAt, header[2]>>, !.capr = Place(ReadAt + header[2])]
            /\ UNCHANGED arrived
         \/ /\ ~header[3]              \* all there is is passed over
            /\ dsc' = [dsc EXCEPT !.capr = Place(dsc.cba)]
            /\ arrived' = received
  /\ UNCHANGED received

CopyRtl8139 ==
  /\ card = "RTL8139" /\ dsc.copy # <<0, 0>>
  /\ LET first == dsc.ring[dsc.copy[1]]
     IN  HandUp(IF \A i \in Copied : dsc.ring[i] = first THEN first[1] ELSE Empty)
  /\ dsc' = [dsc EXCEPT !.copy = <<0, 0>>]
  /\ UNCHANGED arrived

receive_packet ==
  /\ \/ (ReceivePcnet \/ ReceiveE1000 \/ NothingE1000) /\ UNCHANGED arrived
     \/ AdvanceRtl8139 \/ CopyRtl8139
  /\ UNCHANGED <<card, given, wire, most, harmed, tx>>

(* The two directions share nothing but the card.                            *)
Sending == Fill \/ Transmit \/ Transmitted \/ Send
Receiving == Arrive \/ LinkChange \/ receive_packet

NicSafely == NicInit /\ [][Sending \/ Receiving]_nicVars

-----------------------------------------------------------------------------
(* What the stack hands over is sent once and in order, as long as fewer     *)
(* packets wait than there are buffers: the drivers take the next buffer     *)
(* whoever has it (pcnet.rs 303-328, e1000.rs 421-438, rtl8139.rs 307-336).  *)
(* What the card took in is handed up once and in order, round the rings and *)
(* past their ends; the RTL8139's driver gives a packet's room back before   *)
(* it has copied it, so there only if the card did not use it at once        *)
(* (pcnet.rs 265-301, e1000.rs 380-419, rtl8139.rs 271-305).                 *)
SentInOrder == most < TxCount => IsPrefix(wire, given)
HandedUpInOrder == ~harmed => IsPrefix(received, arrived)

(* While the stack asks and the card works, everything handed over is sent   *)
(* and everything that arrived is handed up: no buffer is left with the side *)
(* that does not know of it, nor lost when the link changes.                 *)
NothingStuck ==
  \A n \in 1..MaxPackets :
    /\ Len(given) >= n ~> (Len(wire) >= n \/ most >= TxCount)
    /\ Len(arrived) >= n ~> (Len(received) >= n \/ Len(arrived) < n)

(* Both: each packet comes through, once and in its turn.                    *)
Delivered == [](SentInOrder /\ HandedUpInOrder) /\ NothingStuck
=============================================================================
