-------------------------------- MODULE SdkPackets --------------------------------
(***************************************************************************)
(* How the user-mode SDK cuts a command and its payload into packets       *)
(* (sendCommandToDisplayEndpoint in rpusbdisp.cc): the packets are written *)
(* one after the other into a transfer buffer whose size was computed in   *)
(* advance, each one the command byte followed by the next bytes.          *)
(***************************************************************************)
EXTENDS Integers, Sequences

CONSTANT maxPacketSize_  \* wMaxPacketSize of the display endpoint

ASSUME PacketAssumption == maxPacketSize_ \in Nat \ {0, 1}

packetCount(totalSize) == (totalSize - 1 + maxPacketSize_ - 1) \div (maxPacketSize_ - 1)

(* The first byte of every packet but the first is the command byte again. *)
transferBufferSize(totalSize) == totalSize + packetCount(totalSize) - 1

packetOffset(packetIndex) == packetIndex * (maxPacketSize_ - 1) + 1

(* Mutant of payloadSize: the last packet is not cut short.                *)
payloadSizeUnclamped(totalSize, packetIndex) == maxPacketSize_ - 1

(* The size of the last packet is what is left of the command.             *)
payloadSize(totalSize, packetIndex) ==
  IF maxPacketSize_ - 1 > totalSize - packetOffset(packetIndex)
  THEN totalSize - packetOffset(packetIndex) ELSE maxPacketSize_ - 1

transferBufferOffset(packetIndex) == packetIndex * maxPacketSize_

(* A buffer holds byte i of the command as i, its first byte as 0.         *)
CommandByte == 0
Unwritten == -1

(* One round of the loop over the packets.                                 *)
WritePacket(buffer, totalSize, packetIndex) ==
  LET offset == transferBufferOffset(packetIndex)
  IN  [i \in DOMAIN buffer |->
         IF i = offset + 1 THEN CommandByte
         ELSE IF i - offset - 1 \in 1..payloadSize(totalSize, packetIndex)
              THEN packetOffset(packetIndex) + (i - offset - 2)
              ELSE buffer[i]]

transferBuffer(totalSize) ==
  LET written[n \in 0..packetCount(totalSize)] ==
        IF n = 0 THEN [i \in 1..transferBufferSize(totalSize) |-> Unwritten]
        ELSE WritePacket(written[n - 1], totalSize, n - 1)
  IN  written[packetCount(totalSize)]

(* What the device makes of a buffer: it arrives in packets of             *)
(* maxPacketSize_ bytes, each with a command byte in front.                *)
FirstOfPacket(i) == i % maxPacketSize_ = 1

Received(buffer) ==
  LET Rest == {i \in DOMAIN buffer : ~FirstOfPacket(i)}
      after(i) == i - ((i - 1) \div maxPacketSize_) - 1
  IN  [n \in {after(i) : i \in Rest} |-> buffer[CHOOSE i \in Rest : after(i) = n]]

=============================================================================
