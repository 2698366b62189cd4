------------------------------ MODULE RtcmParser ------------------------------
(***************************************************************************)
(* RTCMParser of ntrip_client: cuts the bytes of a TCP stream, as they     *)
(* come in pieces, into RTCM packets.                                      *)
(*                                                                         *)
(* A unit of the stream is its position in what the caster sends, a whole  *)
(* number of packets of PacketSize units: preamble, length, payload and    *)
(* checksum.  The payload reads as a preamble whose length is that of a    *)
(* packet too, so a scan that is out of step meets packets that are none.  *)
(***************************************************************************)
EXTENDS Integers, Sequences, Functions

CONSTANTS
  PacketSize,   \* units of a packet (message_length + 6)
  HeaderSize,   \* units that must be there before the length is known
  BufferMax     \* _MAX_BUFFER_SIZE

ASSUME ParserAssumption == HeaderSize >= 1 /\ PacketSize >= HeaderSize + 2 /\ BufferMax \in Nat

PacketOf(u) == ((u - 1) \div PacketSize) + 1
FirstOf(p)  == (p - 1) * PacketSize + 1
LastOf(p)   == p * PacketSize

Place(u) == ((u - 1) % PacketSize) + 1

\* combined_buffer[index] == _RTCM_3_2_PREAMBLE: a true one, or a payload that looks like one
IsPreamble(u) == Place(u) \in {1, HeaderSize + 1}

\* the checksum agrees for what was sent as one packet, and for nothing else
Intact(packet) == \A i \in 1..PacketSize : packet[i] = FirstOf(PacketOf(packet[1])) + i - 1

NewParser == [caching |-> FALSE, buffer |-> <<>>]

\* the locals of parse(): combined_buffer, index, rtcm_packets, buffer, and the two attributes
Scans == [combined : Seq(Nat), index : Nat, packets : Seq(Nat), data : Seq(Nat),
          caching : BOOLEAN, buffer : Seq(Nat)]

\* a valid packet: it is returned, and cut from the cache, from its second unit on
FoundPacket(st) ==
  [st EXCEPT !.packets = Append(@, PacketOf(st.combined[st.index])), !.index = @ + PacketSize,
             !.caching = FALSE, !.buffer = SubSeq(@, PacketSize, Len(@))]

\* not even a length: the loop ends, and only data[index:] is kept, though index counts from the
\* start of the cache
NoLength(st) ==
  [st EXCEPT !.index = Len(st.combined) + 1, !.caching = TRUE,
             !.data = SubSeq(@, st.index, Len(@))]

\* the loop of parse()
Loop[st \in Scans] ==
  LET left == Len(st.combined) - st.index + 1
  IN  CASE left = 0 -> st
        [] left > 0 /\ ~IsPreamble(st.combined[st.index]) -> Loop[[st EXCEPT !.index = @ + 1]]
        [] left > 0 /\ IsPreamble(st.combined[st.index]) ->
             IF left < HeaderSize THEN NoLength(st)
             ELSE IF left < PacketSize THEN Loop[[st EXCEPT !.index = @ + 1, !.caching = TRUE]]
             ELSE IF Intact(SubSeq(st.combined, st.index, st.index + PacketSize - 1))
                  THEN Loop[FoundPacket(st)]
             ELSE Loop[[st EXCEPT !.index = @ + 1]]

\* Mutant: only the last piece is kept.
OnlyLastPiece(st) == IF st.caching THEN st.data ELSE st.buffer

\* what is kept for the next call, cut at the limit
Cached(st) ==
  LET all == st.buffer \o st.data
  IN  IF ~st.caching THEN st.buffer
      ELSE SubSeq(all, 1, IF Len(all) > BufferMax THEN BufferMax ELSE Len(all))

\* parse(data): the packets it returns and the parser it leaves
Parse(parser, data) ==
  LET st == Loop[[combined |-> IF parser.caching THEN parser.buffer \o data ELSE data,
                  index |-> 1, packets |-> <<>>, data |-> data,
                  caching |-> parser.caching, buffer |-> parser.buffer]]
  IN  [packets |-> st.packets, parser |-> [caching |-> st.caching, buffer |-> Cached(st)]]
===============================================================================
