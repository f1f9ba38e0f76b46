------------------------------ MODULE Packets -------------------------------
(***************************************************************************)
(* How a command gets from one process into a handler of another: what the *)
(* serializer writes (common/utils/byte_buffer.hpp), the line that         *)
(* manager::send puts around it, what receive makes of the datagram, how   *)
(* handle_data finds the command again, and how the handler reads it.      *)
(*                                                                         *)
(* Bytes are numbers, and the numbers that a payload holds are also those  *)
(* of the separators.  A uint32 is written as Word digits to the base      *)
(* Base; an element of a vector (a game::player of 176 bytes) is Item      *)
(* bytes.                                                                  *)
(***************************************************************************)
EXTENDS Naturals, Sequences, SequencesExt

CONSTANTS Base, Item

SizesAssumption == Base \in Nat /\ Base >= 2 /\ Item \in Nat \ {0}

Space == 2
Newline == 3
Small == 4          \* a letter of a command, and the same in upper case
Large == 5
Mark == 9           \* 0xFF

Word == 2
Protocol == 1

-----------------------------------------------------------------------------
(* buffer_serializer *)

Encode(n) == <<n % Base, (n \div Base) % Base>>

Decode(bytes) == bytes[1] + bytes[2] * Base

\* write_string and write_vector count elements, write does not count.
Written(kind, bytes) ==
    CASE kind = "plain"  -> bytes
      [] kind = "string" -> Encode(Len(bytes)) \o bytes
      [] kind = "vector" -> Encode(Len(bytes) \div Item) \o bytes

\* What a message has behind the protocol: the guid of a kill or a player's
\* state; the players of a snapshot; a challenge; a key and a signature.
Layout == [state |-> <<"plain">>, states |-> <<"vector">>,
           authRequest |-> <<"string">>, authResponse |-> <<"string", "string">>]

\* Only an authResponse has a second part.
Serialized(message) ==
    LET Part(i) == Written(Layout[message.kind][i], message.fields[i])
    IN  Encode(message.protocol) \o Part(1)
        \o IF Len(Layout[message.kind]) = 2 THEN Part(2) ELSE <<>>

-----------------------------------------------------------------------------
(* buffer_deserializer: a read that does not fit throws *)

Reader(buffer) == [buffer |-> buffer, offset |-> 0, fields |-> <<>>, thrown |-> FALSE]

Thrown(r) == [r EXCEPT !.thrown = TRUE]

\* mutation: one byte behind the end can be read (and is 0)
ReadOneTooFar(r, n) ==
    IF r.thrown \/ r.offset + n > Len(r.buffer) + 1
    THEN Thrown(r)
    ELSE [r EXCEPT !.offset = @ + n,
                   !.fields = Append(@, SubSeq(r.buffer \o <<0>>, r.offset + 1, r.offset + n))]

Read(r, n) ==
    IF r.thrown \/ r.offset + n > Len(r.buffer)
    THEN Thrown(r)
    ELSE [r EXCEPT !.offset = @ + n,
                   !.fields = Append(@, SubSeq(r.buffer, r.offset + 1, r.offset + n))]

\* The count first; it is not a field of its own.
ReadCounted(r, unit) ==
    LET count == Read(r, Word)
    IN  IF count.thrown
        THEN count
        ELSE Read([count EXCEPT !.fields = r.fields], Decode(Last(count.fields)) * unit)

ReadKind(r, kind) ==
    CASE kind = "plain"  -> Read(r, Item)
      [] kind = "string" -> ReadCounted(r, 1)
      [] kind = "vector" -> ReadCounted(r, Item)

\* What a handler acts on: nothing when it throws (dispatch_command catches it)
\* or when the protocol is another.
Understood(kind, data) ==
    LET first == ReadKind(Read(Reader(data), Word), Layout[kind][1])
        r == IF Len(Layout[kind]) = 2 THEN ReadKind(first, Layout[kind][2]) ELSE first
    IN  IF r.thrown \/ Decode(Head(r.fields)) # Protocol
        THEN {}
        ELSE {[kind |-> kind, protocol |-> Protocol, fields |-> Tail(r.fields)]}

-----------------------------------------------------------------------------
(* manager *)

Magic == <<Mark, Mark, Mark, Mark>>

Lower(command) == [i \in DOMAIN command |-> IF command[i] = Large THEN Small ELSE command[i]]

Framed(command, separator, data) == Magic \o command \o <<separator>> \o data

Divider(buffer) == {SelectInSeq(buffer, LAMBDA b : b \in {Space, Newline})} \ {0}

\* handle_data: the command and the data it looks up a callback for.
Handled(packet) ==
    IF Len(packet) < Len(Magic) + 1 \/ ~IsPrefix(Magic, packet)
    THEN {}
    ELSE LET buffer == SubSeq(packet, Len(Magic) + 1, Len(packet))
         IN  {[command |-> Lower(SubSeq(buffer, 1, d - 1)),
               data |-> SubSeq(buffer, d + 1, Len(buffer))] : d \in Divider(buffer) \ {1}}

-----------------------------------------------------------------------------
(* socket: one call of receive for one datagram *)

BufferSize == 8192       \* 0x2000

\* How many bytes of a datagram arrive: recvfrom cuts what does not fit (Linux)
\* or fails (Windows).
Received(length, windows) ==
    IF length <= BufferSize THEN {length}
    ELSE IF windows THEN {} ELSE {BufferSize}

\* The bytes of a snapshot of n players as they are on the wire: the magic, the
\* command and its separator, the protocol, the count, the players.
SnapshotSize(n) == 4 + 7 + 4 + 4 + 176 * n

-----------------------------------------------------------------------------
(* Properties of one message *)

\* What handle_data hands on is what was sent, whatever bytes the data consists
\* of, separators too; and it hands on nothing but what send can have put
\* together (manager.cpp:69-97, 156-164).
HandsOnExactly(packet) ==
    /\ \A h \in Handled(packet) :
          \E k \in 1 .. Len(packet), s \in {Space, Newline} :
             LET command == SubSeq(packet, Len(Magic) + 1, k)
             IN  /\ packet = Framed(command, s, h.data)
                 /\ h.command = Lower(command)
                 /\ {Space, Newline} \cap ToSet(command) = {}
    /\ \A k \in Len(Magic) + 1 .. Len(packet) - 1 :
          LET command == SubSeq(packet, Len(Magic) + 1, k)
          IN  /\ IsPrefix(Magic, packet)
              /\ {Space, Newline} \cap ToSet(command) = {}
              /\ packet[k + 1] \in {Space, Newline}
              => Handled(packet) =
                    {[command |-> Lower(command),
                      data |-> SubSeq(packet, k + 2, Len(packet))]}

\* What the code writes: a part has the length that is written in front of it.
Sizes == 0 .. Base * Base - 1

Fits(kind, bytes) ==
    CASE kind = "plain"  -> Len(bytes) = Item
      [] kind = "string" -> Len(bytes) \in Sizes
      [] kind = "vector" -> Len(bytes) % Item = 0 /\ Len(bytes) \div Item \in Sizes

IsMessage(message) ==
    /\ message \in [kind : DOMAIN Layout, protocol : Sizes, fields : Seq(Seq(Nat))]
    /\ Len(message.fields) = Len(Layout[message.kind])
    /\ \A i \in DOMAIN message.fields : Fits(Layout[message.kind][i], message.fields[i])

\* A message arrives as it was written or not at all: every datagram that was
\* cut short, at whatever byte, is dropped by the handler's reads, and one that
\* was not is read back exactly (byte_buffer.hpp:32-97).
WholeOrNotAtAll(message) ==
    LET packet == Framed(<<Small>>, Space, Serialized(message))
    IN  \A length \in 0 .. Len(packet) :
           LET read == UNION {Understood(message.kind, h.data) :
                                 h \in Handled(SubSeq(packet, 1, length))}
           IN  read = IF length = Len(packet) /\ message.protocol = Protocol
                      THEN {message}
                      ELSE {}

\* A snapshot is one datagram: with up to 46 authenticated players it arrives
\* whole, with 47 nobody is updated for as long as there are so many
\* (socket.cpp:87, server.cpp:162-172).
UpTo46(n) ==
    \A windows \in BOOLEAN :
       SnapshotSize(n) \in Received(SnapshotSize(n), windows) <=> n <= 46
=============================================================================
