------------------------------- MODULE Texts --------------------------------
(***************************************************************************)
(* The strings of the game's scripts (client/module/scripting.cpp), and    *)
(* what becomes of a player's name on its way from one script to another:  *)
(* narrowed, stored, cut to the array of a packet, kept by the server, cut *)
(* again, and widened.                                                     *)
(*                                                                         *)
(* Characters are numbers: a char has Byte values (256) and is signed, as  *)
(* MSVC's is, a wchar_t has Wide values (65536), the array of a packet     *)
(* holds Size chars (64).                                                  *)
(***************************************************************************)
EXTENDS Naturals, Sequences, SequencesExt

CONSTANTS Byte, Wide, Size

WidthsAssumption == /\ {Byte, Wide, Size} \subseteq Nat \ {0}
                    /\ Byte % 2 = 0
                    /\ Wide % Byte = 0 /\ Byte < Wide

-----------------------------------------------------------------------------
(* scripting::string: an array that ends with a zero, or is empty *)

Default == <<>>

\* From a view of wide characters.
OfView(text) == text \o <<0>>

\* static_cast<wchar_t> of a signed char.
Widened(c) == IF c < Byte \div 2 THEN c ELSE c + Wide - Byte

\* From a view of chars.
OfChars(text) == [i \in DOMAIN text |-> Widened(text[i])] \o <<0>>

ToView(s) == IF s = <<>> THEN <<>> ELSE Front(s)

\* static_cast<char> of a wchar_t, one by one.
Narrowed(s) == [i \in DOMAIN ToView(s) |-> ToView(s)[i] % Byte]

Equal(s, t) == Len(s) = Len(t) /\ s = t

EqualsView(s, text) ==
    \/ s = <<>> /\ text = <<>>
    \/ Len(s) = Len(text) + 1 /\ ToView(s) = text /\ Last(s) = 0

EqualsChars(s, text) ==
    \/ s = <<>> /\ text = <<>>
    \/ /\ Len(s) = Len(text) + 1
       /\ \A i \in DOMAIN text : s[i] = Widened(text[i])
       /\ Last(s) = 0

-----------------------------------------------------------------------------
(* Names *)

\* Up to the first zero: strlen, and strnlen for an array without one.
UpToZero(chars) ==
    LET zero == SelectInSeq(chars, LAMBDA c : c = 0)
    IN  IF zero = 0 THEN chars ELSE SubSeq(chars, 1, zero - 1)

Smaller(a, b) == IF a < b THEN a ELSE b

\* mutation: as much as fits, without a zero behind it
CopiedWhole(text) ==
    LET kept == Smaller(Len(UpToZero(text)), Size)
    IN  [i \in 1 .. Size |-> IF i <= kept THEN text[i] ELSE 0]

\* string::copy into an array of zeros.
Copied(text) ==
    LET kept == Smaller(Len(UpToZero(text)), Size - 1)
    IN  [i \in 1 .. Size |-> IF i <= kept THEN text[i] ELSE 0]

\* update_player_name and store_player_state: the array that is sent.
Sent(name) == Copied(Narrowed(name))

\* handle_player_state and send_state: the array that is broadcast.
Relayed(array) == Copied(UpToZero(array))

\* get_player_states: the string the other script gets.
Shown(array) == OfChars(UpToZero(array))

-----------------------------------------------------------------------------
(* Properties of texts *)

\* A string holds what it was made of, and is equal to that and to what was made
\* of the same, by each of the comparisons.  The one exception is the string that
\* was never set: it is empty, and not equal to one that was set to the empty
\* text (scripting.cpp:104-246).
StringsKeep(text, other) ==
    /\ ToView(OfView(text)) = text
    /\ EqualsView(OfView(text), other) <=> text = other
    /\ Equal(OfView(text), OfView(other)) <=> text = other
    /\ EqualsView(Default, text) <=> text = <<>>
    /\ ~Equal(Default, OfView(text))
    /\ LET chars == [i \in DOMAIN text |-> text[i] % Byte]
       IN  EqualsChars(OfChars(chars), chars) /\ Narrowed(OfChars(chars)) = chars

\* ASCII, and by the sign of a char the last characters there are.
Surviving == (1 .. Byte \div 2 - 1) \cup (Wide - Byte \div 2 .. Wide - 1)

\* Every other player sees the name, cut to what the array holds; the relay cuts
\* nothing more, also off an array that some client has filled to its end.  Other
\* characters than ASCII (and U+FF80 to U+FFFF) arrive as other ones, or end the
\* name (scripting_experiments.cpp:129-133, 365-379, server.cpp:128, 158).
NamesArrive(name, array) ==
    /\ Relayed(Sent(OfView(name))) = Sent(OfView(name))
    /\ IsPrefix(UpToZero(Relayed(array)), UpToZero(array))
    /\ Last(Relayed(array)) = 0
    /\ LET shown == ToView(Shown(Relayed(Sent(OfView(name)))))
       IN  IF ToSet(name) \subseteq Surviving
           THEN shown = SubSeq(name, 1, Smaller(Len(name), Size - 1))
           ELSE shown # name
=============================================================================
