----------------------------- MODULE Signatures -----------------------------
(***************************************************************************)
(* The search for a pattern of bytes in an image (utils::hook::signature,  *)
(* common/utils/signature.cpp): the pattern is parsed from a text, and the *)
(* image is searched byte by byte or 16 bytes at a time, by one thread or  *)
(* by several that share it.                                               *)
(*                                                                         *)
(* A digit is below Radix and a byte has two of them; Lane is 16, and      *)
(* Enough the 10 positions for each core that are worth more threads.      *)
(***************************************************************************)
EXTENDS Integers, Sequences, FiniteSetsExt

CONSTANTS Radix, Lane, Enough

SearchAssumption == Radix \in Nat \ {0} /\ Lane \in Nat /\ Enough \in Nat

\* Characters that are no digits.
Wild == -1
Space == -2

-----------------------------------------------------------------------------
(* load_pattern; mask and pattern are one sequence, of bytes and Wild. *)

Begun == [pattern |-> <<>>, nibble |-> <<>>]

\* A digit waits for the next one, across spaces and wildcards.
ReadCharacter(parsed, c) ==
    CASE c = Space -> parsed
      [] c = Wild  -> [parsed EXCEPT !.pattern = Append(@, Wild)]
      [] OTHER     ->
            IF parsed.nibble = <<>>
            THEN [parsed EXCEPT !.nibble = <<c>>]
            ELSE [pattern |-> Append(parsed.pattern, parsed.nibble[1] * Radix + c),
                  nibble |-> <<>>]

Trimmed(pattern) ==
    SubSeq(pattern, 1, Max({0} \cup {i \in DOMAIN pattern : pattern[i] # Wild}))

\* The pattern, or none if the text is not one.
LoadPattern(text) ==
    LET read[n \in 0 .. Len(text)] ==
            IF n = 0 THEN Begun ELSE ReadCharacter(read[n - 1], text[n])
    IN  IF /\ \A i \in DOMAIN text : text[i] \in {Wild, Space} \cup 0 .. Radix - 1
           /\ read[Len(text)].nibble = <<>>
        THEN {Trimmed(read[Len(text)].pattern)}
        ELSE {}

-----------------------------------------------------------------------------
(* process; image positions count from 0 *)

HasSseSupport(pattern, cpu) == Len(pattern) <= Lane /\ cpu

\* What one look at a position must be able to read.
Reads(pattern, cpu) == IF HasSseSupport(pattern, cpu) THEN Lane ELSE Len(pattern)

\* Both loops compare what the mask names.
Matches(pattern, image, position) ==
    \A j \in DOMAIN pattern : pattern[j] \in {Wild, image[position + j]}

ProcessRange(pattern, image, start, length) ==
    {position \in start .. start + length - 1 : Matches(pattern, image, position)}

\* Half of the cores share the positions; the last has what remains.
Larger(a, b) == IF a > b THEN a ELSE b

Threads(cores) == Larger(1, cores \div 2)

\* mutation: the last thread has no more than the others
LengthEqual(range, threads, i) == range \div threads

Length(range, threads, i) ==
    IF i = threads - 1 THEN range - (range \div threads) * i ELSE range \div threads

ProcessParallel(pattern, image, cpu, cores) ==
    LET range == Len(image) - Reads(pattern, cpu)
        n == Threads(cores)
    IN  [i \in 1 .. n |->
            ProcessRange(pattern, image, (range \div n) * (i - 1), Length(range, n, i - 1))]

ProcessSerial(pattern, image, cpu) ==
    <<ProcessRange(pattern, image, 0, Len(image) - Reads(pattern, cpu))>>

\* What each thread finds; the result has all of it, sorted.
Process(pattern, image, cpu, cores) ==
    IF Len(image) - Len(pattern) <= cores * Enough
    THEN ProcessSerial(pattern, image, cpu)
    ELSE ProcessParallel(pattern, image, cpu, cores)

-----------------------------------------------------------------------------
(* Property *)

Token == {Wild} \cup 0 .. (Radix * Radix) - 1

\* The text is the tokens, each from its first character to its last one, with any
\* spaces between.
Spells(text, tokens, first, last) ==
    /\ \A i \in DOMAIN tokens :
          /\ {first[i], last[i]} \subseteq DOMAIN text
          /\ tokens[i] = Wild => first[i] = last[i] /\ text[first[i]] = Wild
          /\ tokens[i] # Wild =>
                /\ first[i] < last[i]
                /\ text[first[i]] = tokens[i] \div Radix
                /\ text[last[i]] = tokens[i] % Radix
          /\ i > 1 => last[i - 1] < first[i]
    /\ \A k \in DOMAIN text :
          text[k] = Space \/ \E i \in DOMAIN tokens : k \in {first[i], last[i]}

IsSearch(search) ==
    /\ search.text \in Seq(Int) /\ search.tokens \in Seq(Token) /\ search.image \in Seq(Nat)
    /\ Spells(search.text, search.tokens, search.first, search.last)

\* A text is loaded however it is spelled, but not with half a byte more.  What is
\* found in an image are places where all bytes that the text names are as they
\* should be, each once, whatever the number of threads.  Byte by byte these are all
\* such places but one, that whose last named byte is the image's last; and 16 bytes
\* at a time no other one is missed from which a lane and more are left.  An image
\* shorter than one look is no input: its length would underflow, and the search
\* leave the image (signature.cpp:12-203).
FindsEach(text, tokens, image, cores) ==
    LET named == {j \in DOMAIN tokens : tokens[j] # Wild}
        sought == {p \in 0 .. Len(image) - 1 :
                      \A j \in named : p + j <= Len(image) /\ image[p + j] = tokens[j]}
        inside == {p \in sought : \A j \in named : p + j # Len(image)}
    IN  /\ LoadPattern(text) # {}
        /\ LoadPattern(Append(text, 0)) = {}
        /\ \A pattern \in LoadPattern(text), cpu \in BOOLEAN :
              Len(image) >= Reads(pattern, cpu) =>
                 LET found == Process(pattern, image, cpu, cores)
                     all == UNION {found[i] : i \in DOMAIN found}
                 IN  /\ all \subseteq inside
                     /\ \A p \in inside : (cpu => p + Lane < Len(image)) => p \in all
                     /\ \A i, j \in DOMAIN found : i # j => found[i] \cap found[j] = {}
=============================================================================
