------------------------------- MODULE MCData -------------------------------
(* Small sets of inputs for module Data. *)
EXTENDS Data, FiniteSets, FiniteSetsExt, SequencesExt, TLC

Upto(S, n) == UNION {[1 .. k -> S] : k \in 0 .. n}

-----------------------------------------------------------------------------
(* Packets *)

Payload == 0 .. Base - 1

Fields(kind) ==
    CASE kind = "state"  -> {<<f>> : f \in [1 .. Item -> Payload]}
      [] kind = "states" -> {<<f>> : f \in {g \in Upto(Payload, 4) : Len(g) % Item = 0}}
      [] kind = "authRequest"  -> {<<f>> : f \in Upto(Payload, 3)}
      [] kind = "authResponse" -> Upto(Payload, 1) \X Upto(Payload, 2)

MCMessages == UNION {[kind : {kind}, protocol : {W!Protocol, W!Protocol + 1}, fields : Fields(kind)] :
                      kind \in DOMAIN W!Layout}

MCLines == {W!Magic \o rest : rest \in Upto({0, W!Space, W!Newline, W!Small, W!Large}, 4)}
           \cup Upto({W!Mark, W!Space, W!Small}, 5)

MCPlayers == 0 .. 60

-----------------------------------------------------------------------------
(* Addresses *)

Server6 == [family |-> "v6", ip |-> <<"2001", "", "1">>, port |-> 0, scope |-> 0]
Server4 == [family |-> "v4", ip |-> <<10, 0, 0, 1>>, port |-> 0, scope |-> 0]
Local6  == [family |-> "v6", ip |-> <<"fe80", "", "1">>, port |-> 0, scope |-> 1]

MCWords == {"2001", "", "1", "fe80", "server", "relay", "10.0.0.1", "10.0.0.2"}

MCKnown == <<"server">> :> <<Server6, Server4>>
           @@ <<"10.0.0.1">> :> <<Server4>>
           @@ <<"10.0.0.2">> :> <<[Server4 EXCEPT !.ip = <<10, 0, 0, 2>>]>>
           @@ <<"fe80", "", "1">> :> <<Local6>>
           @@ <<"relay">> :> <<Server4>>

MCNumbers == {0, 1, 28960, 65535, 65537}
MCDecimal == [n \in MCNumbers |-> ToString(n)]
MCIpv4Text == <<10, 0, 0, 1>> :> "10.0.0.1" @@ <<10, 0, 0, 2>> :> "10.0.0.2"

MCEndpoints ==
    {A!Unspecified, A!SetIpv4(<<10, 0, 0, 1>>)}
    \cup [family : {"v4"}, ip : {<<10, 0, 0, 1>>, <<10, 0, 0, 2>>}, port : {1, 28960}, scope : {0}]
    \cup [family : {"v6"}, ip : {Server6.ip, Local6.ip}, port : {1, 28960}, scope : {0, 1}]

MCSomewhere == [family : {"v4"}, port : {28960}, scope : {0},
                ip : {9, 10, 11, 127, 172, 192} \X {0, 15, 16, 31, 32, 167, 168, 169} \X {0, 255}
                     \X {0, 1, 2}]

-----------------------------------------------------------------------------
(* Texts *)

MCStrings == Upto({1, 5, 61}, 3)
MCWideNames == Upto({1, 2, 5, 8, 9, 61}, 4)
MCArrays == {<<1, 0, 1, 0>>, <<1, 1, 1, 1>>, <<0, 1, 1, 1>>}

-----------------------------------------------------------------------------
(* Files *)

MCFileNames == {"w3m.exe", "old.txt", "user", "save", "data", "a", "x", "b", "c", "bin", "d", "e",
                "database", "f"}

PossibleFiles == {<<"w3m.exe">>, <<"old.txt">>, <<"user", "save">>, <<"data", "a">>,
                  <<"data", "x", "b">>, <<"data", "x", "c">>, <<"bin", "d">>}

Directories(files) ==
    UNION {{SubSeq(f, 1, n) : n \in 1 .. Len(f) - 1} : f \in files}

\* Some have a folder of the user, some an empty folder in data.
MCFolders == {[files |-> fs, directories |-> Directories(fs \cup more) \cup more] :
                 fs \in SUBSET PossibleFiles,
                 more \in SUBSET {<<"user">>, <<"data", "e">>}}

MCLists == {l \in SUBSET {<<"w3m.exe">>, <<"data", "a">>, <<"data", "x", "b">>, <<"data", "e">>,
                          <<"bin", "d">>, <<"database", "f">>} : Cardinality(l) <= 3}

MCPieces == {"w", "z", "v", "p", "my", "a", "s", "o", "q", "/", "scripts"}
Root == <<"w">>
Nested == <<"w">> \o O!Separator \o <<"z">>
Names == {<<"p">>, <<"my", "p">>, <<"a", "/", "p">>, <<"s">> \o O!Separator \o <<"p">>}

MCRoots == {Root, Nested, <<"v">>, <<"w", "/", "scripts">>}
MCOwn == {<<<<"o", "/">> \o n, <<"q">>>> : n \in Names}
MCCustom == Upto(Names, 2)

-----------------------------------------------------------------------------
(* Patches *)

\* A text of tokens with so many spaces in a byte and so many behind each token.
Search(tokens, within, behind, image) ==
    LET width(token) == behind + IF token = G!Wild THEN 1 ELSE 2 + within
        first == [i \in DOMAIN tokens |-> FoldLeft(LAMBDA sum, token : sum + width(token), 1,
                                                  SubSeq(tokens, 1, i - 1))]
        last == [i \in DOMAIN tokens |-> first[i] + width(tokens[i]) - behind - 1]
        ends == {0} \cup {last[i] + behind : i \in DOMAIN tokens}
    IN  [text |-> [k \in 1 .. Max(ends) |->
                      IF \E i \in DOMAIN tokens : k = first[i]
                      THEN LET i == CHOOSE i \in DOMAIN tokens : k = first[i]
                           IN  IF tokens[i] = G!Wild THEN G!Wild ELSE tokens[i] \div Radix
                      ELSE IF \E i \in DOMAIN tokens : k = last[i]
                           THEN tokens[CHOOSE i \in DOMAIN tokens : k = last[i]] % Radix
                           ELSE G!Space],
         tokens |-> tokens, first |-> first, last |-> last, image |-> image]

\* Patterns as long as a lane, shorter and longer, in images with and without.
Patterns == Upto({0, 3, G!Wild}, 3) \cup {<<1, 2, G!Wild, 3, 0>>}
Images == {[i \in 1 .. n |-> base[(i % 4) + 1]] :
              n \in 4 .. 11, base \in {<<0, 3, 0, 0>>, <<3, 3, 3, 3>>, <<1, 0, 3, 3>>}}
          \cup {<<1, 2, 0, 3, 0, 1, 2, 3, 3, 0, 1, 2, 1, 3, 0>>}

MCSearches == {Search(tokens, s[1], s[2], image) :
                 tokens \in Patterns, s \in {<<0, 0>>, <<0, 1>>, <<2, 1>>}, image \in Images}

\* A stack of sixty words, with the pointer at an even or an odd one.
MCMachines ==
    {X!Machine([r \in X!Registers |-> IF r = "rsp" THEN rsp
                                      ELSE 100 + SelectInSeq(X!PushAq, LAMBDA g : g = r)],
               [a \in 1 .. 60 |-> 200 + a]) : rsp \in {22, 50, 51, 61}}
=============================================================================
