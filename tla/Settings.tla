------------------------------ MODULE Settings ------------------------------
(***************************************************************************)
(* properties.json: what the client remembers from one start to the next   *)
(* (common/utils/properties.cpp), as game_path.cpp and the player's name   *)
(* (scripting_experiments.cpp) use it.                                     *)
(*                                                                         *)
(* The document keeps no copy of a key or a text it is given: rapidjson's  *)
(* Value(chars, length) and SetString(chars, length) refer to the caller's *)
(* characters, which are gone when set has returned.  What is then found   *)
(* in their place is anybody's: each time they are read they may be what   *)
(* they were or something else.  What is parsed from the file is copied.   *)
(***************************************************************************)
EXTENDS Naturals, Sequences, SequencesExt

CONSTANTS
    Texts,      \* the values that are set
    Working,    \* those of them that are a path with the game in it
    MaxMembers  \* bound: members of the document

TextAssumption == Working \subseteq Texts

VARIABLES
    file,       \* the members in the file
    document,   \* the members in memory, each with what it borrows
    phase,      \* what the process does
    meant,      \* name -> what was last set, by any process, or None
    here,       \* the names this process has set; all, if it could not read the file
    lost        \* history: the names whose setting the file need not have any more

vars == <<file, document, phase, meant, here, lost>>

None == "none"
Other == "other"        \* any other characters

Names == {"game_path", "player_name"}

Member == [name : Names \cup {Other}, text : Texts \cup {Other}]

Held == [name : Names \cup {Other}, text : Texts \cup {Other},
         key : {"own", "borrowed"}, value : {"own", "borrowed"}]

TypeOK ==
    /\ file \in Seq(Member)
    /\ document \in Seq(Held)
    /\ phase \in {"off", "start", "run"}
    /\ meant \in [Names -> Texts \cup {None}]
    /\ here \subseteq Names
    /\ lost \subseteq Names

Init ==
    /\ file = <<>>
    /\ document = <<>>
    /\ phase = "off"
    /\ meant = [n \in Names |-> None]
    /\ here = {}
    /\ lost = {}

-----------------------------------------------------------------------------
(* utils::properties *)

\* mutation: the parser keeps no copies either
LoadInPlace(members) ==
    [i \in DOMAIN members |-> members[i] @@ [key |-> "borrowed", value |-> "borrowed"]]

\* The constructor; a file that is no object is as good as none.
Load(members) == [i \in DOMAIN members |-> [name |-> members[i].name, text |-> members[i].text,
                                            key |-> "own", value |-> "own"]]

\* What may be read of the document now.
Readings(members) ==
    LET Names1(m) == IF m.key = "own" THEN {m.name} ELSE {m.name, Other}
        Texts1(m) == IF m.value = "own" THEN {m.text} ELSE {m.text, Other}
    IN  {r \in [DOMAIN members -> Member] :
            \A i \in DOMAIN members : /\ r[i].name \in Names1(members[i])
                                      /\ r[i].text \in Texts1(members[i])}

\* FindMember: 0 when there is none.
Find(read, name) == SelectInSeq(read, LAMBDA m : m.name = name)

Get(read, name) == IF Find(read, name) = 0 THEN None ELSE read[Find(read, name)].text

\* create_member and SetString: the document then, and what save sees of it.
\* While the call lasts, what the caller has passed is there.
Put(read, name, text) ==
    LET i == Find(read, name)
        given == [name |-> name, text |-> text]
        kept == [name |-> name, text |-> text, key |-> "borrowed", value |-> "borrowed"]
    IN  IF i = 0
        THEN [document |-> Append(document, kept), saved |-> Append(read, given)]
        ELSE [document |-> [document EXCEPT ![i].text = text, ![i].value = "borrowed"],
              saved |-> [read EXCEPT ![i].text = text]]

\* What becomes of the file, to which save pays no attention: it is written, or
\* cannot be opened, or is truncated and then not written to the end, which leaves
\* nothing that can be parsed, while the process goes on or because it ends.
Outcomes == {"written", "refused", "short", "ended"}

\* What a process has set before it writes from characters that are gone, and what
\* it could not read it does not write.
NowLost(name, outcome) ==
    CASE outcome = "written" -> (lost \cup here) \ {name}
      [] outcome = "refused" -> lost \cup {name}
      [] OTHER -> Names

Set(name, text) ==
    /\ Len(document) < MaxMembers
    /\ \E read \in Readings(document), outcome \in Outcomes :
          LET put == Put(read, name, text)
          IN  /\ document' = IF outcome = "ended" THEN <<>> ELSE put.document
              /\ file' = CASE outcome = "written" -> put.saved
                           [] outcome = "refused" -> file
                           [] OTHER -> <<>>
              /\ phase' = IF outcome = "ended" THEN "off" ELSE "run"
              /\ lost' = NowLost(name, outcome)
    /\ meant' = [meant EXCEPT ![name] = text]
    /\ here' = here \cup {name}

-----------------------------------------------------------------------------
(* The client *)

\* A file that cannot be opened now, though it is there, is as good as none.
StartProcess ==
    /\ phase = "off"
    /\ phase' = "start"
    /\ \/ document' = Load(file) /\ here' = {}
       \/ document' = Load(<<>>) /\ here' = Names
    /\ UNCHANGED <<file, meant, lost>>

\* The program lies in the game's folder, or the stored path works.
PathKnown ==
    /\ phase = "start"
    /\ phase' = "run"
    /\ UNCHANGED <<file, document, meant, here, lost>>

\* set_witcher_path: the user is asked; a path that does not work, or none, ends
\* the start before anything is stored.
AskForPath ==
    /\ phase = "start"
    /\ \E read \in Readings(document) : Get(read, "game_path") \notin Working
    /\ \E path \in Working : Set("game_path", path)

\* load_player_name
NameDefault ==
    /\ phase = "run"
    /\ \E read \in Readings(document) : Get(read, "player_name") = None
    /\ \E name \in Texts : Set("player_name", name)

\* update_player_name
Rename ==
    /\ phase = "run"
    /\ \E name \in Texts : Set("player_name", name)

\* The user gives up, or the process ends, in whatever way.
End ==
    /\ phase # "off"
    /\ phase' = "off"
    /\ document' = <<>>
    /\ UNCHANGED <<file, meant, here, lost>>

Next == StartProcess \/ PathKnown \/ AskForPath \/ NameDefault \/ Rename \/ End

Spec == Init /\ [][Next]_vars

-----------------------------------------------------------------------------
(* Property *)

\* A setting is in the file as it was last set, by whatever process, unless since
\* then the process that set it has set another one, which writes the first from
\* characters that are gone (a first start that asks for the path and then stores a
\* name), or its own write was refused, or a write since then, its own included, has
\* truncated the file and not filled it, or was of a process that could not read the
\* file (properties.cpp:11-44, 108-117; io.cpp:28-45).
SettingsKept == \A n \in Names \ lost : Get(file, n) = meant[n]
=============================================================================
