------------------------------- MODULE Owners -------------------------------
(***************************************************************************)
(* Who gives back what the system, the crypto library or the heap has      *)
(* given: the classes whose objects hold such resources, and whose copies, *)
(* moves and destructors are written by hand.  What a class can do is a    *)
(* record of its own; the actions are what the objects of all of them do.  *)
(***************************************************************************)
EXTENDS Naturals

CONSTANTS
    Object,         \* the variables of the program
    ClassOf,        \* object -> the name of its class
    Resource        \* bound: all that is ever given

VARIABLES
    held,       \* object -> the resources it holds
    alive,      \* the objects that are constructed
    given,      \* resource -> the class it was given to, or None
    released,   \* resource -> how often it was given back
    overwritten \* the resources whose place another one has taken

vars == <<held, alive, given, released, overwritten>>

None == "none"

ClassNames == {"handle", "registry key", "key", "socket", "action", "pool"}

ClassAssumption == ClassOf \in [Object -> ClassNames]

TypeOK ==
    /\ held \in [Object -> SUBSET Resource]
    /\ alive \subseteq Object
    /\ given \in [Resource -> ClassNames \cup {None}]
    /\ released \in [Resource -> 0 .. 2]
    /\ overwritten \subseteq Resource

Init ==
    /\ held = [o \in Object |-> {}]
    /\ alive = {}
    /\ given = [r \in Resource |-> None]
    /\ released = [r \in Resource |-> 0]
    /\ overwritten = {}

-----------------------------------------------------------------------------
(* The classes *)

\* empty: it can be constructed without a resource.  assigns: what a move
\* assignment does to what the target holds; "none" if it is deleted.  renews:
\* another resource, or none, can be put in, after the old one was given back.
\* cancels: what it owes can be waived.

\* mutation: a handle's bytes are replaced like those of a key
HandleReplacing == [empty |-> TRUE, moves |-> TRUE, assigns |-> "replaces",
                    renews |-> TRUE, cancels |-> FALSE, many |-> FALSE]

\* utils::nt::handle; a HANDLE can be assigned.
Handle == [empty |-> TRUE, moves |-> TRUE, assigns |-> "releases",
           renews |-> TRUE, cancels |-> FALSE, many |-> FALSE]

\* utils::nt::registry_key; an HKEY becomes a temporary one, which is moved.
RegistryKey == Handle

\* utils::cryptography::ecc::key: the bytes of the target are replaced.
Key == [empty |-> TRUE, moves |-> TRUE, assigns |-> "replaces",
        renews |-> TRUE, cancels |-> FALSE, many |-> FALSE]

\* network::socket; ::socket may fail.
Socket == [empty |-> TRUE, moves |-> TRUE, assigns |-> "releases",
           renews |-> FALSE, cancels |-> FALSE, many |-> FALSE]

\* utils::final_action: the resource is the call that it owes.
FinalAction == [empty |-> FALSE, moves |-> TRUE, assigns |-> "none",
                renews |-> FALSE, cancels |-> TRUE, many |-> FALSE]

\* utils::memory::allocator, a static object
Allocator == [empty |-> TRUE, moves |-> FALSE, assigns |-> "none",
              renews |-> FALSE, cancels |-> FALSE, many |-> TRUE]

Class(o) ==
    CASE ClassOf[o] = "handle"       -> Handle
      [] ClassOf[o] = "registry key" -> RegistryKey
      [] ClassOf[o] = "key"          -> Key
      [] ClassOf[o] = "socket"       -> Socket
      [] ClassOf[o] = "action"       -> FinalAction
      [] OTHER                       -> Allocator

-----------------------------------------------------------------------------
(* The objects *)

Fresh == {r \in Resource : given[r] = None}

GiveTo(o, r) == given' = [given EXCEPT ![r] = ClassOf[o]]

Released(S) ==
    [r \in Resource |-> IF r \in S /\ released[r] < 2 THEN released[r] + 1 ELSE released[r]]

\* From now on the object holds R, and S was given back.
Becomes(o, R, S) ==
    /\ held' = [held EXCEPT ![o] = R]
    /\ released' = Released(S)

Construct(o) ==
    /\ o \notin alive
    /\ Class(o).empty
    /\ alive' = alive \cup {o}
    /\ UNCHANGED <<held, given, released, overwritten>>

\* generate_key, handle(h), registry_key(k), socket(af), finally(f)
Obtain(o) ==
    /\ o \notin alive
    /\ ~Class(o).many
    /\ \E r \in Fresh : Becomes(o, {r}, {}) /\ GiveTo(o, r)
    /\ alive' = alive \cup {o}
    /\ UNCHANGED overwritten

Destroy(o) ==
    /\ o \in alive
    /\ Becomes(o, {}, held[o])
    /\ alive' = alive \ {o}
    /\ UNCHANGED <<given, overwritten>>

\* The target has what the source had, the source has nothing.
Moved(to, from) == held' = [held EXCEPT ![to] = held[from], ![from] = {}]

MoveConstruct(to, from) ==
    /\ to \notin alive /\ from \in alive
    /\ ClassOf[to] = ClassOf[from] /\ Class(to).moves
    /\ Moved(to, from)
    /\ alive' = alive \cup {to}
    /\ UNCHANGED <<given, released, overwritten>>

MoveAssign(to, from) ==
    /\ to \in alive /\ from \in alive /\ to # from
    /\ ClassOf[to] = ClassOf[from]
    /\ Moved(to, from)
    /\ \/ /\ Class(to).assigns = "releases"
          /\ released' = Released(held[to])
          /\ UNCHANGED overwritten
       \/ /\ Class(to).assigns = "replaces"
          /\ overwritten' = overwritten \cup held[to]
          /\ UNCHANGED released
    /\ UNCHANGED <<alive, given>>

\* set, deserialize and set_openssl, which leave an empty key if they fail; the
\* copy of a valid key; handle = HANDLE.
Renew(o) ==
    /\ o \in alive /\ Class(o).renews
    /\ \/ Becomes(o, {}, held[o]) /\ UNCHANGED given
       \/ \E r \in Fresh : Becomes(o, {r}, held[o]) /\ GiveTo(o, r)
    /\ UNCHANGED <<alive, overwritten>>

Cancel(o) ==
    /\ o \in alive /\ Class(o).cancels
    /\ Becomes(o, {}, held[o])
    /\ UNCHANGED <<alive, given, overwritten>>

\* allocate and duplicate_string
Allocate(o) ==
    /\ o \in alive /\ Class(o).many
    /\ \E r \in Fresh : Becomes(o, held[o] \cup {r}, {}) /\ GiveTo(o, r)
    /\ UNCHANGED <<alive, overwritten>>

\* What is not in the pool is not touched.
Free(o) ==
    /\ o \in alive /\ Class(o).many
    /\ \E r \in Resource \ Fresh : Becomes(o, held[o] \ {r}, held[o] \cap {r})
    /\ UNCHANGED <<alive, given, overwritten>>

Clear(o) ==
    /\ o \in alive /\ Class(o).many
    /\ Becomes(o, {}, held[o])
    /\ UNCHANGED <<alive, given, overwritten>>

Next ==
    \E o \in Object :
       \/ Construct(o) \/ Obtain(o) \/ Destroy(o) \/ Renew(o) \/ Cancel(o)
       \/ Allocate(o) \/ Free(o) \/ Clear(o)
       \/ \E from \in Object : MoveConstruct(o, from) \/ MoveAssign(o, from)

Spec == Init /\ [][Next]_vars

-----------------------------------------------------------------------------
(* Property *)

\* In every sequence of these operations, whatever was given is held by exactly
\* one object or was given back exactly once.  The exception: a key that another
\* was moved onto is lost, as the old key of a client that authenticates again is
\* (cryptography.cpp:166-175, server.cpp:82).
OwnedOnce ==
    /\ \A o \in Object \ alive : held[o] = {}
    /\ \A o, p \in Object : o # p => held[o] \cap held[p] = {}
    /\ \A o \in Object : \A r \in held[o] : given[r] = ClassOf[o] /\ r \notin overwritten
    /\ \A r \in overwritten : given[r] = "key"
    /\ \A r \in Resource :
          released[r] =
             IF given[r] = None \/ r \in overwritten \/ \E o \in Object : r \in held[o]
             THEN 0 ELSE 1
=============================================================================
