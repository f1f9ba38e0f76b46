# A TLA+ model of w3m

w3m makes The Witcher 3 a multiplayer game. A master server (`src/src/server`)
hears the state of every player over UDP, authenticates the players and
broadcasts what it knows. A client (`src/src/client`) replaces the game's
executable: it updates itself, maps the game's image into its own process, hooks
it, and gives the game's scripts functions to send the player's state and to
read the others'. The script (`src/data/scripts/local/w3mp.ws`) moves one
character for each other player. The code has no tests.

Line numbers below are lines of the files under `src/src` unless a path says
otherwise.

## 1. Inventory

| component | state it keeps | operations | hard parts |
| --- | --- | --- | --- |
| master server (`server/server.cpp`, `client.hpp`) | map address -> client (guid, state, state_id, challenge, key, last packet) | handlers of `state`, `authResponse`, `kill`; a frame that drops silent clients and broadcasts | refused packets insert entries; timeouts race packets; ids must name states |
| handshake (`scripting_experiments.cpp`, `identity.cpp`) | the key of a machine, the guid of a process | send state; sign a challenge | loss, repetition, reordering; restarts at either end; a second instance on one machine |
| player view (`scripting_experiments.cpp`, `w3mp.ws`) | list of players, id last read per guid, characters | snapshot received; list read by the script; script frame | snapshots out of order; ids that go back; one guid listed twice; characters bound to positions |
| scheduler (`module/scheduler.cpp`) | running tasks, new tasks, a thread | schedule, loop, once; a pass; stop | tasks registered and erased within a pass; shutdown under load |
| server process (`server/main.cpp`, `console.cpp`, `network/manager.cpp`) | the objects of the server, three kinds of threads, two locks | construct, serve, Ctrl+C, destroy | lifetimes against the dispatcher; lock order; a signal at any moment |
| self-update (`client/updater`, `module/updater.cpp`) | the installed files, the program among them; a pool of threads | compare, swap the program, download, undo, relaunch | one thread fails while others go on; cancellation; crash in the swap; the old process lingers |
| client process (`client/main.cpp`, `loader/component_loader.cpp`) | components, their threads | register, start, load, exit by any path | order across static initialisation; several threads leaving; joins against window messages |
| wire format (`byte_buffer.hpp`, `structs.hpp`, `manager.cpp`, `socket.cpp`) | none | serialize, frame, split, read back | a datagram cut short; separators inside of data; more players than a datagram holds |
| addresses (`network/address.cpp`) | family, address, port | set, parse, print, resolve, compare, hash, classify | keys of a map over structures with fields only one family uses |
| http (`client/utils/http.cpp`) | one request: attempt, buffer, what the caller threw | perform, the callbacks of curl, give up or try again | a transfer that breaks in the middle; a user who cancels while nothing arrives |
| code patching (`common/utils/hook.cpp`, `signature.cpp`) | blocks of memory near the game's code with trampolines in them; detours; the hooks MinHook keeps | call, jump, place a trampoline; create, move, enable, disable, clear a detour; assemble a stub; search a pattern | displacements of 32 bits; blocks shared by places; detours moved, disabled and destroyed in any order; a stack aligned or not |
| splash screen and windows (`module/splash.cpp`, `window.cpp`) | a window, named by a field | show, close from any thread | no lock; windows belong to threads |
| stored properties (`common/utils/properties.cpp`, `game_path.cpp`) | a file and a document in memory | load, get, set, save | the document refers to strings that are gone; the process ends while it writes |
| scripting bridge (`module/scripting.*`, `scripting_filesystem.cpp`) | arrays and strings in the game's memory; a list of scripts | grow, cut, copy, move, convert; override | memory with two owners; characters of two widths |
| owners of resources (`nt.hpp`, `cryptography.cpp`, `socket.cpp`, `finally.hpp`, `memory.cpp`) | a resource or none | construct, move, assign, release | moves written by hand |
| renderer, image loader, identity, launcher, Steam and other wrappers, vendored code, build | little of their own | | section 7 |

How they interact: the client's script calls `store_player_state`, which sends
`state` through the client's network manager; the server's dispatcher runs the
handler inside its locks; the server answers `authRequest`, which the client's
dispatcher answers by a signature; the frame sends `states` to the authenticated
clients, whose dispatcher replaces the player list that the script reads later on
the game's thread. The component loader starts and stops scheduler, network and
updater; splash screen, window and Steam register tasks with the scheduler.

What makes each correct is said with its module below, and what can go wrong is
listed line by line in `PROJECT.json` under "hazards".

## 2. Modules

    Sessions <--implements-- Server <--extends-- Handshake <-- ServerProofs
    Tasks    <--implements-- Scheduler <-- SchedulerProofs
    ServerProcess <-- ServerProcessProofs    PlayerView <-- PlayerViewProofs
    Client <-- ClientProofs                  Updater <-- UpdaterProofs
    Http Settings Splash Owners ScriptArray Detours <--instances-- Parts
    Branches, Parts <-- PartsProofs
    Packets Addresses Texts Cleanup Overrides Signatures Stubs <--instances-- Data <-- DataProofs
    PlayerView, Overrides extend Subsequences

    MCParts: Branches Parts
    MCData:  Data

| module | models | checked by |
| --- | --- | --- |
| `Server` | the master server: client map, packet handlers, frame | `MCServer`, `ServerProofs` |
| `Sessions` | what the server promises about each address | as a property of `MCServer`, `ServerProofs` |
| `Handshake` | `Server` composed with players, an unreliable network and restarts | `MCHandshake`, `ServerProofs` |
| `PlayerView` | snapshots -> player list -> script -> characters | `MCPlayerView`, `PlayerViewProofs` |
| `Scheduler` | one task pipeline and its thread | `MCScheduler`, `SchedulerProofs` |
| `Tasks` | what a pipeline promises | as a property of `MCScheduler`, `SchedulerProofs` |
| `ServerProcess` | threads, locks, lifetimes and Ctrl+C of the server | `MCServerProcess`, `ServerProcessProofs` |
| `Updater` | the self-update, over many runs of the process | `MCUpdater`, `UpdaterProofs` |
| `Client` | the life of the client's process | `MCClient`, `ClientProofs` |
| `Http` | one request and its attempts | `MCParts`, `PartsProofs` |
| `Branches` | branches into the game's code and their trampolines | `MCParts`, `PartsProofs` |
| `Detours` | detours that are created, moved, enabled, disabled, cleared | `MCParts`, `PartsProofs` |
| `Settings` | the stored properties, over many processes | `MCParts`, `PartsProofs` |
| `Splash` | the splash screen between three threads | `MCParts`, `PartsProofs` |
| `Owners` | classes that own a resource | `MCParts`, `PartsProofs` |
| `ScriptArray` | arrays in the game's memory | `MCParts`, `PartsProofs` |
| `Parts` | the six above side by side, with their constants, assumptions and properties | `MCParts` |
| `Packets` | serializer, framing, datagrams | `MCData`, `DataProofs` |
| `Addresses` | network addresses as keys and as texts | `MCData`, `DataProofs` |
| `Texts` | script strings, and a player's name on its way | `MCData`, `DataProofs` |
| `Cleanup` | which files an update deletes | `MCData`, `DataProofs` |
| `Overrides` | which scripts the game compiles | `MCData`, `DataProofs` |
| `Subsequences` | what a loop that erases leaves of a list | with `PlayerView` and `Overrides` |
| `Signatures` | the search for a pattern of bytes | `MCData`, `DataProofs` |
| `Stubs` | assembled code that calls the client from the game | `MCData`, `DataProofs` |
| `Data` | the algorithms above from `Packets` on, each with the inputs it is asked for | `MCData`, `DataProofs` |

Operators commented `mutation:` are deliberately wrong variants of the definition
that follows them. They are used by no specification: put in place of that
definition, each makes a property fail, which shows that the property depends on
the code it is about. `PROJECT.json` says which belongs to which.

### Server

Every handler runs inside `clients_.access` (server.cpp:242-244) and so does the
frame (212), so each is one action: `HandlePlayerState`, `HandleAuthResponse`,
`HandlePlayerKill`, `RunFrame`. `clients` is a function whose domain is the set
of addresses in the map; `Entry` is `clients[source]`, which inserts a default
client. `sent` holds the datagrams of the last step.

Abstractions. The clock is the time since a client's last packet, saturating one
tick above the timeout: the code asks only "more than 20 s?", and the epoch of a
default client answers yes. Challenges are random and taken to be distinct; they
are numbered. A signature is its key: a response carries the key it was made with
and the challenge it is for. What a `state` packet carries besides the guid is
one value. Packets that do not parse, or are of another protocol version, change
nothing and are left out. `state_id` saturates at `MaxStateId`.

*Properties.* `EntriesWellFormed`: whatever a refused packet leaves behind is the
default client, and everything else has a challenge, a guid and a state.
`ChallengesDistinct`: no two entries share a challenge. `BroadcastOnlyLive`: each
broadcast is sent to every authenticated client that is left, to nobody else, and
carries the state and the id of each of them; none of them is silent.
`StateIdsName`: while an entry lives, its id never falls and
what it holds never changes without a new id. `ImplementsSessions`: every address
goes through the phases of module `Sessions` (absent, stray, pending,
authenticated); no packet skips one, and only silence ends one.

*Bounds* (`MCServer.cfg`, 44 thousand states). Two addresses, two keys with
different guids, three challenges: two addresses can claim one guid, an entry's
guid can change under it, and an address can be dropped and come back while an
answer to its first challenge is still to arrive. `Timeout = 1` and
`MaxStateId = 3` leave room for below, at and above.

### Handshake

Extends `Server` with the players' processes (`TransmitState` is
`store_player_state`, `ReceiveAuthRequest` is `receive_auth_request`) and a
network that is a set of datagrams. Losses, repetitions, restarts and delays
beyond the timeout draw on one budget, `MaxFaults`. A player has several
endpoints: each restart moves it to another one. A second instance of the game on
one machine has the machine's key but a random guid (identity.cpp:77-106).

*Properties.* `AuthenticatedIsOwner`: an authenticated entry holds the key and
the guid of the player whose endpoint it is, and the guid is the key's hash.
`DeadChallengesStayDead`: a challenge whose session is gone is never current
again. `EventuallyAuthenticated`, `EventuallyOnlyRunning`: once faults stop, every
genuine player ends up authenticated for good and the map holds the running
processes and nothing else.

*Bounds.* `MCHandshake.cfg`: a player with two endpoints and a second instance,
one fault, 713 thousand states. `MCHandshakeLive.cfg`: one player with two
endpoints and two faults, 387 thousand states; with these, no behaviour draws
more than five challenges, so the bound on challenges cuts nothing off.

*Assumptions.* An endpoint that belonged to one player is not taken over by
another (`Ports` are disjoint). `AuthenticatedIsOwner` depends on it: a `state`
packet replaces the stored guid of an authenticated entry without a new proof
(server.cpp:130), so what the entry says is only as good as the endpoint.

*Fairness.* The script runs on every frame of the game, the server's thread runs
frames, the dispatcher reads its sockets, and time passes; a datagram that is not
lost arrives. The clock is punctual: with packets every 30 ms, 20 s do not pass
without one arriving, except through a fault.

### PlayerView

Follows snapshots into one observer. `Received` is `receive_player_states`,
`HasNewState` and `ReadIds` are `get_player_states`, `ScriptFrame` is
`UpdateOtherPlayers` and `ApplyPlayerState`. A behaviour is wild first (lost,
repeated and reordered snapshots, restarts, an old entry that lingers) and may
settle; then it goes round after round: every running player is heard, the server
broadcasts, the snapshot arrives, the script runs.

*Properties.* `TwoRoundsSuffice`: however the wild part ended, two calm rounds
later every character shows the present state of the player at its place, and no
running player is without a character. One round is not enough: when ids went
back, the first new state is swallowed and only lowers the remembered id.

*Bounds.* `MCPlayerView` has behaviours of two parts: two other players who come,
go and change places, and one player at two endpoints, so that one guid is listed
twice, with two states, interchangeable (3.2 million states together). Both at once
would be too many. Two snapshots under way can overtake each other; ids up to
`MaxId = 2` while wild are enough for "larger", "equal" and "smaller".

*Disagreement.* `MCPlayerViewOneEntry.cfg` shows that the comment "Always has 1
entry" on `W3mPlayer.playerState` (w3mp.ws:31) does not hold: a player read twice
from one snapshot comes with an empty array. The script copes (w3mp.ws:98).

### Scheduler

One pipeline: `new` is `new_callbacks_`, `tasks` is `callbacks_`. A pass is taken
apart into its iterations (`Skip`, `Call`, `Return`) because registrations need
only the lock of `new_callbacks_` and come in between, from the handlers too.
`RequestStop`, `ThreadExit` and `Join` are `pre_destroy`.

*Properties.* `VisitsEachOnce`: a pass deals with every task it found, once and in
order, whatever is erased or registered meanwhile. `ImplementsTasks`: merging,
erasing and registering lose, repeat and reorder nothing (module `Tasks`).
`EventuallyCalled`: every task is called unless the thread is stopped.
`StopReturns`: `pre_destroy` returns however many tasks are registered.

*Disagreement.* `MCSchedulerLoop.cfg`: the callbacks of the splash screen
(module/splash.cpp:156-164) and of the window (module/window.cpp:38-46) return
`cond_end` when the game's window is there, but are registered with `loop`, which
drops what they return (scheduler.cpp:97-105). Both run for the life of the
process. For `schedule` the value is obeyed (scheduler.cpp:48-56).

*Bounds.* A task of each kind, one with a delay of two ticks; tasks can be
registered again, so the list grows, shrinks and reorders.

*Fairness.* The thread runs and handlers return; time passes.

### ServerProcess

Server, dispatcher and Ctrl+C as threads over the objects they share. The main
thread goes through `main.cpp:31-45`, with the destructors at its end in the order
the members are declared (server.hpp:24-27, manager.hpp:39-44). The dispatcher
holds the lock of `callbacks_` while a handler takes that of `clients_`. What
handlers do is module `Server`.

*Properties.* No deadlock (checked). `ObjectsOutliveThread`: nobody uses a member
that is destroyed. `FirstStopInTime`: the first Ctrl+C calls a callback and a
server that exist. `StopEnds`: a Ctrl+C after `run()` began ends the process,
whatever arrives.

*Observations, not properties.* A Ctrl+C between `signal_handler`'s constructor
(main.cpp:40) and `stop_ = false` (server.cpp:196) is lost. A second Ctrl+C while
the first is being obeyed can find the callback cleared (console.cpp:259) or the
server gone: the model lets it happen and `FirstStopInTime` leaves it out.

*Fairness.* Threads that can go on do; a lock that is free again and again is got
in the end (strong fairness of `BeginFrame`, `Enter` and `On`): frames hold theirs
for a moment every 30 ms, handlers for the time of a packet.

*Bounds.* Two commands and an unknown one, three datagrams waiting, three Ctrl+C:
one that comes too early, one that is obeyed, and one that comes meanwhile.

### Updater

One machine over many runs of the program. `disk` says of every file whether it is
absent, old, new or partly written; `disk[Host]` is the program itself, `dead` the
renamed old one, `lingering` a relaunched process that still runs from there. A
file that a process runs from can be renamed but neither removed nor overwritten,
and `MoveFileW` does not overwrite. The actions are the functions of
`file_updater`, the steps of the threads in `update_files`, and what
`module/updater.cpp` does with an exception. One dialog is shown per run, and
starts uncancelled.

Abstractions. Files have two versions; `Publish` makes what is installed old. A
download is right or fails. Publication during an update is a failed download, as
the hash does not match. A release build is assumed, where the program itself is
updated. The removal of unlisted files succeeds; which ones go is module `Cleanup`.

*Properties.* `HostKept`: the program can be started at any time except within its
swap, whatever fails or is cancelled in whichever thread, unless the process died
in the swap or a write fell short unnoticed. `EndsWhatBegan`: the assertion in
`end_file`, and no file with two threads. `WrittenMeansCurrent`: if no thread
stored an exception, every file of the batch is the published one (or was written
short, which nothing notices: io.cpp:39). `Converges`: when nothing goes wrong any
more the installation gets and stays current, and the relaunches end; or the
program was broken in its swap, and nothing can repair that.

*Observations, not properties.* A crash in the swap leaves no program to start;
the deadlock check is off because of it. When one thread sees a cancellation and
another then fails, the failure is stored last and the game starts although the
user cancelled (file_updater.cpp:239, module/updater.cpp:24). The `-proc` helper
process is the same program and so also constructs the updater: two updates at
once are not modelled.

*Bounds.* The program among three other files in the list, so that two threads have
more files than they can take at once, one unlisted file, three mishaps: enough for
a publication while the relaunched process lingers, and a failure in what follows.

*Fairness.* Threads go on, downloads end, the user starts the game again, the
relaunched process ends.

### Client

From the first constructor to the last destructor: components register in any
order and are sorted (`Sorted`), main goes through `post_start`, the game's image
and `post_load`, each of which may throw, and the end comes from main or from any
thread of the game through the hooked `ExitProcess`. `guard` is the function-local
static in `pre_destroy`: the first thread runs it, others wait.

*Properties.* `UpdateFirst`: no component other than the updater has started while
the update runs. `ExitAfterDestroy`: no thread goes on to `exit` before all
components are destroyed. `ThreadsJoined`: components are deleted with no thread of
theirs running. `HangsOnlyOnWindow`: a thread on its way out ends the process,
except in two situations.

Both are hazards of the code, where a thread waits for main to look at its messages
while main waits in `exit_hook`. The window task sets the title of the game's window
from the scheduler's thread, and whoever destroys the components waits for that
thread (`StuckOnTitle`); as the task never ends (see Scheduler), any exit with the
window open can meet it. And the splash screen is hidden by a call that waits for
main, its owner, when another thread makes it (splash.cpp:136, 174): the thread that
destroys the components, or the scheduler's in its task, before the game has a window
at all (`StuckOnSplash`). The deadlock check is off because of them. `splash` says
whose hands the splash screen is in; how it gets there step by step is module
`Splash`.

*Bounds.* The three components that own threads, the splash screen and one that has
neither, in all orders of registration; main and two more threads of the game.

*Fairness.* The update ends, threads on their way out go on, component threads
test their stop request between two passes, messages are answered where they
can be, and a call that hides the splash screen returns when main answers.

### Http

`perform_request` around libcurl, which is external: the model has its callbacks,
the ends of a transfer (complete, broken at any point, ended by a callback that
threw) and the response code. `perform_request` repeats a transfer only when it
failed with no response code; the buffer is never emptied in between. Chunks carry
the number of the attempt they came with.

*Properties.* `AnsweredOrStopped` is both `OneAnswer`: what the caller gets is one
complete answer, never the beginning of one attempt before the rest of another; and
`StopIsHeard`: what the caller's callback threw gets out, whatever was answered
before. `StopEnds`: a
caller who listens can end the request even if the network is silent for ever.

*Observation, not a property.* No timeout is set. A request without a callback
waits as long as the peer likes; the updater asks so for the list of files
(file_updater.cpp:76), and the game starts only after that.

*Bounds.* Two retries, the default, and three chunks: none, some or all of a body
can have come when a transfer breaks. `retries + 1` is taken not to overflow.

*Fairness.* `perform_request` itself goes on, and curl calls the progress callback
again and again, also while nothing arrives. Nothing is asked of the network.

### Branches

`hook::call` and `hook::jump` with `is_relatively_far`, `get_memory_near` and
`allocate_somewhere_near`. Addresses are numbers and everything is scaled: `Reach`
stands for 2^31, `Granule` for 64 KiB, `Slot` for a trampoline, `Width` for a
branch. `Displacement` cuts a distance off to the signed field as the code's cast
does; `Arrival` is where the processor then gets to. `Others` allocates and frees
what is not w3m's at any time.

*Properties.* `PatchesHold` is two things. `BranchesArrive`: every patched place leads to the function it was
last redirected to, however many places share a block and however often they are
patched. `TrampolinesApart`: trampolines overlap neither each other nor the end of
their block, and blocks no foreign memory. `FailsOnlyWhenFull`: "Failed to
allocate" means that no free memory is in reach, unless fewer than `Width` bytes
separate the place from the next multiple of 64 KiB.

*Observation, not a property.* That exception is real: for such a place the first
address that is tried is already too far, and ends the search (hook.cpp:28-37).

*Assumptions.* Code and functions lie in images, where `VirtualAlloc` hands out
nothing (`AddressesAssumption`). Patching happens in `post_load`, in one thread.

*Bounds.* Three places and two functions, one near and one far, three multiples of
`Granule` on both sides, room for two trampolines and a rest in each block: blocks
that are full, that are out of reach of one place and not of another, and places
that are patched again.

### Detours

`hook::detour` over MinHook, which is external and keeps one hook for a place.
MinHook's jump has five bytes; `move_hook` moves a detour behind a nop, which takes a
sixth that MinHook does not know of. `code` says what stands at a place: the game's
own bytes, the jump, the moved jump, or the remains of one that was half undone. A
`create` can fail at any time, for whatever reason MinHook has, that there is a hook
already among them: the object then has the place and no hook of its own there
(303-311, `refused`).

*Property.* `PlacesRestored`: after any sequence of operations no hook is without an
object that has its place. Wherever none of three uses has come before, the game's
code stands, to the last byte, unless a hook is enabled there; there is a hook as long
as the object whose `create` made it has the place; and that is one object. The three
uses break what stands at their own place, and no other (`harmed` is the set of those
places). They are in the model, as the code really does them:
a moved detour that is not enabled is disabled or destroyed, which writes its saved
jump back (`Rewrites`, 349-355: the saved bytes are kept after `disable`); a hook is
taken back whose jump another object has moved, at its own place or by a `disable`
without a place, which means all (`Tears`, 297-301, 321-332); and an object whose
`create` failed is destroyed, which removes the hook of the one that succeeded
(`Robs`, 303-332). An enabled or disabled hook at another place is not touched by any
of them, nor by what follows.

*Bounds.* Three objects and two places.

### Settings

The file `properties.json` and the document in memory, over processes that start, set
and end. The document keeps references to the characters of the caller's strings
(properties.cpp:40, 114): such a member reads as what it was or as something else,
anew each time. What was parsed from the file is copied.

`save` does not look at what `write_file` returns, so the program goes on when the file
cannot be opened or only a part of it is written (`Outcomes`: written, refused, short;
and ended, if the process is gone before the write is complete).

*Property.* `SettingsKept`: what was set last is what the file holds, and so what the next
start finds, for every name that is not among `lost`; and a name gets there in four ways
only (`NowLost`). The write of its set was refused: the file is still what it was. A
write, of whatever name, came short or the process ended in it: the file holds nothing. The
process that set it has set another name, which may write the first from characters
that are gone. And a process that could not read the file, though it was there, sets another
name, and writes only that. A name that is set and written in full is out of danger again,
whatever happened before. All four are in the model as the code does them.

*Bounds.* Two names, two values, documents of three members.

### Splash

The window from `post_start` to the end of the process, with main, another thread of
the game and the scheduler's thread, whose task closes it again and again. `Take` is
the unlocked read of `window_`, after which another thread may come in before it is
cleared; only main can destroy the window, and `ShowWindow` from another thread waits
until main looks at its messages.

*Properties.* `NotLeftBehind`: once the destruction is past the splash screen, `window_`
names nothing and the window is gone or in the hands of the scheduler's thread, and the
destruction does not end before that one has let go of it; so whichever thread takes the
window from under the other, none is left at the end. It depends on the join of the
scheduler's thread. `SplashEnds`: where the game has its window, handles its messages and nobody exits, the
splash screen goes and does not come back; once the destruction has begun the process ends with no
splash screen left, except when another thread than main has still to hide it and
main has begun to exit (`StuckOnMain`, a hang the code can really meet).

*Fairness.* Threads go on; the scheduler makes its passes; nobody has to exit.

### Owners

`utils::nt::handle` and `registry_key`, `ecc::key`, `network::socket`, `final_action`
and `memory::allocator`. What a class does is a record (can it be empty, moved, what
does assignment do to what the target held), the actions are common to all.

*Property.* `OwnedOnce`: in any sequence of constructions, moves, assignments and
destructions everything that was given is held by exactly one object or was given
back exactly once. The exception is in the model as it is in the code: a key that
another is moved onto is lost (cryptography.cpp:166-175), as with every repeated
authentication (server.cpp:82).

*Bounds.* Two objects of the two classes that move in different ways (handles also
stand for registry keys and sockets, whose records differ only in what is forbidden),
one final action, one pool, three resources.

### ScriptArray

`scripting::array` of `scripting::string`: blocks of memory that the game allocates and
that the client cuts, grows, copies, moves and frees; `vector` is the `std::vector`
that contents are copied or moved to.

*Property.* `BlocksOwned`: each block the game has given is referred to from exactly
one place, and nothing refers to a freed one.

*Bounds.* Two arrays of up to two strings, five blocks: enough for an array with a
block and two strings to be copied over another.

### Packets, Addresses, Texts, Cleanup, Overrides, Signatures, Stubs

Algorithms without state, written as operators and compared with shorter definitions
over every input of small sets (one initial state for each input). `Data` has an
instance of each, with the constants, the assumptions on what the inputs are, and the properties,
which are proved for all inputs (section 4); `MCData` chooses the small sets. The
assumptions are no narrower than what the code's
callers give: a message has the fields its structure has and counts that fit the
integer in front of them, an address is what `recvfrom` and `getaddrinfo` fill in, what
lies above a file is a directory, and a listed file has not the name of a directory.

* `Packets`: `byte_buffer.hpp`, `manager::send` and `handle_data`, `socket::receive`,
  the four messages. `ArrivesExactly`: a message arrives as it was written or not at
  all, at whatever byte the datagram was cut; what `handle_data` hands on is what was
  sent whatever bytes the data consists of, separators too; and a snapshot of up to 46
  players arrives while with 47 it is dropped (`socket.cpp:87` reads 0x2000 bytes, and
  a player takes 176).
* `Addresses`: `network::address`. `AddressesHold`: `==` is an equivalence on what
  `recvfrom` can fill in and agrees with the hash, so a sender is found again; what is
  printed of an IPv4 address is parsed as the same; `is_local` is true of the private
  networks and the one loopback address. What is printed of an IPv6 address cannot be
  parsed: nothing in the repository does so.
* `Texts`: `scripting::string` and `utils::string`. `NamesSurvive`: a string equals what
  it was made of by each of the comparisons, except that one never set differs from one
  set to the empty text; a name arrives at the other players cut to its array, if it is
  ASCII, and always ends with a zero.
* `Cleanup`: `cleanup_directories`. With `Overrides`: `FilesChosen`: the user's folder
  and the listed files are spared, nothing else is, a second cleanup finds nothing, and
  without a list nothing is deleted; of scripts with one name the one beside the
  program wins over the user's, that over the game's own. Names are taken as alike in case:
  the names of custom scripts are put into lower case (scripting_filesystem.cpp:64), those
  of the game are not, so one of the game's with a capital letter would stay.
* `Signatures`: `load_pattern` and `process`. `PatternsFound`, a part of `ToolsWork`: a text is loaded as the
  bytes it spells, whatever spaces stand between and within them, and refused with half a
  byte more; and what is found is compared with all the places of the image at which the
  bytes that the text names stand. Nothing else is found and nothing twice, for every number
  of threads. Byte by byte one place is missed: that at which the last named byte would be the
  image's last. With the wide instructions places from which no more than a lane is left may
  be missed, and no others. An image shorter than one look is not an input: `length_ - sub`
  would underflow (signature.cpp:151, 157) and the search leave the image. Nothing calls
  the search today. What the text spells is stated without the
  parser: each token has a first and a last character, in order, and all others are
  spaces (`Spells`).
* `Stubs`: `assembler::pushaq`, `popaq`, `prepare_stack_for_call`,
  `restore_stack_after_call` and the stub of the renderer. `GameUnaware`, the other part of `ToolsWork`: the stub calls
  its function with an aligned stack and its argument, and gives the registers, the flags
  and the game's part of the stack back, whatever the function changes of what it may, but
  for xmm0 to xmm5 (one register of the model): the convention lets a function change these
  and `pushaq` does not save them. The renderer's stub, whose function computes with floats,
  stands behind a call of the game's own (renderer.cpp:70), after which compiled code can
  rely on none of them but for a result in xmm0.
  The stack is one word per address; what is below the stack pointer is anybody's.

*Bounds.* Integers are written to the base 4 instead of 256, elements of a vector are 2
bytes instead of 176, a char has 8 values, a wide character 64, the array of a name 4
places (all constants of `Data`, so the proofs cover the real ones, but that integers
have two digits instead of four); vectors have up to two elements, lines up to four bytes
behind the magic; texts up to four characters out of each class that the conversions
tell apart (zero, ASCII, upper half of a char, wide); folders over seven possible files
and lists of up to three names; patterns of digits to the base 2, shorter than, as long as and longer than a
lane (which is 4 instead of 16 bytes), with spaces within and behind bytes, and 1 to 6
cores with one position for each that is worth more threads; stacks of 60 words, at an
aligned and at a misaligned one.

## 3. Runs

| run | shows |
| --- | --- |
| `server` | the server in an arbitrary environment, and that it implements `Sessions` |
| `handshake` | who can be authenticated over an unreliable network |
| `handshake_live` | that authentication and clean-up happen in the end |
| `player_view` | that the view recovers from anything within two rounds |
| `one_entry_comment` | that the comment on the state array is wrong (violation) |
| `scheduler` | that the pipeline implements `Tasks`, calls everything, and stops |
| `loop_ignores_end` | that `loop` drops the end its callbacks ask for (violation) |
| `server_process` | start, service and end of the server without deadlock or use after destruction |
| `updater` | that updates survive failures and converge |
| `client` | start and end of the client on every path |
| `parts` | each alone: patched code, requests, settings, the splash screen, resources, arrays, detours |
| `data` | the algorithms without state, on every input of small sets |

Each runs with `tlc -config <cfg> <module>.tla`; the longest takes between
two and three minutes. Parts that share nothing share a run: `Parts` has an instance of
each, and `MCParts` chooses in the first state which one a behaviour is of, while the
variables of the others stay as they begin; its fairness is that of `Http` and `Splash`,
given to the chosen part only.

`TypeOK` of each module states the types of its variables. It is proved for `Server`, and
part of the invariants that are proved for the other modules with proofs (under the
names `Typed`, `Types` where only some of it is needed).

## 4. Proofs

All proofs hold for every value of the constants that the assumptions allow: any
numbers of addresses, players, threads, files, tasks and components. The assumptions are
those named `...Assumption` in the modules, and TLC evaluates them in the runs.

**`ServerProofs`**

* `TypeCorrect`: `TypeOK` is inductive by itself.
* `EntriesCorrect`, `ChallengesCorrect`: `EntriesWellFormed` and `ChallengesDistinct`.
  Neither is inductive alone: that a new challenge is different from all held ones needs
  that all held ones have been drawn (`WellFormed`), and that a refused answer changes
  nothing needs that an entry without state is the default one. The invariant is
  `IInv == TypeOK /\ EntriesWellFormed /\ ChallengesDistinct`.
* `BroadcastCorrect`: `BroadcastOnlyLive`, relative to `IInv`: who is sent a broadcast and
  what is in it are the same set, read off the frame (`FrameBroadcast`); that an
  authenticated entry has a state is because only an entry with a challenge can be answered.
* `Refinement`: `Spec => Promise!Spec`. Each action maps to a step of `Sessions`:
  a stored state to `Hear`, an accepted answer to `Authenticate`, a refused one and
  a kill to `Stray` (or nothing), the frame to `Sweep`, the clock to `Fade`.
* `IdsNameStates`: `StateIdsName`, an action property for which `TypeOK` is enough: the one
  operation that writes `state`, the storing of a client packet, also raises `state_id`,
  and a removed entry is no longer the one the property speaks of.

The lemmas at the beginning say what `Put`, a stored state, an accepted key and an older
entry look like; the steps of the theorems use only those, one per action.

And for the composition with players and network:

* `OwnersCorrect`: `AuthenticatedIsOwner`. What an entry says is true because of what can
  be under way, so the invariant speaks of the network as well:
  `HInv == TypeOK /\ Addressed /\ Honest /\ EntriesOwned`: each process is at an endpoint
  of its player, each datagram was sent from such an endpoint with that player's guid or
  key, and what is stored about an endpoint is what its player sent. That ports are
  disjoint (`PlayersAssumption`) is used exactly once, in `OneOwner`.
* `DeadStayDead`: `DeadChallengesStayDead`, an action property: a step gives an entry the
  challenge it had, none, or the next one to be drawn, which is larger than all that
  were.
* `CorrectOverNetwork`, `SessionsOverNetwork`: what is proved of `Server` holds in the
  composition: `EntriesWellFormed`, `ChallengesDistinct`, `BroadcastOnlyLive`, and
  `KeepsSessions` (defined beside its theorem, no run checks it): but for the restarts of the
  server, every address goes through the sessions of module `Sessions` here too, whatever
  the network does. Each step of the composition is a step of `Server`, a restart of it, or
  nothing to it (`ServerSteps`), so its lemmas are used as they are. `Server` takes an
  answer to any challenge that was drawn; that no other one is ever under way is part of
  the invariant, `NInv == HInv /\ IInv /\ Drawn`.

**`ServerProcessProofs`**

* `LifetimesCorrect`, `FirstStopCorrect`: `ObjectsOutliveThread`, `FirstStopInTime`, from
  `IInv == TypeOK /\ Located /\ Lifetimes /\ Locked /\ Signalled`. The objects outlive the
  dispatcher because the main thread is past `join` before it destroys anything
  (`Lifetimes`); the callback is there when the first signal comes because the main thread
  leaves its loop only when a signal has called `stop` (`Signalled`).

**`SchedulerProofs`**

* `PassesCorrect`: `VisitsEachOnce`. It is nearly inductive: the invariant adds only that the
  iterator stands on a task while a handler is called, and that nothing is called after
  the join. The work is in what erasing under an iterator does to a sequence (`Erased`).
* `Refinement`: `ImplementsTasks`: the concatenation of the running and the new tasks is the
  list of module `Tasks`; a merge is no step, a return is one only if it erases.

**`ClientProofs`**

* `UpdateIsFirst`, `DestroyedAtExit`, `NoThreadLeft`, from
  `IInv == Types /\ Ordered /\ Guarded /\ Undone`: the updater is in front of the sorted
  components and the others start only when its thread has ended (`Ordered`, which needs
  that insertion keeps the list sorted); one thread at a time is in the guarded static
  (`Guarded`), also while it waits for main to answer; a component that was destroyed keeps
  no thread (`Undone`).

**`UpdaterProofs`**

* `ProgramKept`, `OneThreadPerFile`, `WrittenAll`: `HostKept`, `EndsWhatBegan`,
  `WrittenMeansCurrent`, from `IInv == Types /\ Claims /\ Covered /\ HostSafe`: every thread
  has a taken file of its own (`Claims`); as long as nothing was thrown, every taken file
  is current or in work, and the first thread leaves only when nothing is left to take
  (`Covered`); what stands at the program's place in and out of the swap (`HostSafe`).

**`PlayerViewProofs`**

* `RightAfterTwoRounds`: `TwoRoundsSuffice`. What a calm round reaches depends on how far it
  is, so `IInv == TypeOK /\ Calm` has one conjunct for each thing that accumulates. Once
  settled, each guid has one entry at most, and after a round every running player has one
  (`Settled`). The only snapshot under way is the one the server has just sent, so after
  its arrival the list is the server's (`Delivered`, `Counted`). From the end of the first
  round on no remembered id is larger than the server's, and what is heard makes the
  server's larger: so the second round's states are all new (`Ahead`), and the characters
  show them. The wild part is quantified away: nothing is needed of it but the types, which
  include that no two entries have one endpoint. Nor does the proof use `MaxId`,
  `MaxFlight` or the number of rounds that follow.

**`PartsProofs`**, one invariant for each part:

* `RequestsConclude`: `AnsweredOrStopped`. The buffer is never emptied, so the invariant
  says where its content is from: all of it came with this attempt and with an answer
  (`OneSource`), and a transfer that had an answer is not repeated; what was thrown is
  on its way to the caller or has got there (`Carried`).
* `LastSetIsKept`: `SettingsKept`. With it, that a document in which nothing was set
  yet is what the file held. The work is in reading: the first member of a name
  counts (`OneMoreMember`, `OtherMember`), a set keeps all other members (`PutKeeps`,
  `PutTouchesOne`), and what is written is found by the next process (`WhatIsRead`,
  `LoadedIsRead`); `NotLost` is what a set needs to know of the names it does not set.
* `HeldOrReturned`: `OwnedOnce`, inductive with the types. Every operation changes one object
  or moves from one to another (`ObjectChanges`, `ObjectsMove`); only a key is replaced
  without being given back (`OnlyKeysReplace`).
* `BlocksHaveOneOwner`: `BlocksOwned`, inductive with the types. "One place" is counted by
  positions: all references are the arrays' blocks, their items and the vector's, and an
  operation is a reassembly of what was referred to and new blocks (`Reassembled`) or
  an exchange within one array (`Exchanged`). It uses that an array is not assigned to
  itself, as the guard of `MoveAssign` has it from the code.
* `CodeRestored`: `PlacesRestored`, with the three uses it excepts, and at their places only.
  The invariant is stated place by place (`Sound`), with what is true even of harmed ones:
  saved bytes, a failed `create` and every hook belong to an object that has a place
  (`Held`). What a hook that is given up leaves is in `GivenUp`.
* `SplashNotLeft`: `NotLeftBehind`, from `SInv == S!TypeOK /\ SOrder /\ InHand`. The window is
  named by the field or in the hands of a thread that has taken it, and a thread that found
  the field empty will not find it set any more (`InHand`), because it is set before any
  other thread runs; one thread destroys, in the order of the components, and the
  scheduler's thread has ended when the destruction is past it (`SOrder`).

And for `Branches`, for all sets of places, functions and free addresses and all sizes, so
for the real ones too:

* `PatchesWork`: `BranchesArrive`. A displacement that is not far is exact, so a
  near branch arrives; a far one arrives at a slot that is in `far` and leads to the
  function. That stays so because a new slot is none of the old ones: it begins at
  or after `base + used` of its block, and all old slots of the block end before.
* `TrampolinesSafe`: `TrampolinesApart`. With `PatchesWork` it is `PatchesCorrect`: `PatchesHold`.
* `RefusalsJustified`: `FailsOnlyWhenFull`. "Far" is the same as out of the signed range
  (`InReach`); the first address that is tried is the multiple of `Granule` next above the
  lower end of that range (`FirstIs`, from `Reach % Granule = 0`); so every free multiple in
  reach is tried (`SearchFinds`), and a set of numbers that is not empty has a least one
  (`LeastExists`), which is what would have been granted.

The first two of these are not inductive. The invariant is
`IInv == Typed /\ Inside /\ Apart /\ BlocksOwn /\ BranchesArrive`: every slot lies in
the used part of a block, slots and blocks do not overlap, no block is foreign. That
no function to be reached lies inside a block comes from the assumption on
addresses: a near branch would otherwise be taken for one to a trampoline.

**`DataProofs`**, for all inputs, however long, and all widths and sizes. Nothing changes in
`Data`, so each theorem is what its algorithm computes:

* `PacketsArrive`: `ArrivesExactly`. What a reader has found is said for every length
  of the datagram at once: either the datagram reaches as far as the reader has got, or the
  reader has thrown (`Reading`). Each kind of field keeps that (`KindTaken`), hence the whole
  message (`MessageTaken`). A command can end in one place only (`OneEnd`), at the first
  separator (`FirstSeparator`).
* `AddressesKept`: `AddressesHold`. That texts are parsed back needs what `HostsAssumption`
  says of the library: an IPv4 address as a text is a host with that address alone, no host
  has brackets, and different numbers have different texts.
* `NamesKept`: `NamesSurvive`. Both conversions keep a character in the lower half of a char
  (`CharKept`); the second copy of a name takes nothing more away, because the first has
  left a zero within the array (`RelayCutsOnly`).
* `FilesKept`: `FilesChosen`. An entry stays if the name at the root that it is below stays
  (`StaysAtRoot`), and all that a listed file is below stays with it (`StaysInData`), so a
  second cleanup finds the same to keep (`NothingMore`). A loop that erases keeps what
  stands at the places that are kept (`KeptAre`, by counting places, `Ranks`), and the first
  separator of a path is the one behind its root (`PartIs`).
* `MatchesFound`: `PatternsFound`. After each character of the text some of the tokens are
  behind and the next one has not begun or is half read (`IsAfter`, kept by each character:
  `OneCharacter`), so all are read at the end (`SpelledIs`). The shares of the threads are
  next to each other, and the last one reaches to the end (`SharesAre`); which places they
  leave out is said in terms of what the text names in `LookedAt`. Its exceptions are those
  of the property.
* `GameGoesOn`: `GameUnaware`, with its exception for xmm0 to xmm5. What the stack is after n pushes is said for all n at once
  (`Laid`), and popping from it undoes them (`PushedIs`, `PoppedIs`). Whether the stack was
  aligned or not, the words between what was saved and the call say how far to go back
  (`PreparedUnaligned`, `PreparedAligned`, `RestoredIs`).

`ToolsCorrect`, `ToolsWork`, is the last two together, with the exceptions of both.

The parser and the sequences of pushes are recursive functions. What they compute is found
by giving the function explicitly, or by showing step by step that there is one
(`ReadingExists`), and then going up its arguments (`Upwards`).

**Only model-checked.** Liveness (`EventuallyAuthenticated`, `EventuallyOnlyRunning`,
`EventuallyCalled`, `StopReturns`, `StopEnds` of both modules, `Converges`,
`HangsOnlyOnWindow`, `SplashEnds`), because the prover handles neither fairness nor ENABLED.
Every invariant and every action property of the runs is the statement of a theorem.

## 5. What the bounds mean

`MaxNonce`, `MaxId`, `MaxFlight`, `MaxRounds`, `MaxInbox`, `MaxFaults`,
`MaxMishaps` and `MaxBlocks` occur only in guards that would otherwise let a behaviour grow without
end; `MaxStateId` and `Timeout + 1` are where values saturate, because the code
only compares. They are constants of the modules, and the proofs hold for all their
values.

## 6. What could follow

1. Compositions: `Scheduler` as the thread inside `Client`; `Handshake` with
   `PlayerView`'s list for one observer.
2. Mapping the sections of an image and resolving its imports (`loader.cpp`), as an
   algorithm beside those of `MCData`.

## 7. Not modelled, and why

* Steam (`steam_proxy.cpp`, `client/steam`): calls through the function tables of
  foreign libraries.
* How functions are registered with the game's engine (`scripting.cpp`) and the single
  patches (`patches.cpp`): they write into the game by address; what follows is the game's.
* The image loader (`loader.cpp`): the layout of PE images, in one thread, once.
* `move_code` and injected addresses (`hook.cpp`): they depend on the length and encoding of
  x86 instructions, which the vendored disassembler knows.
* The manager that is a static of a function (`module/network.cpp:17`): on a path where it
  is first made in `pre_destroy` it is destroyed before components that were made earlier.
  `Client` has the order of components, not that of all statics; nothing else uses it then.
* Hardware ids and DPAPI (`smbios.cpp`, `identity.cpp`): `Handshake` has their
  result, one key per machine.
* The renderer's queue of texts: a list under a lock that is swapped and drawn; its stub is
  in `Stubs`.
* The disassembler under `src/deps`, COM, compression and the rest of the wrappers, the
  build: libraries without behaviour of their own here.
* Within the modelled parts: text, logging, colours, what dialogs show, movement
  and drawing in the script.
