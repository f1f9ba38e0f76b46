-------------------------------- MODULE Parts --------------------------------
(***************************************************************************)
(* The parts of the client that keep their state to themselves, side by    *)
(* side: no operation of one changes what another one keeps.  The patches  *)
(* of the game's code (module Branches) are such a part as well.           *)
(***************************************************************************)
EXTENDS Naturals

-----------------------------------------------------------------------------
(* A request to a web server (module Http) *)

CONSTANTS Retries, Body, Listening

VARIABLES pc, attempt, code, buffer, stopping, exception, result

httpVars == <<pc, attempt, code, buffer, stopping, exception, result>>

H == INSTANCE Http

ASSUME RequestAssumption == H!RequestAssumption

-----------------------------------------------------------------------------
(* What is remembered from start to start (module Settings) *)

CONSTANTS Texts, Working, MaxMembers

VARIABLES file, document, phase, meant, here, lost

settingsVars == <<file, document, phase, meant, here, lost>>

F == INSTANCE Settings

ASSUME TextAssumption == F!TextAssumption

-----------------------------------------------------------------------------
(* The splash screen (module Splash) *)

VARIABLES where, field, window, taken, order, owner, gameWindow

splashVars == <<where, field, window, taken, order, owner, gameWindow>>

S == INSTANCE Splash WITH pc <- where

-----------------------------------------------------------------------------
(* Objects that own something (module Owners) *)

CONSTANTS Object, ClassOf, Resource

VARIABLES held, alive, given, released, overwritten

ownersVars == <<held, alive, given, released, overwritten>>

O == INSTANCE Owners

ASSUME ClassAssumption == O!ClassAssumption

-----------------------------------------------------------------------------
(* The arrays of the game's scripts (module ScriptArray) *)

CONSTANTS Name, MaxBlock, MaxLength

VARIABLES arrays, vector, live

arrayVars == <<arrays, vector, live>>

A == INSTANCE ScriptArray

ASSUME BlockAssumption == A!BlockAssumption

-----------------------------------------------------------------------------
(* Detours of the game's functions (module Detours) *)

CONSTANTS Detour, Place

VARIABLES place, moved, hook, bytes, refused, harmed

detourVars == <<place, moved, hook, bytes, refused, harmed>>

D == INSTANCE Detours WITH code <- bytes

ASSUME PlaceAssumption == D!PlaceAssumption

-----------------------------------------------------------------------------
(* Properties, as the modules explain them *)

\* What is returned as data is one answer, and nothing that the caller threw is
\* lost (http.cpp:29-122).
AnsweredOrStopped == H!OneAnswer /\ H!StopIsHeard

\* Who listens can end a request (http.cpp:17-36, 94).
StopEnds == H!StopEnds

\* A setting stays what it was last set to, unless the process that set it has set
\* another one since, or a write since then has failed (properties.cpp:26-44,
\* io.cpp:28-45).
SettingsKept == F!SettingsKept

\* The splash screen goes, and so does the process (splash.cpp:124-175).
SplashEnds == S!SplashEnds

\* The end does not leave the splash screen behind (splash.cpp:124-143, 152-175).
NotLeftBehind == S!NotLeftBehind

\* Detours leave the game's code as it was, but at places where one of three uses
\* has broken it (hook.cpp:266-355).
PlacesRestored == D!PlacesRestored

\* What is held is given back once (nt.hpp, cryptography.cpp, socket.cpp,
\* finally.hpp, memory.cpp).
OwnedOnce == O!OwnedOnce

\* The blocks of the game's arrays have one owner (scripting.hpp:59-305).
BlocksOwned == A!BlocksOwned
=============================================================================
