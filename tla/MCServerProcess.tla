-------------------------- MODULE MCServerProcess ---------------------------
(* Two commands, three datagrams waiting, Ctrl+C up to three times.        *)
EXTENDS ServerProcess
=============================================================================
