------------------------------ MODULE MCDaemon -------------------------------
(***************************************************************************)
(* Small instances of Daemon for TLC.                                      *)
(***************************************************************************)
EXTENDS Daemon

\* Every command line over two sizes of the connection table.
AllCommands == [mode : {"auto", "native", "generic"}, size : {1, 2},
                recreate : BOOLEAN, detach : BOOLEAN]

\* The unit file's command line, with a table of either size, and its use with
\* --recreate-maps.
ServiceCommands == [mode : {"auto"}, size : {1, 2}, recreate : BOOLEAN, detach : {FALSE}]
==============================================================================
