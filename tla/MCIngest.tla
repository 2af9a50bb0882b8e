------------------------------ MODULE MCIngest ------------------------------
(***************************************************************************)
(* Instances of Ingest for TLC: a source file, a file that the policy      *)
(* calls noise and one that the watcher excludes; and with a document more *)
(* where three paths are to be pending at once.                            *)
(***************************************************************************)
EXTENDS Ingest

MCPaths == {"src", "log", "pyc"}
MCExcluded == {"pyc"}
MCNoise == {"log"}
MCSessions == {"s"}
MCHookBodies == {GitBody, ParseError, ClaudeBody("s", "SessionStart", FALSE),
                 ClaudeBody("s", "Notification", TRUE)}
MCExisting == {"src"}
=============================================================================
