------------------------------ MODULE MCTelemetry ------------------------------
(***************************************************************************)
(* Two backups, files of one entry, and all three files left by an earlier *)
(* run: each entry written shifts them and pushes the oldest one out.      *)
(* Texts of the configuration: all output; none, so that the logger stays  *)
(* down, and another level; that level before a wrong value; a text        *)
(* without a level.                                                        *)
(***************************************************************************)
EXTENDS Telemetry

Text(file, lvl, console) == [k \in {"file_output", "level", "console_output"} |->
    CASE k = "file_output" -> file [] k = "level" -> lvl [] OTHER -> console]

MCConfig == { Text(TRUE, Info, TRUE), Text(FALSE, Error, FALSE), Text(TRUE, Error, Wrong),
              Text(TRUE, Absent, FALSE) }

MCCounterOrder == <<"ipc", "writer">>
===============================================================================
