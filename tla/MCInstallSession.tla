-------------------------- MODULE MCInstallSession --------------------------
(* Small instances of InstallSession.                                       *)
EXTENDS InstallSession, TLC

CONSTANTS s1, s2, c1, c2, file

MCSlots == {s1, s2}
MCFiles == {file}
=============================================================================
