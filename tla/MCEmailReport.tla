---------------------------- MODULE MCEmailReport ----------------------------
(***************************************************************************)
(* Small instances of EmailReport for TLC: a timer and an owner who run    *)
(* the command, and the reports of two windows.                            *)
(***************************************************************************)
EXTENDS EmailReport, TLC

CONSTANTS timer, owner, d1, d2
==============================================================================
