---------------------------- MODULE MCAdbProcess ----------------------------
(***************************************************************************)
(* Instance of AdbProcess for TLC: the calls that AdbController and        *)
(* ~ChildProcess make, and the other ones the interface allows; started    *)
(* with any of the standard descriptors closed, or with two more files.    *)
(***************************************************************************)
EXTENDS AdbProcess

MCCalls == (BOOLEAN \X Signals) \ {<<FALSE, "KILL">>}
MCStartSets == SUBSET {0, 1, 2} \cup {{0, 1, 2, 3, 5}}
=============================================================================
