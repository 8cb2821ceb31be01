--------------------------- MODULE MCCdromCommand ----------------------------
(***************************************************************************)
(* CdromCommand on a small drive: two units to the sector, one or two      *)
(* retries, reads that cross the end of a second and of a minute.          *)
(***************************************************************************)
EXTENDS CdromCommand

\* 4498 is two sectors before minute 1.
MCReads == [lba : {4498, 4499}, len : {0, 2, 3, 5}, skip : {0, 1}]

\* One representative of each way a command without sectors is treated.
MCCommands == {"TEST UNIT READY", "INQUIRY", "START STOP UNIT", "READ TOC"}

\* Two retriable keys and one that is not.
MCSenseKeys == {2, 3, 5}
=============================================================================
