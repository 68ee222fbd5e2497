------------------------------ MODULE MCPower -------------------------------
(***************************************************************************)
(* Instances of PowerPolicy for TLC.  A tick is half a second.             *)
(***************************************************************************)
EXTENDS PowerPolicy

(* A sensor that fails at once, or a whole window of four seconds. *)
MCSampleTimes == {0, 8}

(***************************************************************************)
(* An upload that fails at once, uploads too short to be a load - up to    *)
(* half a second short of it - and the connection timeout of twelve        *)
(* seconds.                                                                *)
(***************************************************************************)
MCUploadTimes == {1, 6, 10, 15, 24}

(* Uploads that fail at once, or take three seconds. *)
MCQuickUploads == {1, 6}

(***************************************************************************)
(* Nine and a half seconds between the clocks: seconds begin out of step,  *)
(* and boundaries at other times than in millis().                         *)
(***************************************************************************)
MCWallOffsets == {19}

=============================================================================
