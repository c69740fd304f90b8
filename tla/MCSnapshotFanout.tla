--------------------------- MODULE MCSnapshotFanout ---------------------------
(* Small instances of SnapshotFanout for TLC.                                *)
EXTENDS SnapshotFanout

=============================================================================
