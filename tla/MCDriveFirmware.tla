----------------------------- MODULE MCDriveFirmware -----------------------------
(* Instances of DriveFirmware for TLC. *)
EXTENDS DriveFirmware

\* serial_bridge writes SA and TH together; its last write is a TH alone.
DriveCommands == {[th |-> 2, sa |-> 9], [th |-> -5, sa |-> NoLine]}
AllSticks == {-1, 0, 1}
=============================================================================
