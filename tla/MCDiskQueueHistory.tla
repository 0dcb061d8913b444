------------------------- MODULE MCDiskQueueHistory -------------------------
(* DiskQueueHistory under the bounds of MCDiskQueue.                       *)
EXTENDS MCDiskQueue, DiskQueueHistory
=============================================================================
