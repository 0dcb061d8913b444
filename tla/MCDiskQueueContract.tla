------------------------ MODULE MCDiskQueueContract ------------------------
(* DiskQueueContract under the bounds of MCDiskQueue.                      *)
EXTENDS MCDiskQueue, DiskQueueContract
=============================================================================
