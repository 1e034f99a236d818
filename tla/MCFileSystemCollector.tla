---------------------- MODULE MCFileSystemCollector ----------------------
(***************************************************************************)
(* FileSystemCollector for TLC.                                            *)
(***************************************************************************)
EXTENDS FileSystemCollector

=============================================================================
