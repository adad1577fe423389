---------------------------- MODULE MCUploadScan ----------------------------
(* Instances of UploadScan.  Job ids are numbers, so that the choice of a  *)
(* fresh one is the same in every run of TLC.                              *)
EXTENDS UploadScan
=============================================================================
