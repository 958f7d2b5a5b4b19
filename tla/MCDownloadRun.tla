---------------------------- MODULE MCDownloadRun ----------------------------
(* Four entries over two workers: the loop blocks, with entries left.       *)
EXTENDS DownloadRun
=============================================================================
