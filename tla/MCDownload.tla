----------------------------- MODULE MCDownload -----------------------------
(* Download with a resource of none, two or seven bytes: too short to be cut *)
(* and within the limit, or cut by two threads into blocks of 2, 2, 2 and 1  *)
(* bytes; seven threads leave a block size of zero.                          *)
EXTENDS Download
SmallLengths == {0, 2, 7}
Shared == {2}
=============================================================================
