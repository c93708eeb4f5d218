--------------------------- MODULE MCUploadService --------------------------
(* Small instances of UploadService for TLC. *)
EXTENDS UploadService

CONSTANTS fd1, fd2

OneFd    == {fd1}
TwoFds   == {fd1, fd2}
OneSize  == {1}
TwoSizes == {1, 2}
=============================================================================
