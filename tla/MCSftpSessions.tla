-------------------------- MODULE MCSftpSessions --------------------------
(* An upload of data and a download of a file, each of one buffer or, in   *)
(* SftpDataUpload.cfg, of two.                                             *)
EXTENDS SftpSessions

CONSTANTS up, down

KindOf == [c \in {up, down} |-> IF c = up THEN "dataUpload" ELSE "fileDownload"]

LengthOf == [c \in {up, down} |-> 1]

LengthOfTwo == [c \in {up, down} |-> 2]
=============================================================================
