----------------------------- MODULE MCUploads -----------------------------
(* Uploads on small instances, for TLC. *)
EXTENDS Uploads

\* The limits of every link of the instance.
CONSTANTS FileLimitEach, FilesEach, TotalEach

MCLinkMaxFileBytes  == [l \in Links |-> FileLimitEach]
MCLinkMaxFiles      == [l \in Links |-> FilesEach]
MCLinkMaxTotalBytes == [l \in Links |-> TotalEach]
=============================================================================
