-------------------------- MODULE MCPublishRelease --------------------------
(***************************************************************************)
(* PublishRelease for TLC.  Two subjects let an upload end half way; a     *)
(* second run meets what the first left; two acts of maintainers change a  *)
(* draft and the setting that locks it.                                    *)
(***************************************************************************)
EXTENDS PublishRelease

MCIds == 1 .. 2
=============================================================================
