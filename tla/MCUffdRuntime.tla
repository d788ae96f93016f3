---------------------------- MODULE MCUffdRuntime ----------------------------
(***************************************************************************)
(* Two attempts to get a uffd instead of five, up to three messages and    *)
(* three faults: the attempts can be used up by messages without a uffd    *)
(* and by the end of the stream.                                           *)
(***************************************************************************)
EXTENDS UffdRuntime
=============================================================================
