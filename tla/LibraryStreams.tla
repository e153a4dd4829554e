--------------------------- MODULE LibraryStreams ---------------------------
(***************************************************************************)
(* Of the components that MCLibrary puts into one model: tau's streams,    *)
(* and the shim's files.                                                   *)
(***************************************************************************)
EXTENDS Naturals, Sequences

CONSTANTS
  Items, Liked,                    \* as Streams says
  MaxEntries, MaxOps               \* bounds of a directory and of its use

(* The directory's entries are told apart by their numbers. *)
Entries == [i \in 1 .. MaxEntries |-> i]

VARIABLES strm, fsys

Stream == INSTANCE Streams
Files == INSTANCE FileSystem WITH Overtakes <- FALSE

ASSUME StreamLibraryAssumption ==
  MaxEntries \in Nat /\ Stream!StreamsAssumption /\ Files!FileAssumption

=============================================================================
