---------------------------- MODULE LibraryBytes ----------------------------
(***************************************************************************)
(* Of the components that MCLibrary puts into one model: the shim's        *)
(* streams of bytes, and the buffer they are read into.                    *)
(***************************************************************************)
CONSTANTS
  Modes,                           \* ways to read a stream of bytes
  Delimiters, PipeSize, BufferSize, ReadSize, Bytes, Capacity

VARIABLES pipe, rb

Pipe == INSTANCE ByteStream
Buffer == INSTANCE ReadBuf

ASSUME ByteLibraryAssumption == Pipe!ByteStreamAssumption /\ Buffer!ReadBufAssumption

=============================================================================
