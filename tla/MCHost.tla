------------------------------ MODULE MCHost ------------------------------
(***************************************************************************)
(* The parts of the host and what lies at its edges, each by itself, in    *)
(* one model for TLC: plugins and their guards, the registry of resources, *)
(* the storage of tasks, the reactor and the sockets on it, child          *)
(* processes, the compiler, and the text functions of the terminal         *)
(* library.  `which' says whose states these are; the variables of the     *)
(* others stay off.                                                        *)
(***************************************************************************)
EXTENDS Naturals, Sequences, SequencesExt, FiniteSets

CONSTANTS
  Chosen,                \* the components that are checked
  AwaitBoxed,            \* results of boxed tasks are awaited
  Sockets,               \* kinds of descriptors
  Libs, Loaded, Names, Types, Plugins, Guarded, Threads, Tasks, reader, NONE,
  Sources, Envs,         \* of the compiler
  PipeSize,
  MaxLoads, MaxClones, MaxPuts, MaxOutput, MaxClock, MaxVersion     \* bounds

(* One task reads, the others write. *)
DirOf == [t \in Tasks |-> IF t = reader THEN "read" ELSE "write"]

(* What a child writes to its two outputs: its errors fit into their pipe. *)
Outputs == {w \in [{"out", "err"} -> 0 .. MaxOutput] : w["err"] <= PipeSize}

Texts ==
  SeqOf({"a", "W", " ", "red", "reset", "nl"}, 5)
    \cup SeqOf({"a", "tab", "zwj", "osc", " ", "bold"}, 4)

Strings ==
  SeqOf({"esc", "bel", "p", "i", "[", "]", "bs", "x"}, 4)
    \cup {<<"esc", "[">> \o s : s \in SeqOf({"esc", "p", "i", "f", "_"}, 4)}

VARIABLES which, host, grd, reg, mem, io, child, cc, lay, strip

Host == INSTANCE PluginHost
Guards == INSTANCE PluginGuards WITH Values <- Guarded
Registry == INSTANCE Resources WITH Races <- FALSE
Storage == INSTANCE Payload
React == INSTANCE Reactor WITH Kinds <- Sockets
Process == INSTANCE ChildProcess
Compile == INSTANCE Compiler WITH Habits <- {}
Layout == INSTANCE TextLayout WITH Widths <- {2, 3}
Ansi == INSTANCE AnsiCodes

ASSUME HostAssumption ==
  /\ Host!HostAssumption /\ Guards!GuardAssumption
  /\ Registry!ResourceAssumption /\ Storage!PayloadAssumption
  /\ React!ReactorAssumption
  /\ Process!ChildProcessAssumption /\ Compile!CompilerAssumption
  /\ Layout!TextAssumption /\ Ansi!StringAssumption

Off == [off |-> TRUE]

Components ==
  {"plugins", "guards", "resources", "storage", "reactor", "child",
   "compiler", "wrap", "ansi"}

(* Of the variables one is its component's, the others stay off. *)
Init ==
  /\ which \in Chosen
  /\ IF which = "plugins" THEN Host!Init ELSE host = Off
  /\ IF which = "guards" THEN Guards!Init ELSE grd = Off
  /\ IF which = "resources" THEN Registry!Init ELSE reg = Off
  /\ IF which = "storage" THEN Storage!Init ELSE mem = Off
  /\ IF which = "reactor" THEN React!Init ELSE io = Off
  /\ IF which = "child" THEN Process!Init ELSE child = Off
  /\ IF which = "compiler" THEN Compile!Init ELSE cc = Off
  /\ IF which = "wrap" THEN Layout!Init ELSE lay = Off
  /\ IF which = "ansi" THEN Ansi!Init ELSE strip = Off

Next ==
  /\ UNCHANGED which
  /\ \/ which = "plugins" /\ Host!Next
           /\ UNCHANGED <<grd, reg, mem, io, child, cc, lay, strip>>
     \/ which = "guards" /\ Guards!Next
           /\ UNCHANGED <<host, reg, mem, io, child, cc, lay, strip>>
     \/ which = "resources" /\ Registry!Next
           /\ UNCHANGED <<host, grd, mem, io, child, cc, lay, strip>>
     \/ which = "storage" /\ Storage!Next
           /\ UNCHANGED <<host, grd, reg, io, child, cc, lay, strip>>
     \/ which = "reactor" /\ React!Next
           /\ UNCHANGED <<host, grd, reg, mem, child, cc, lay, strip>>
     \/ which = "child" /\ Process!Next
           /\ UNCHANGED <<host, grd, reg, mem, io, cc, lay, strip>>
     \/ which = "compiler" /\ Compile!Next
           /\ UNCHANGED <<host, grd, reg, mem, io, child, lay, strip>>
     \/ which = "wrap" /\ Layout!Next
           /\ UNCHANGED <<host, grd, reg, mem, io, child, cc, strip>>
     \/ which = "ansi" /\ Ansi!Next
           /\ UNCHANGED <<host, grd, reg, mem, io, child, cc, lay>>

Spec == Init /\ [][Next]_<<which, host, grd, reg, mem, io, child, cc, lay, strip>>

-----------------------------------------------------------------------------
(* Each component's variable has its type. *)
TypeOK ==
  /\ which \in Components
  /\ which = "plugins" => Host!TypeOK
  /\ which = "guards" => Guards!TypeOK
  /\ which = "resources" => Registry!TypeOK
  /\ which = "storage" => Storage!TypeOK
  /\ which = "reactor" => React!TypeOK
  /\ which = "child" => Process!TypeOK
  /\ which = "compiler" => Compile!TypeOK
  /\ which = "wrap" => Layout!TypeOK
  /\ which = "ansi" => Ansi!TypeOK

(* "Now safe to unload the dylib - no code pointers remain" (main.rs).     *)
NoCodePointersDangle == which = "plugins" => Host!NoCodePointersDangle

(* That is not so; but all that dangles is what a plugin's destroy or its  *)
(* failed init left behind, and plugins of a library that was loaded twice,*)
(* and for guarded values it is the host's unload alone: on any thread     *)
(* they keep their library mapped until their code has run for the last    *)
(* time.  The counts of handles and of guards are right.                   *)
NothingElseDangles ==
  /\ which = "plugins" => Host!OnlyLeftoversDangle /\ Host!HandlesAreExact
  /\ which = "guards" => Guards!GuardsAreExact

(* A stored resource ends once, in one place, and is not used afterwards;  *)
(* so do a task's future and its result, with the box they are in.         *)
ValuesEndOnce ==
  /\ which = "resources" => Registry!ValuesEndOnce
  /\ which = "storage" => Storage!PayloadsEndOnce

(* A task parked in a socket, pipe or AsyncFd is registered for what it    *)
(* waits for: "tasks register interest with the reactor and get woken      *)
(* when the socket becomes ready" (reactor.rs).  It is not if it shares a  *)
(* UDP socket or an AsyncFd with another task that came after it, has the  *)
(* write half of a stream whose read half was dropped, or was overtaken by *)
(* another thread's poll of the reactor.                                   *)
WaitersAreRegistered == which = "reactor" => React!WaitersAreRegistered

(* A child's output is complete when it is answered, and is answered.      *)
OutputIsComplete ==
  which = "child" => Process!OutputIsComplete /\ Process!OutputGetsOn

(* What is loaded as up to date was compiled from what is there.           *)
LoadedIsFresh == which = "compiler" => Compile!LoadedIsFresh

(* Wrapped, cut and stripped text is the text.                             *)
TextIsFaithful ==
  /\ which = "wrap" => Layout!WrappedIsFaithful /\ Layout!CutsAreFaithful
  /\ which = "ansi" => Ansi!CodesAreExact

=============================================================================
