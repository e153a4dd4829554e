------------------------------ MODULE Compiler ------------------------------
(***************************************************************************)
(* The host's plugin compiler for one crate: it answers with the artifact  *)
(* of an earlier build when no file it knows of has a younger time stamp,  *)
(* and otherwise runs cargo and copies what cargo built.  Artifacts live   *)
(* in a directory for each environment, named by a hash that a process     *)
(* computes once.  Cargo is external: it compiles what is there when it    *)
(* starts and lists the files it read in a dep file.  A source file has a  *)
(* version in place of a text; people edit files and restart the host.     *)
(***************************************************************************)
EXTENDS Naturals

CONSTANTS
  Sources,     \* files of the crate besides Cargo.toml
  Envs,        \* contents of libtau_rt, flags and rustc are fixed in the host
  MaxClock,    \* bound: time, in units a time stamp can tell apart
  MaxVersion,  \* bound: edits of a file
  Habits       \* what people and machines do, see CompilerAssumption

CompilerAssumption ==
  /\ MaxClock \in Nat \ {0} /\ MaxVersion \in Nat \ {0} /\ "none" \notin Envs
  /\ Habits \subseteq { "midbuild",   \* a file is edited while cargo runs
                        "replace",    \* libtau_rt is replaced under a running host
                        "crash" }     \* the host dies while it copies

VARIABLE cc

Manifest == "Cargo.toml"
Files    == Sources \cup {Manifest}
Times    == 0 .. MaxClock
Texts    == [Files -> 0 .. MaxVersion]     \* version 0: there is no such file
NoBuild  == [done |-> FALSE]

Builds == {NoBuild} \cup [done : {TRUE}, text : Texts, rt : Envs, whole : BOOLEAN, time : Times]
Deps   == {NoBuild} \cup [done : {TRUE}, files : SUBSET Sources]

CompilerType ==
  [ clock : Times,
    text  : Texts, time : [Files -> Times],
    rt    : Envs,                    \* libtau_rt on disk
    hash  : Envs \cup {"none"},      \* env_hash of the running process
    built : [Envs -> Builds],        \* what cargo left in target/
    deps  : [Envs -> Deps],          \* its dep file
    kept  : [Envs -> Builds],        \* the copy in plugins/
    doing : {"idle", "cargo", "copy", "load"},
    stale : BOOLEAN ]                \* something else than the sources was loaded (history)

TypeOK == cc \in CompilerType

Init ==
  \E rt \in Envs :
    cc = [ clock |-> 1, text |-> [f \in Files |-> 1], time |-> [f \in Files |-> 0],
           rt |-> rt, hash |-> "none",
           built |-> [e \in Envs |-> NoBuild], deps |-> [e \in Envs |-> NoBuild],
           kept |-> [e \in Envs |-> NoBuild], doing |-> "idle", stale |-> FALSE ]

-----------------------------------------------------------------------------
(* The world *)

Tick == cc.clock < MaxClock /\ cc' = [cc EXCEPT !.clock = @ + 1]

(* The time stamp of an edit is the time of the edit; whoever edits a file *)
(* in the same unit of time as the host copies an artifact goes unseen, as *)
(* whoever edits while cargo runs; "midbuild" lets them.                   *)
Unseen == cc.doing # "idle" \/ \E e \in Envs : cc.kept[e].done /\ cc.kept[e].time = cc.clock

Edit(f) ==
  /\ Unseen => "midbuild" \in Habits
  /\ cc.text[f] \in 1 .. MaxVersion - 1
  /\ cc' = [cc EXCEPT !.text[f] = @ + 1, !.time[f] = cc.clock]

(* A module comes or goes, and with it its line in another file. *)
AddOrRemove(f, g) ==
  /\ Unseen => "midbuild" \in Habits
  /\ f # g /\ f \in Sources /\ cc.text[g] \in 1 .. MaxVersion - 1
  /\ cc' = [cc EXCEPT !.text = [cc.text EXCEPT ![f] = IF @ = 0 THEN 1 ELSE 0, ![g] = @ + 1],
                      !.time = [cc.time EXCEPT ![f] = cc.clock, ![g] = cc.clock]]

ReplaceRt(e) ==
  /\ cc.rt # e /\ (cc.hash # "none" => "replace" \in Habits)
  /\ cc' = [cc EXCEPT !.rt = e]

(* The host is restarted. *)
Restart ==
  /\ cc.doing = "idle" /\ cc.hash # "none"
  /\ cc' = [cc EXCEPT !.hash = "none"]

-----------------------------------------------------------------------------
(* compile_plugin *)

(* The directory of this process: the hash is computed on its first use.   *)
Env(c) == IF c.hash = "none" THEN c.rt ELSE c.hash

ManifestNewer(c, made) == c.time[Manifest] > made
NeverNewer(c, made)    == FALSE     \* mutant: the manifest is not looked at
SomeDepNewer(c, made)  ==
  \E f \in c.deps[Env(c)].files : c.text[f] = 0 \/ c.time[f] > made

CargoTomlNewer(c, made) == ManifestNewer(c, made)

(* check_up_to_date *)
UpToDate(c) ==
  LET kept == c.kept[Env(c)] IN
  /\ kept.done /\ c.deps[Env(c)].done
  /\ ~CargoTomlNewer(c, kept.time) /\ ~SomeDepNewer(c, kept.time)

Check ==
  /\ cc.doing = "idle"
  /\ cc' = [cc EXCEPT !.hash = Env(cc), !.doing = IF UpToDate(cc) THEN "load" ELSE "cargo"]

(* Cargo reads the files now and ends at once or later, with edits between.*)
CargoSucceeds ==
  /\ cc.doing = "cargo"
  /\ cc' = [cc EXCEPT
       !.built[cc.hash] = [done |-> TRUE, text |-> cc.text, rt |-> cc.rt, whole |-> TRUE,
                           time |-> cc.clock],
       !.deps[cc.hash] = [done |-> TRUE, files |-> {f \in Sources : cc.text[f] > 0}],
       !.doing = "copy"]

CargoFails == cc.doing = "cargo" /\ cc' = [cc EXCEPT !.doing = "idle"]

(* find_artifact *)
Copied(whole) == [cc.built[cc.hash] EXCEPT !.time = cc.clock, !.whole = whole]

Copy ==
  /\ cc.doing = "copy"
  /\ cc' = [cc EXCEPT !.kept[cc.hash] = Copied(TRUE), !.doing = "load"]

(* The host dies when cargo is done, or while the artifact is copied. *)
Die ==
  /\ cc.doing = "copy"
  /\ \E half \in BOOLEAN :
       /\ half => "crash" \in Habits
       /\ cc' = [cc EXCEPT !.doing = "idle", !.hash = "none",
                           !.kept[cc.hash] = IF half THEN Copied(FALSE) ELSE @]

(* dlopen of what compile_plugin answered *)
Load ==
  /\ cc.doing = "load"
  /\ LET kept == cc.kept[cc.hash] IN
     cc' = [cc EXCEPT !.doing = "idle",
              !.stale = @ \/ ~kept.whole \/ kept.text # cc.text \/ kept.rt # cc.rt]

Next ==
  \/ Tick \/ Restart
  \/ \E f \in Files : Edit(f) \/ (\E g \in Files : AddOrRemove(f, g))
  \/ \E e \in Envs : ReplaceRt(e)
  \/ Check \/ CargoSucceeds \/ CargoFails \/ Copy \/ Die \/ Load

Spec == Init /\ [][Next]_cc

-----------------------------------------------------------------------------
(* What is loaded was compiled from the sources, the manifest and the      *)
(* runtime as they are, and is all there; whether it was just built or is  *)
(* judged up to date by its time stamps, across edits, failed builds,      *)
(* restarts and other runtimes.                                            *)
LoadedIsFresh == ~cc.stale

=============================================================================
