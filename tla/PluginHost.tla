----------------------------- MODULE PluginHost ------------------------------
(***************************************************************************)
(* The host: it loads dynamic libraries as plugins, sends them requests,   *)
(* drives their tasks, and unloads them again, by the commands of a test   *)
(* script or as one of its fixed programs does.  All on one thread, so a   *)
(* call into a plugin is one step, and unloading has a step for each of    *)
(* the four things it does.  What a call does is the plugin's affair: it   *)
(* may leave tasks and resources behind or clean up.  The loader counts    *)
(* open handles and unmaps a library when none is left.                    *)
(***************************************************************************)
EXTENDS Naturals, Sequences, FiniteSets

CONSTANTS
  Libs,        \* libraries, as load_plugin is given them
  Names,       \* names in the table of loaded plugins
  MaxLoads     \* bound: plugin ids

HostAssumption == IsFiniteSet(Libs) /\ IsFiniteSet(Names) /\ MaxLoads \in Nat

VARIABLE host

Ids    == 1 .. MaxLoads
NoId   == 0
Kinds  == {"task", "resource"}
Values == [kind : Kinds, of : Ids, tag : 0 .. MaxLoads]

HostType ==
  [ mode   : {"test", "run", "reload", "over"},
    todo   : Seq({"load", "send", "unload"}),   \* of a fixed program
    count  : [Libs -> Nat],            \* the loader's open handles
    guard  : [Libs -> BOOLEAN],        \* PLUGIN_GUARD of the mapped library is set
    lib    : Seq(Libs),                \* of the ids given out so far
    table  : [Names -> Ids \cup {NoId}],
    doing  : {"commands", "wait", "destroy", "tasks", "resources", "close", "end"},
    plugin : Ids \cup {NoId},          \* that is being waited for or unloaded
    live   : SUBSET Values,            \* tasks and resources that are there
    \* history: the plugins whose code or handle was used when their library
    \* was unmapped; those whose destroy or failed init left something behind;
    \* the libraries that were loaded while they were loaded
    stray  : SUBSET Ids,
    left   : SUBSET Ids,
    again  : SUBSET Libs ]

TypeOK == host \in HostType

(* test_reload: load, three requests, unload, and all of it once more.     *)
ReloadScript ==
  LET once == <<"load", "send", "send", "send", "unload">> IN once \o once

(* main's default: load what there is, requests in turn; then all are      *)
(* dropped.  A plugin that cannot be loaded is passed over.                *)
RunScript == <<"load", "load", "send", "send", "send">>

Script(mode) ==
  CASE mode = "reload" -> ReloadScript
    [] mode = "run"    -> RunScript
    [] mode = "test"   -> << >>

Init ==
  \E mode \in {"test", "run", "reload"} :
    host = [ mode |-> mode, todo |-> Script(mode),
             count |-> [l \in Libs |-> 0], guard |-> [l \in Libs |-> FALSE],
             lib |-> << >>, table |-> [n \in Names |-> NoId], doing |-> "commands",
             plugin |-> NoId, live |-> {}, stray |-> {}, left |-> {}, again |-> {} ]

-----------------------------------------------------------------------------
(* Calls into plugins *)

Mapped(h, id) == h.count[h.lib[id]] > 0

(* Spawned tasks and stored resources are tagged with the current plugin   *)
(* as tau-rt knows it.  set_current_plugin of the host writes the host's   *)
(* variable of that name, not tau-rt's, so that this is always 0.          *)
Tag(id) == 0

Made(id) == {[kind |-> k, of |-> id, tag |-> Tag(id)] : k \in Kinds}
Of(h, id) == {v \in h.live : v.of = id}

(* Code of plugin id runs: it adds or removes some of its values.          *)
Calls(h, id) ==
  {[h EXCEPT !.live = (@ \ Of(h, id)) \cup kept,
             !.stray = IF Mapped(h, id) THEN @ ELSE @ \cup {id}] : kept \in SUBSET Made(id)}

(* What plugin id has at the end it will not clean up itself. *)
Leaves(h, id) == [h EXCEPT !.left = IF Of(h, id) = {} THEN @ ELSE @ \cup {id}]

-----------------------------------------------------------------------------
(* Loading *)

Opened(h, l) ==
  [h EXCEPT !.count[l] = @ + 1, !.guard[l] = @ /\ h.count[l] > 0,
            !.again = IF h.count[l] > 0 THEN @ \cup {l} ELSE @]

(* dlclose of a plugin's library; when that is not open, a stray use of the*)
(* handle.                                                                 *)
Closed(h, id) ==
  IF Mapped(h, id) THEN [h EXCEPT !.count[h.lib[id]] = @ - 1]
  ELSE [h EXCEPT !.stray = @ \cup {id}]

NeverKept(h, id) == Closed(h, id)  \* mutant: the host drops the only guard

(* plugin_init puts a clone of the guard into PLUGIN_GUARD, unless one is  *)
(* there; the host drops its own.  The last guard to go closes the library.*)
GuardKept(h, id) ==
  IF h.guard[h.lib[id]] THEN Closed(h, id) ELSE [h EXCEPT !.guard[h.lib[id]] = TRUE]

(* Of AsyncPlugin::load, what comes before it is known whether init failed.*)
Initialised(l) ==
  LET h  == [Opened(host, l) EXCEPT !.lib = Append(@, l)]
      id == Len(h.lib)
  IN  {GuardKept(c, id) : c \in Calls(h, id)}

Commands(word) ==
  /\ host.doing = "commands"
  /\ host.mode # "test" => host.todo # << >> /\ Head(host.todo) = word

Rest(h) == [h EXCEPT !.todo = IF @ = << >> THEN @ ELSE Tail(@)]

(* The new plugin takes the name; an old one of that name is dropped then. *)
Insert(h, n) ==
  LET old == h.table[n]
      new == [h EXCEPT !.table[n] = Len(h.lib)]
  IN  IF old = NoId THEN new ELSE [new EXCEPT !.doing = "destroy", !.plugin = old]

Load(n, l) ==
  /\ Len(host.lib) < MaxLoads
  /\ Commands("load") /\ (host.mode # "test" => host.table[n] = NoId)
  /\ \E h \in Initialised(l) : host' = Rest(Insert(h, n))

(* init returned an error: the library is closed, what it made stays.      *)
LoadFails(l) ==
  /\ Len(host.lib) < MaxLoads /\ host.mode # "reload" /\ Commands("load")
  /\ \E h \in Initialised(l) : host' = Rest(Closed(Leaves(h, Len(h.lib)), Len(h.lib)))

-----------------------------------------------------------------------------
(* Requests *)

(* submit, and block_on for a task if one was spawned and its id returned. *)
Send(n) ==
  /\ Commands("send") /\ host.table[n] # NoId
  /\ \E h \in Calls(host, host.table[n]), waits \in BOOLEAN :
       /\ waits => \E v \in Of(h, host.table[n]) : v.kind = "task"
       /\ host' = IF waits THEN [Rest(h) EXCEPT !.doing = "wait", !.plugin = host.table[n]]
                  ELSE Rest(h)

TasksOf(h, id) == {v \in Of(h, id) : v.kind = "task"}

(* A task is polled, by a "drive" of the script or while one is waited for.*)
PollTask(id) ==
  /\ host.doing = "wait" \/ (host.doing = "commands" /\ host.mode = "test")
  /\ id <= Len(host.lib) /\ TasksOf(host, id) # {}
  /\ \E h \in Calls(host, id) : host' = h

WaitEnds ==
  /\ host.doing = "wait" /\ TasksOf(host, host.plugin) = {}
  /\ host' = [host EXCEPT !.doing = "commands", !.plugin = NoId]

-----------------------------------------------------------------------------
(* Unloading: AsyncPlugin::drop *)

Unload(n) ==
  /\ Commands("unload") /\ host.table[n] # NoId
  /\ host' = [Rest(host) EXCEPT !.doing = "destroy", !.plugin = host.table[n], !.table[n] = NoId]

(* The end of the program: the plugins that are left are dropped, those of *)
(* a test script in any order.                                             *)
EndOfScript ==
  /\ host.doing = "commands" /\ host.todo = << >>
  /\ host' = [host EXCEPT !.doing = "end"]

Cleanup(n) ==
  /\ host.doing = "end" /\ host.table[n] # NoId
  /\ host' = [host EXCEPT !.doing = "destroy", !.plugin = host.table[n], !.table[n] = NoId,
                          !.mode = "over"]

Destroy ==
  /\ host.doing = "destroy"
  /\ \E h \in Calls(host, host.plugin) :
       host' = [Leaves(h, host.plugin) EXCEPT !.doing = "tasks"]

Tagged(kind) == {v \in host.live : v.kind = kind /\ v.tag = host.plugin}

(* drop_plugin_tasks, drop_plugin_resources: destructors run. *)
Drop(kind, next) ==
  host' = [host EXCEPT !.live = @ \ Tagged(kind), !.doing = next,
                       !.stray = @ \cup {v.of : v \in {w \in Tagged(kind) : ~Mapped(host, w.of)}}]

DropTasks     == host.doing = "tasks" /\ Drop("task", "resources")
DropResources == host.doing = "resources" /\ Drop("resource", "close")

Close ==
  /\ host.doing = "close"
  /\ host' = [Closed(host, host.plugin) EXCEPT
                !.doing = IF host.mode = "over" THEN "end" ELSE "commands", !.plugin = NoId]

Next ==
  \/ \E n \in Names, l \in Libs : Load(n, l)
  \/ \E l \in Libs : LoadFails(l)
  \/ \E n \in Names : Send(n) \/ Unload(n) \/ Cleanup(n)
  \/ \E id \in Ids : PollTask(id)
  \/ WaitEnds \/ EndOfScript \/ Destroy \/ DropTasks \/ DropResources \/ Close

Spec == Init /\ [][Next]_host

-----------------------------------------------------------------------------
(* "Now safe to unload the dylib - no code pointers remain" (main.rs):     *)
(* whatever is left, in the executor, in the registry of resources, in the *)
(* table or half unloaded, has its library mapped, and no code or handle   *)
(* was used after its time.                                                *)
InUse == {host.table[n] : n \in Names} \cup {host.plugin}

NoCodePointersDangle ==
  /\ host.stray = {}
  /\ \A v \in host.live : Mapped(host, v.of)
  /\ \A id \in InUse \ {NoId} : Mapped(host, id)

(* That is not so (the run that checks it says why), but only what a       *)
(* plugin's own destroy or failed init left behind dangles, and plugins of *)
(* a library that was loaded while it was loaded: whatever else is done,   *)
(* what lives has its library mapped, and so have the plugins in use.      *)
Once(id) == host.lib[id] \notin host.again

OnlyLeftoversDangle ==
  /\ \A id \in host.stray : Once(id) => id \in host.left
  /\ \A v \in host.live : Once(v.of) => Mapped(host, v.of) \/ v.of \in host.left
  /\ \A id \in InUse \ {NoId} : Once(id) => Mapped(host, id)

(* A library has an open handle for each plugin that is loaded from it,    *)
(* and none when there is no such plugin: it can be loaded afresh.         *)
HandlesAreExact ==
  \A l \in Libs \ host.again :
    host.count[l] = Cardinality({id \in InUse \ {NoId} : host.lib[id] = l})

=============================================================================
