------------------------------ MODULE Plugins ------------------------------
\* PluginLoader and PluginRegistry, src/plugins/loader.py: discovery, dependencies,
\* loading and the lifecycle of plugins whose hooks may raise.
\*
\* All of it is synchronous: an action is one call.  A plugin object is made anew by
\* every load; the registry keeps one object for each name.
\* Left out: manifests and paths, which decide what is discovered, the import
\* sandbox, which every load removes again, and the texts of errors.
EXTENDS Integers, FiniteSets

CONSTANTS
  Names,       \* plugins that can be discovered
  Requires,    \* the dependencies of each: other plugins that must be discovered
  Mismatched,  \* plugins whose version satisfies nobody
  MaxObjects   \* bound: plugin objects made

VARIABLES
  discovered,  \* _discovered
  factories,   \* keys of _factories: plugins found as entry points
  errors,      \* keys of _errors
  instances,   \* _instances: the object of a name, or 0
  object,      \* the plugin objects
  made,        \* how many there are
  replaced     \* history: objects that a later load or clear took off the registry

pluginVars == <<discovered, factories, errors, instances, object, made, replaced>>

Objects == 1..MaxObjects

\* A plugin object: the name it was loaded for, its state and, as history, whether
\* on_init has returned, whether on_start has and on_stop has not since, and whether
\* one of these two raised.
Fresh(name, state, ready) ==
  [name |-> name, state |-> state, ready |-> ready, active |-> FALSE, hurt |-> FALSE]
Unborn == Fresh(0, "NONE", FALSE)

Init ==
  /\ discovered = {} /\ factories = {} /\ errors = {}
  /\ instances = [n \in Names |-> 0]
  /\ object = [o \in Objects |-> Unborn]
  /\ made = 0 /\ replaced = {}

\* discover, from a directory or from entry points, which register a factory too.
Discover(S, F) ==
  /\ S # {} /\ F \subseteq S
  /\ discovered' = discovered \union S
  /\ factories' = factories \union F
  /\ UNCHANGED <<errors, instances, object, made, replaced>>

\* check_dependencies looks at what is discovered, not at what is loaded.
Resolved(n) == Requires[n] \subseteq discovered \ Mismatched

\* load_plugin of a name whose dependencies are missing.
Unresolved(n) ==
  /\ n \in discovered /\ ~Resolved(n)
  /\ errors' = errors \union {n}
  /\ UNCHANGED <<discovered, factories, instances, object, made, replaced>>

\* _initialize_plugin: on_load, validate and on_init in this order.  Each may raise;
\* the object is then left in the state it had reached and is not registered.
Initialize(n, o, state, ready) ==
  /\ object' = [object EXCEPT ![o] = Fresh(n, state, ready)]
  /\ IF ready
     THEN /\ instances' = [instances EXCEPT ![n] = o]
          /\ replaced' = replaced \union ({instances[n]} \ {0})
     ELSE UNCHANGED <<instances, replaced>>

\* load_plugin, also of a plugin that is loaded.  load_all goes on to the next one.
Load(n) ==
  /\ n \in discovered /\ Resolved(n) /\ made < MaxObjects
  /\ made' = made + 1
  /\ \E state \in {"LOADED", "VALIDATED", "INITIALIZED"}, ready \in BOOLEAN :
       (ready => state = "INITIALIZED") /\ Initialize(n, made + 1, state, ready)
  /\ UNCHANGED <<discovered, factories, errors>>

Of(n) == object[instances[n]]

\* A hook of a loaded plugin was called, whatever its state; this is what became of it.
Becomes(n, result) ==
  /\ object' = [object EXCEPT ![instances[n]] = result]
  /\ UNCHANGED <<discovered, factories, errors, instances, made, replaced>>

\* start_plugin and start_all: an error is kept as the state ERROR.
Start(n) ==
  /\ instances[n] # 0
  /\ \/ Becomes(n, [Of(n) EXCEPT !.state = "RUNNING", !.active = TRUE])
     \/ Becomes(n, [Of(n) EXCEPT !.state = "ERROR", !.hurt = TRUE])

\* pause_plugin and resume_plugin: an error changes nothing.
PauseOrResume(n) ==
  /\ instances[n] # 0
  /\ \E state \in {"PAUSED", "RUNNING"} : Becomes(n, [Of(n) EXCEPT !.state = state])

Stopped(it) == [it EXCEPT !.state = "STOPPED", !.active = FALSE]

Stop(n) ==
  /\ instances[n] # 0
  /\ \/ Becomes(n, Stopped(Of(n)))
     \/ Becomes(n, [Of(n) EXCEPT !.state = "ERROR", !.hurt = TRUE])

\* stop_all of the registry: an error leaves the state of its plugin as it was.
StopAll(raising) ==
  /\ \E n \in Names : instances[n] # 0
  /\ object' = [o \in Objects |->
       IF \E n \in Names : instances[n] = o
       THEN IF object[o].name \in raising THEN [object[o] EXCEPT !.hurt = TRUE]
            ELSE Stopped(object[o])
       ELSE object[o]]
  /\ UNCHANGED <<discovered, factories, errors, instances, made, replaced>>

\* unload_plugin stops the plugin first if its state says that it is not stopped.
NeedsStop(state) == state \in {"RUNNING", "PAUSED"}

\* on_stop raises, or on_unload does after it: the plugin stays registered, and in
\* the second case its state still says RUNNING.
UnloadFails(n) ==
  /\ instances[n] # 0
  /\ \/ NeedsStop(Of(n).state) /\ Becomes(n, [Of(n) EXCEPT !.hurt = TRUE])
     \/ Becomes(n, [Of(n) EXCEPT !.active = @ /\ ~NeedsStop(Of(n).state)])

Unload(n) ==
  /\ instances[n] # 0
  /\ object' = [object EXCEPT ![instances[n]].state = "UNLOADED",
                              ![instances[n]].active = @ /\ ~NeedsStop(Of(n).state)]
  /\ instances' = [instances EXCEPT ![n] = 0]
  /\ factories' = factories \ {n}
  /\ UNCHANGED <<discovered, errors, made, replaced>>

\* clear and clear_error of the registry: the objects themselves are not stopped.
Clear ==
  /\ discovered' = {} /\ factories' = {} /\ errors' = {}
  /\ instances' = [n \in Names |-> 0]
  /\ replaced' = replaced \union ({instances[n] : n \in Names} \ {0})
  /\ UNCHANGED <<object, made>>

ClearError(n) ==
  /\ errors' = errors \ {n}
  /\ UNCHANGED <<discovered, factories, instances, object, made, replaced>>

Next ==
  \/ Clear
  \/ \E S \in SUBSET Names : \E F \in SUBSET S : Discover(S, F)
  \/ \E S \in SUBSET Names : StopAll(S)
  \/ \E n \in Names :
       \/ Unresolved(n) \/ Load(n) \/ Start(n) \/ PauseOrResume(n) \/ Stop(n)
       \/ Unload(n) \/ UnloadFails(n) \/ ClearError(n)

-----------------------------------------------------------------------------
\* The shape of the registry and of the objects.
TypeOK ==
  /\ discovered \subseteq Names /\ factories \subseteq Names /\ errors \subseteq Names
  /\ instances \in [Names -> 0..made] /\ made \in 0..MaxObjects
  /\ replaced \subseteq 1..made
  /\ \A o \in Objects :
       /\ object[o].state \in {"NONE", "LOADED", "VALIDATED", "INITIALIZED", "RUNNING",
                               "PAUSED", "STOPPED", "ERROR", "UNLOADED"}
       /\ {object[o].ready, object[o].active, object[o].hurt} \subseteq BOOLEAN
       /\ object[o].name \in Names \union {0} /\ (object[o] = Unborn <=> o > made)

\* The registry holds the plugins that went through all of their initialisation and
\* no others, and loses one only by unloading it, to a second load of its name, or
\* when all of it is cleared.
\* An unloaded plugin is not active, unless its own on_start or on_stop raised.
PluginsAccounted ==
  /\ \A n \in Names : instances[n] # 0 => Of(n).name = n /\ Of(n).ready
  /\ \A o \in Objects :
       LET it == object[o]
       IN /\ it.ready => \/ it.state = "UNLOADED" \/ o \in replaced
                         \/ instances[it.name] = o
          /\ it.state = "UNLOADED" /\ it.active => it.hurt
=============================================================================
