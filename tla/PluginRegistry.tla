--------------------------- MODULE PluginRegistry ---------------------------
(***************************************************************************)
(* PluginRegistry of forge-integrations: a JavaScript Map of plugins that  *)
(* register, unregister and clear() change while dispatch(), which awaits  *)
(* each handler, walks it.  Map semantics: an iterator keeps its place,    *)
(* skips what was deleted and visits what was added meanwhile.             *)
(***************************************************************************)
EXTENDS Naturals, Sequences, FiniteSets, SequencesExt

CONSTANTS PluginIds, CapabilityIds, MaxRegistrations  \* bound: successful register() calls

VARIABLES plugins,   \* the Map's entries in insertion order: [id, caps, hook, registeredAt, serial, gone]
          loadOrder, serials,
          dispatching,  \* [at: last entry visited, or 0; state: "idle", "next", "awaiting"]
          standing,  \* serials with the hook that have been registered since the dispatch began
          called,    \* serials whose handler this dispatch called, in order
          outcome    \* of the last dispatch: "none", "done", "threw"

pluginVars == <<plugins, loadOrder, serials, dispatching, standing, called, outcome>>

Idle == [at |-> 0, state |-> "idle"]
Live == {i \in DOMAIN plugins : ~plugins[i].gone}
Ids == {plugins[i].id : i \in Live}

Overlaps(caps) == \E i \in Live : caps \cap plugins[i].caps # {}

(* register: a manifest is rejected when it does not validate, its id is   *)
(* taken, or one of its capabilities is owned already.                     *)
Register ==
  /\ serials < MaxRegistrations
  /\ \E id \in PluginIds \ Ids, caps \in SUBSET CapabilityIds, hook \in BOOLEAN :
       /\ ~Overlaps(caps)
       /\ serials' = serials + 1 /\ loadOrder' = loadOrder + 1
       /\ plugins' = Append(plugins, [id |-> id, caps |-> caps, hook |-> hook,
                                      registeredAt |-> loadOrder', serial |-> serials', gone |-> FALSE])
  /\ UNCHANGED <<dispatching, standing, called, outcome>>

Drop(gone) ==
  /\ plugins' = [i \in DOMAIN plugins |-> IF i \in gone THEN [plugins[i] EXCEPT !.gone = TRUE] ELSE plugins[i]]
  /\ standing' = standing \ {plugins[i].serial : i \in gone}

Unregister ==
  /\ \E i \in Live : Drop({i})
  /\ UNCHANGED <<loadOrder, serials, dispatching, called, outcome>>

Clear ==
  /\ Live # {} /\ Drop(Live) /\ loadOrder' = 0
  /\ UNCHANGED <<serials, dispatching, called, outcome>>

(* dispatch.                                                               *)
BeginDispatch ==
  /\ dispatching.state = "idle"
  /\ dispatching' = [at |-> 0, state |-> "next"]
  /\ standing' = {plugins[i].serial : i \in {j \in Live : plugins[j].hook}}
  /\ called' = <<>> /\ outcome' = "none"
  /\ UNCHANGED <<plugins, loadOrder, serials>>

\* Mutant: the next entry is found by counting, as in an array.
AheadByCount == {i \in Live : Cardinality({j \in Live : j < i}) >= dispatching.at}

Ahead == {i \in Live : i > dispatching.at}

NextEntry ==
  /\ dispatching.state = "next"
  /\ IF Ahead = {} THEN
       /\ dispatching' = Idle /\ outcome' = "done" /\ called' = called
     ELSE LET i == CHOOSE i \in Ahead : \A j \in Ahead : i <= j IN
       /\ dispatching' = [at |-> i, state |-> IF plugins[i].hook THEN "awaiting" ELSE "next"]
       /\ called' = IF plugins[i].hook THEN Append(called, plugins[i].serial) ELSE called
       /\ outcome' = outcome
  /\ UNCHANGED <<plugins, loadOrder, serials, standing>>

HookEnds ==
  /\ dispatching.state = "awaiting"
  /\ \/ dispatching' = [dispatching EXCEPT !.state = "next"] /\ outcome' = outcome
     \/ dispatching' = Idle /\ outcome' = "threw"
  /\ UNCHANGED <<plugins, loadOrder, serials, standing, called>>

PluginInit ==
  /\ plugins = <<>> /\ loadOrder = 0 /\ serials = 0
  /\ dispatching = Idle /\ standing = {} /\ called = <<>> /\ outcome = "none"

PluginNext == Register \/ Unregister \/ Clear \/ BeginDispatch \/ NextEntry \/ HookEnds

PluginSpec == PluginInit /\ [][PluginNext]_pluginVars
-----------------------------------------------------------------------------
(* A capability has one owner, and list() (by registeredAt) agrees with    *)
(* the order dispatch uses (insertion), also after clear() has set the     *)
(* counter back.                                                           *)
CapabilityHasOneOwner ==
  \A i, j \in Live : i < j =>
    /\ plugins[i].id # plugins[j].id /\ plugins[i].caps \cap plugins[j].caps = {}
    /\ plugins[i].registeredAt < plugins[j].registeredAt

(* A dispatch that was not stopped by an error called every plugin which   *)
(* was there from its beginning to its end, each registration once and in  *)
(* the order of registration, whatever the handlers registered or removed  *)
(* meanwhile.                                                              *)
DispatchReachesAll ==
  /\ \A i, j \in DOMAIN called : i < j => called[i] < called[j]
  /\ outcome = "done" => standing \subseteq ToSet(called)

(* The registry stays one list while handlers change it.                   *)
RegistrySound == CapabilityHasOneOwner /\ DispatchReachesAll
=============================================================================
