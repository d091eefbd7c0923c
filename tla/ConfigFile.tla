------------------------------- MODULE ConfigFile -------------------------------
(***************************************************************************)
(* ~/.aitrack/config.toml (client/src/config.rs).  `aitrack init` loads    *)
(* it, sets what its arguments say, gives the device an id if it has none, *)
(* and saves it: the text goes to a temporary file, which is renamed over  *)
(* the old one.  The temporary file has one name for all processes.        *)
(***************************************************************************)
EXTENDS Integers, FiniteSets

CONSTANTS
    Proc,
    Setting,                 \* api_url and credential
    Nothing,                 \* no such file; an empty setting
    Torn,                    \* a text that does not parse
    MaxInits, MaxCrashes     \* bounds of the model

VARIABLES
    disk,            \* the text of each file: Torn, or a configuration
    tmp, config,     \* the files with these names, or Nothing
    pc,              \* "idle", "open", "write", "rename"
    cfg,             \* the configuration each process has in memory
    handle,          \* the file it has open
    saves,           \* how often it has to save
    inits, crashes

vars == <<disk, tmp, config, pc, cfg, handle, saves, inits, crashes>>

Id == 1 .. MaxInits
File == 1 .. Cardinality(Proc) + 2
Config == [settings : SUBSET Setting, device : Id \cup {Nothing}]
default == [settings |-> {}, device |-> Nothing]

Init ==
    /\ disk = [f \in File |-> Torn]
    /\ tmp = Nothing /\ config = Nothing
    /\ pc = [p \in Proc |-> "idle"]
    /\ cfg = [p \in Proc |-> default]
    /\ handle = [p \in Proc |-> Nothing]
    /\ saves = [p \in Proc |-> 0]
    /\ inits = 0 /\ crashes = 0

goto(p, place) == pc' = [pc EXCEPT ![p] = place]

\* load_config: what cannot be read or parsed is the default configuration.
load_config == IF config = Nothing \/ disk[config] = Torn THEN default ELSE disk[config]

\* Mutated form: every init makes a new id.
new_device(c) == inits + 1

\* ensure_device_id.
device_id(c) == IF c.device = Nothing THEN inits + 1 ELSE c.device

\* apply_init_args: some settings are given on the command line.  A new id is saved
\* at once, and then the configuration again.
Load(p) ==
    /\ pc[p] = "idle" /\ inits < MaxInits
    /\ inits' = inits + 1
    /\ \E given \in SUBSET Setting :
        cfg' = [cfg EXCEPT ![p] = [settings |-> load_config.settings \cup given,
                                   device |-> device_id(load_config)]]
    /\ saves' = [saves EXCEPT ![p] = IF load_config.device = Nothing THEN 2 ELSE 1]
    /\ goto(p, "open")
    /\ UNCHANGED <<disk, tmp, config, handle, crashes>>

unused(f) == f # tmp /\ f # config /\ \A p \in Proc : handle[p] # f

\* Mutated form: the configuration itself is opened.
opens_config == IF config = Nothing THEN CHOOSE f \in File : unused(f) ELSE config

opened == IF tmp = Nothing THEN CHOOSE f \in File : unused(f) ELSE tmp

\* save_config: create or truncate config.toml.tmp,
Open(p) ==
    /\ pc[p] = "open"
    /\ tmp' = opened
    /\ disk' = [disk EXCEPT ![opened] = Torn]
    /\ handle' = [handle EXCEPT ![p] = opened]
    /\ goto(p, "write")
    /\ UNCHANGED <<config, cfg, saves, inits, crashes>>

\* write the text, over a longer one perhaps that another process wrote meanwhile,
Write(p) ==
    /\ pc[p] = "write"
    /\ \E text \in {cfg[p]} \cup (IF disk[handle[p]] \in {Torn, cfg[p]} THEN {} ELSE {Torn}) :
        disk' = [disk EXCEPT ![handle[p]] = text]
    /\ handle' = [handle EXCEPT ![p] = Nothing]
    /\ goto(p, "rename")
    /\ UNCHANGED <<tmp, config, cfg, saves, inits, crashes>>

\* and rename it, which fails when another process already has.
Rename(p) ==
    /\ pc[p] = "rename"
    /\ IF tmp = Nothing
       THEN UNCHANGED <<tmp, config>> /\ saves' = [saves EXCEPT ![p] = 0]
       ELSE tmp' = Nothing /\ config' = tmp /\ saves' = [saves EXCEPT ![p] = @ - 1]
    /\ goto(p, IF saves'[p] = 0 THEN "idle" ELSE "open")
    /\ UNCHANGED <<disk, cfg, handle, inits, crashes>>

Crash(p) ==
    /\ pc[p] # "idle" /\ crashes < MaxCrashes
    /\ crashes' = crashes + 1
    /\ handle' = [handle EXCEPT ![p] = Nothing]
    /\ saves' = [saves EXCEPT ![p] = 0]
    /\ goto(p, "idle")
    /\ UNCHANGED <<disk, tmp, config, cfg, inits>>

Next == \E p \in Proc : Load(p) \/ Open(p) \/ Write(p) \/ Rename(p) \/ Crash(p)
Spec == Init /\ [][Next]_vars

-----------------------------------------------------------------------------
(* Whatever moment init is killed at, what a capture reads is a whole      *)
(* configuration (CHANGELOG.md:266, a temporary file and an atomic rename  *)
(* so that an interrupted write leaves no broken file).  Two processes     *)
(* that save at once share the temporary file: one truncates what the      *)
(* other renames.                                                          *)
ConfigIsWhole == config # Nothing => disk[config] # Torn

(* A device keeps its id, and a setting once saved is not lost, whatever   *)
(* inits are killed half way.                                              *)
SavedStays ==
    [][LET before == load_config
           after == load_config'
       IN  /\ before.device # Nothing => after.device = before.device
           /\ before.settings \subseteq after.settings]_vars
=============================================================================
