----------------------------- MODULE HookSettings -----------------------------
(***************************************************************************)
(* `aitrack init` and `aitrack remove` on the JSON settings of a tool that *)
(* is not aitrack's own (client/src/init.rs): ~/.claude/settings.json and  *)
(* ~/.cursor/hooks.json.  A file is read, changed in memory and written    *)
(* back in place, which truncates it first; the user, or the tool, edits   *)
(* it in between, and the process may be killed.                           *)
(***************************************************************************)
EXTENDS Integers

CONSTANTS
    Proc,
    List,            \* the hook arrays aitrack uses: "edit" (two for Cursor), "prompt"
    Rereads,         \* TRUE for Claude: the file is read again before every insertion,
                     \* and an entry has an array of commands, not one command
    PlainName,       \* TRUE when the executable is called `aitrack`, and not
                     \* aitrack.exe or aitrack-x86_64-unknown-linux-musl
    Absent, Broken,  \* no file, and one that does not parse
    Missing, Null,   \* a key that is not there, and one whose value is null
    MaxEdits, MaxCommands, MaxCrashes     \* bounds of the model

VARIABLES
    file,            \* Absent, Broken, or [list -> array]
    pc, buf, todo,   \* each process: its place, the value in memory, arrays left
    placed,          \* history: entries of others the user put into each array,
    joined,          \* and their commands put into aitrack's entries since a remove
    edits, commands, crashes,
    torn             \* history: a half-written file was parsed as {}

env_vars == <<placed, joined, edits>>
vars == <<file, pc, buf, todo, env_vars, commands, crashes, torn>>

\* An array is missing, null, or its entries: how many of them run which command of
\* aitrack's, which of these run one of another program as well, and how many run only
\* such ("aitrack" is nowhere in it).
Entry == {"edit", "prompt", "edit_other", "prompt_other", "other"}
with_other(c) == IF c = "edit" THEN "edit_other" ELSE "prompt_other"
Array == {Missing, Null} \cup [Entry -> Nat]

empty == [l \in List |-> Missing]      \* {}
parsed(f) == IF f \in {Absent, Broken} THEN empty ELSE f
no_entry == [e \in Entry |-> 0]       \* []
entries(a) == IF a \in {Missing, Null} THEN no_entry ELSE a

\* Mutated form: the array's name is taken for the command.
command_by_key(l) == l

\* The command aitrack registers in an array.
command(l) == IF l = "prompt" THEN "prompt" ELSE "edit"

\* Mutated form: the prompt hook is not looked for.
recognised_edit_only(l) == IF l = "prompt" THEN {} ELSE Entry \ {"other"}

\* The entries a test for "installed", and a removal, takes for its own: any command in
\* them has "aitrack", or "capture --tool", in it; for Claude's prompts "aitrack prompt-
\* capture".
recognised(l) ==
    IF l # "prompt" THEN Entry \ {"other"}
    ELSE IF Rereads /\ ~PlainName THEN {} ELSE {"prompt", "prompt_other"}

runs(v, l, c) == entries(v[l])[c] + entries(v[l])[with_other(c)]
own(v, l) == runs(v, l, "edit") + runs(v, l, "prompt")
shared(v, l) == entries(v[l])["edit_other"] + entries(v[l])["prompt_other"]
others(v, l) == entries(v[l])["other"]
has(v, l) == \E e \in recognised(l) : entries(v[l])[e] > 0

Init ==
    /\ file \in {Absent, empty}
    /\ pc = [p \in Proc |-> "idle"]
    /\ buf = [p \in Proc |-> empty]
    /\ todo = [p \in Proc |-> {}]
    /\ placed = [l \in List |-> 0] /\ joined = [l \in List |-> 0]
    /\ edits = 0 /\ commands = 0 /\ crashes = 0
    /\ torn = FALSE

goto(p, place) == pc' = [pc EXCEPT ![p] = place]
keep_in_mind(p, v) == buf' = [buf EXCEPT ![p] = v]
reading == torn' = (torn \/ file = Broken)
begin(p) == pc[p] = "idle" /\ commands < MaxCommands /\ commands' = commands + 1

-----------------------------------------------------------------------------
(* install_claude_hook, install_cursor_hook.                               *)

StartInstall(p) ==
    /\ begin(p)
    /\ goto(p, IF Rereads /\ \A l \in List : has(parsed(file), l) THEN "idle" ELSE "read")
    /\ UNCHANGED <<file, buf, todo, env_vars, crashes, torn>>

ReadSettings(p) ==
    /\ pc[p] = "read"
    /\ keep_in_mind(p, parsed(file))
    /\ todo' = [todo EXCEPT ![p] = List]
    /\ reading
    /\ goto(p, "insert")
    /\ UNCHANGED <<file, env_vars, commands, crashes>>

\* or_insert_with and as_array_mut: nothing can be pushed to null.
pushed(a, e) == IF a = Null THEN Null ELSE [entries(a) EXCEPT ![e] = @ + 1]

\* Edits come before prompts; Cursor's two edit arrays in any order.
EnsureHook(p) ==
    /\ pc[p] = "insert"
    /\ \E l \in todo[p] :
        /\ l = "prompt" => todo[p] = {l}
        /\ todo' = [todo EXCEPT ![p] = @ \ {l}]
        /\ IF has(IF Rereads THEN parsed(file) ELSE buf[p], l) THEN UNCHANGED buf
           ELSE keep_in_mind(p, [buf[p] EXCEPT ![l] = pushed(@, command(l))])
    /\ UNCHANGED <<file, pc, env_vars, commands, crashes, torn>>

-----------------------------------------------------------------------------
(* remove_claude_hook, remove_cursor_hook.                                 *)

\* Mutated form: the array goes with its hook.
removed_with_array(v) == [l \in List |-> IF has(v, l) THEN Missing ELSE v[l]]

\* retain drops whole entries.  val["hooks"][key] on a mutable value puts null where the
\* key is missing; an array that became empty is removed.
removed(v) ==
    [l \in List |->
        IF v[l] \in {Missing, Null} THEN Null
        ELSE LET left == [e \in Entry |-> IF e \in recognised(l) THEN 0 ELSE v[l][e]]
             IN  IF left = no_entry THEN Missing ELSE left]

StartRemove(p) ==
    /\ begin(p)
    /\ IF file = Absent THEN UNCHANGED <<pc, buf, torn>>
       ELSE /\ keep_in_mind(p, removed(parsed(file)))
            /\ reading
            /\ goto(p, "removing")
    /\ UNCHANGED <<file, todo, env_vars, crashes>>

-----------------------------------------------------------------------------
(* fs::write.                                                              *)

Truncate(p) ==
    /\ \/ pc[p] = "insert" /\ todo[p] = {} /\ goto(p, "write_installed")
       \/ pc[p] = "removing" /\ goto(p, "write_removed")
    /\ file' = Broken
    /\ UNCHANGED <<buf, todo, env_vars, commands, crashes, torn>>

WriteSettings(p) ==
    /\ pc[p] \in {"write_installed", "write_removed"}
    /\ file' = buf[p]
    /\ joined' = IF pc[p] = "write_installed" THEN joined
                 ELSE [l \in List |-> IF recognised(l) = {} THEN joined[l] ELSE 0]
    /\ goto(p, "idle")
    /\ keep_in_mind(p, empty)
    /\ UNCHANGED <<todo, placed, edits, commands, crashes, torn>>

-----------------------------------------------------------------------------
Crash(p) ==
    /\ pc[p] # "idle"
    /\ crashes < MaxCrashes
    /\ crashes' = crashes + 1
    /\ goto(p, "idle")
    /\ keep_in_mind(p, empty)
    /\ todo' = [todo EXCEPT ![p] = {}]
    /\ UNCHANGED <<file, env_vars, commands, torn>>

\* A hook of another program, as an entry of its own or, for Claude, in one of aitrack's.
AddOther(l) ==
    \/ /\ file[l] # Null
       /\ file' = [file EXCEPT ![l] = pushed(@, "other")]
       /\ placed' = [placed EXCEPT ![l] = @ + 1]
       /\ UNCHANGED joined
    \/ /\ Rereads
       /\ \E c \in {"edit", "prompt"} :
            /\ entries(file[l])[c] > 0
            /\ file' = [file EXCEPT ![l][c] = @ - 1, ![l][with_other(c)] = @ + 1]
       /\ joined' = [joined EXCEPT ![l] = @ + 1]
       /\ UNCHANGED placed

\* The user takes aitrack's commands out of an array, others in their entries stay.
DropOwn(l) ==
    /\ own(file, l) > 0
    /\ file' = [file EXCEPT ![l] = [e \in Entry |->
                   IF e = "other" THEN others(file, l) + shared(file, l) ELSE 0]]
    /\ placed' = [placed EXCEPT ![l] = @ + shared(file, l)]
    /\ joined' = [joined EXCEPT ![l] = 0]

UserEdit ==
    /\ edits < MaxEdits
    /\ \A p \in Proc : pc[p] = "idle"
    /\ file \notin {Absent, Broken}
    /\ edits' = edits + 1
    /\ \E l \in List : AddOther(l) \/ DropOwn(l)
    /\ UNCHANGED <<pc, buf, todo, commands, crashes, torn>>

Next ==
    \/ \E p \in Proc :
        \/ StartInstall(p) \/ ReadSettings(p) \/ EnsureHook(p)
        \/ StartRemove(p)
        \/ Truncate(p) \/ WriteSettings(p)
        \/ Crash(p)
    \/ UserEdit

Spec == Init /\ [][Next]_vars

-----------------------------------------------------------------------------
(* Type correctness.                                                       *)
Settings == [List -> Array]
TypeOK ==
    /\ file \in {Absent, Broken} \/ file \in Settings
    /\ pc \in [Proc -> {"idle", "read", "insert", "removing", "write_installed", "write_removed"}]
    /\ buf \in [Proc -> Settings]
    /\ todo \in [Proc -> SUBSET List]
    /\ torn \in BOOLEAN

resting == \A p \in Proc : pc[p] = "idle"

(* However often init and remove are run, killed and run again, and        *)
(* whatever the user does in between, an array holds aitrack's command     *)
(* once (CONTRACT.md:395: install and removal are idempotent, install      *)
(* does not duplicate).  One process, an executable called aitrack.        *)
HookedOnce == \A l \in List : own(parsed(file), l) <= 1

(* The hooks of other programs stay: those with an entry of their own, and *)
(* until a remove also those that share one with aitrack (init.rs:107,     *)
(* aitrack is added alongside them).  Unless a file that did not parse was *)
(* taken for {}: that is what a kill between truncation and write leaves.  *)
OthersStay ==
    resting /\ ~torn /\ file \notin {Absent, Broken} =>
        \A l \in List : others(file, l) = placed[l] /\ shared(file, l) >= joined[l]

(* An init that writes its file leaves every hook of aitrack in it         *)
(* (CONTRACT.md:395; init.rs:380, "install keeps the full set in sync").   *)
(* It does not where a remove found no array to clean: val["hooks"][key]   *)
(* left null there, and nothing is ever pushed to null.                    *)
InitInstalls ==
    [][\A p \in Proc :
        pc[p] = "write_installed" /\ crashes' = crashes /\ pc'[p] = "idle"
        => \A l \in List : has(file', l)]_vars
=============================================================================
