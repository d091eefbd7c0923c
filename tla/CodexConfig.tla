------------------------------ MODULE CodexConfig ------------------------------
(***************************************************************************)
(* `aitrack init` and `aitrack remove` on ~/.codex/config.toml, which they *)
(* change as text (client/src/init.rs): init appends a block after a       *)
(* marker comment, remove takes the block from the first marker on.  The   *)
(* file is read, truncated and written again, and the process may be       *)
(* killed at any of that.  Between two commands the user and Codex itself  *)
(* write to the same file, and an earlier aitrack may have left a block    *)
(* with its edit hook only.                                                *)
(***************************************************************************)
EXTENDS Integers, SequencesExt

CONSTANTS
    Notes,           \* TRUE: the user may write a comment that mentions aitrack
    MaxLines, MaxEdits, MaxCrashes       \* bounds of the model

VARIABLES
    config,          \* the lines of the file; blank ones are left out
    pc,              \* the command that runs: "idle", "init" or "remove" once it has read
                     \* the file, "write_init" or "write_remove" once it has truncated it
    text,            \* what it will write
    edits, crashes,
    last,            \* whose text the file holds: init's, remove's or the user's
    sections, hooks, \* history: those of others that were put in and not taken out
    disturbed,       \* history: edits that part a hook of aitrack from its marker
    torn             \* history: a command was killed before it had written all

user_vars == <<edits, sections, hooks, disturbed>>
vars == <<config, pc, text, crashes, last, torn, user_vars>>

\* "marker" is the line `# aitrack`, "note" a longer comment that starts with it;
\* "edit", "prompt" and "hook" are whole entries (aitrack's two, and one of another
\* program) of [[hooks.PostToolUse]] and [[hooks.UserPromptSubmit]]; "section" is a
\* line that is neither of these, blank, nor a key of such an entry.
Line == {"marker", "note", "edit", "prompt", "hook", "section"}

marks(l) == l \in {"marker", "note"}
part_of_block(l) == l \in {"edit", "prompt", "hook"}

contains(c, lines) == Range(c) \cap lines # {}
has_marker(c) == contains(c, {"marker", "note"})

\* Mutated form: the edit hook is looked for by the prompt hook's command.
has_by_prompt(c) == has_marker(c) /\ contains(c, {"prompt"})

\* "capture --tool codex" is also the end of the prompt hook's command.
has_codex_edit_hook_text(c) == has_marker(c) /\ contains(c, {"edit", "prompt"})
has_codex_prompt_hook_text(c) == has_marker(c) /\ contains(c, {"prompt"})

\* Mutated form: a marker for each hook.
install_marked_twice(c) ==
    IF has_codex_edit_hook_text(c) /\ has_codex_prompt_hook_text(c) THEN c
    ELSE c \o <<"marker", "edit", "marker", "prompt">>

install(c) ==
    LET missing(has, line) == IF has THEN <<>> ELSE <<line>>
        has_edit == has_codex_edit_hook_text(c)
        has_prompt == has_codex_prompt_hook_text(c)
    IN  IF has_edit /\ has_prompt THEN c
        ELSE c \o <<"marker">> \o missing(has_edit, "edit") \o missing(has_prompt, "prompt")

\* Mutated form: the whole rest of the file goes with the block.
remove_to_end(c) ==
    LET marked == {i \in 1 .. Len(c) : marks(c[i])}
    IN  IF marked = {} THEN c
        ELSE SubSeq(c, 1, (CHOOSE i \in marked : \A j \in marked : i <= j) - 1)

\* From the first mark to the first line after a marker that is not part of a block,
\* or to the end of the file.
remove_codex_block(c) ==
    LET first(set) == IF set = {} THEN Len(c) + 1 ELSE CHOOSE i \in set : \A j \in set : i <= j
        start == first({i \in 1 .. Len(c) : marks(c[i])})
        block == first({i \in start .. Len(c) : c[i] = "marker"})
        end == first({i \in block .. Len(c) : c[i] # "marker" /\ ~part_of_block(c[i])})
    IN  SubSeq(c, 1, start - 1) \o SubSeq(c, end, Len(c))

-----------------------------------------------------------------------------
\* A file of the user's, or one an aitrack without prompt hooks has written to.
Init ==
    /\ config \in {<<>>, <<"section">>, <<"marker", "edit">>}
    /\ pc = "idle" /\ text = <<>>
    /\ edits = 0 /\ crashes = 0 /\ last = "user"
    /\ sections = (IF config = <<"section">> THEN 1 ELSE 0) /\ hooks = 0
    /\ disturbed = 0 /\ torn = FALSE

\* install_codex_hook and remove_codex_hook: the file is read.
InstallHook ==
    /\ pc = "idle"
    /\ Len(config) + 3 <= MaxLines
    /\ IF install(config) = config
       THEN last' = "init" /\ UNCHANGED <<pc, text>>
       ELSE pc' = "init" /\ text' = install(config) /\ UNCHANGED last
    /\ UNCHANGED <<config, crashes, torn, user_vars>>

RemoveHook ==
    /\ pc = "idle"
    /\ text' = remove_codex_block(config)
    /\ pc' = "remove"
    /\ UNCHANGED <<config, crashes, last, torn, user_vars>>

\* fs::write.
Truncate ==
    /\ pc \in {"init", "remove"}
    /\ config' = <<>>
    /\ last' = "user"
    /\ pc' = (IF pc = "init" THEN "write_init" ELSE "write_remove")
    /\ UNCHANGED <<text, crashes, torn, user_vars>>

WriteText ==
    /\ pc \in {"write_init", "write_remove"}
    /\ config' = text
    /\ last' = (IF pc = "write_init" THEN "init" ELSE "remove")
    /\ pc' = "idle" /\ text' = <<>>
    /\ UNCHANGED <<crashes, torn, user_vars>>

\* A killed writer leaves what it had written of the text.
Crash ==
    /\ pc # "idle"
    /\ crashes < MaxCrashes
    /\ crashes' = crashes + 1
    /\ IF pc \in {"init", "remove"} THEN UNCHANGED <<config, torn>>
       ELSE torn' = TRUE /\ \E n \in 0 .. Len(text) : config' = SubSeq(text, 1, n)
    /\ pc' = "idle" /\ text' = <<>>
    /\ UNCHANGED <<last, user_vars>>

\* One line l more (k = 1) or less (k = -1).
edited(l, k) ==
    /\ pc = "idle"
    /\ edits < MaxEdits
    /\ edits' = edits + 1
    /\ last' = "user"
    /\ sections' = sections + (IF l = "section" THEN k ELSE 0)
    /\ hooks' = hooks + (IF l = "hook" THEN k ELSE 0)
    /\ UNCHANGED <<pc, text, crashes, torn>>

disturbs(here) == disturbed' = disturbed + (IF here THEN 1 ELSE 0)

\* Codex adds a section, the user a hook of another program or a comment, also before
\* a hook of aitrack's block.
InsertLine ==
    /\ Len(config) < MaxLines
    /\ \E l \in {"section", "hook"} \cup (IF Notes THEN {"note"} ELSE {}),
          i \in 1 .. Len(config) + 1 :
        /\ config' = InsertAt(config, i, l)
        /\ edited(l, 1)
        /\ disturbs(i <= Len(config) /\ config[i] \in {"edit", "prompt"})

\* The user takes out a line, the marker too.
DeleteLine ==
    \E i \in DOMAIN config :
        /\ config' = RemoveAt(config, i)
        /\ edited(config[i], -1)
        /\ disturbs(config[i] = "marker")

Next == InstallHook \/ RemoveHook \/ Truncate \/ WriteText \/ Crash \/ InsertLine \/ DeleteLine
Spec == Init /\ [][Next]_vars

-----------------------------------------------------------------------------
count(l) == Cardinality({i \in DOMAIN config : config[i] = l})

(* Type correctness.                                                       *)
TypeOK ==
    /\ config \in Seq(Line) /\ Len(config) <= MaxLines
    /\ text \in Seq(Line) /\ Len(text) <= MaxLines
    /\ pc \in {"idle", "init", "remove", "write_init", "write_remove"}
    /\ edits \in 0 .. MaxEdits /\ crashes \in 0 .. MaxCrashes
    /\ last \in {"init", "remove", "user"}
    /\ sections \in Nat

(* However init, remove, kills and the user's edits follow each other, a   *)
(* hook of aitrack is in the file once, and once more for every edit that  *)
(* took a marker out or put a line before a hook of a block: then a record *)
(* of one edit is captured twice.  (CONTRACT.md:395, install does not      *)
(* duplicate.)                                                             *)
HookedOnce == count("edit") <= 1 + disturbed /\ count("prompt") <= 1 + disturbed

(* Sections that are not hooks are never lost, as long as no command is    *)
(* killed while it writes.  With a comment that starts with the marker     *)
(* this fails: remove then takes everything from that comment to the       *)
(* block, or to the end of the file.                                       *)
SectionsStay == pc = "idle" /\ ~torn => count("section") = sections

(* After init both hooks are installed (init.rs:775, codex_install_is_     *)
(* idempotent; CONTRACT.md:395).  Where only the prompt hook is left, its  *)
(* command passes for the edit hook's, and the edit hook stays out.        *)
InitInstalls == last = "init" => count("edit") > 0 /\ count("prompt") > 0

(* After remove no hook of aitrack is left (init.rs:786, codex_remove_     *)
(* cleans_hook; docs/PRIVACY.md:142, removing the hooks stops all          *)
(* capture).  A second block, which init appended to a file whose block    *)
(* had one hook, is left.                                                  *)
RemoveRemoves == last = "remove" => count("edit") = 0 /\ count("prompt") = 0

(* Remove leaves the hooks of other programs where they are (init.rs:310,  *)
(* "Remove the block starting with COMMENT_MARKER until the next blank     *)
(* line pair").  It takes those that follow the block with it.             *)
OthersStay == pc = "idle" /\ ~torn => count("hook") = hooks
=============================================================================
