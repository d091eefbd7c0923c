------------------------------- MODULE MCLocal -------------------------------
(***************************************************************************)
(* Instances of what the client keeps in files, and of its heartbeat, one  *)
(* per scene:                                                              *)
(*   "claude"   ~/.claude/settings.json: two arrays, and the file is read  *)
(*              again before every insertion (HookSettings)                *)
(*   "cursor"   ~/.cursor/hooks.json: two arrays for edits, one for        *)
(*              prompts, all changed in memory                             *)
(*   "codex"    ~/.codex/config.toml (CodexConfig)                         *)
(*   "config"   aitrack's config.toml (ConfigFile)                         *)
(*   "journal"  hook-events.jsonl, three processes (HookJournal)           *)
(*   "beat"     heartbeats of two processes; the clock is not set back     *)
(*              (Heartbeat; set back in MCEventualSync)                    *)
(* A behaviour plays in one scene; what the scene does not use rests.      *)
(***************************************************************************)
EXTENDS Heartbeat, Sequences, TLC

CONSTANTS p1, p2, p3, q1, q2, q3, t1, t2, url, cred, nothing, tornfile,
          Absent, Broken, Missing, Null

VARIABLES
    scene,
    file, spc, buf, todo, placed, joined, sedits, commands, scrashes, torn, \* HookSettings'
    config, cpc, text, cedits, ccrashes, last, sections, chooks,  \* CodexConfig's
    disturbed, ctorn,
    disk, tmp, current, fpc, cfg, handle, saves, inits, fcrashes, \* ConfigFile's
    lines, jpc, kept, events, jcrashes                           \* HookJournal's

ClaudeArrays == {"PostToolUse", "prompt"}
CursorArrays == {"postToolUse", "afterFileEdit", "prompt"}

Installer == {q3}
Three == {p1, p2, p3}
Given == {url, cred}
Symmetry == Permutations(Three) \cup Permutations(Proc) \cup Permutations(Tool)
            \cup Permutations(Given)

Claude == INSTANCE HookSettings WITH
    pc <- spc, edits <- sedits, crashes <- scrashes, Proc <- Installer, List <- ClaudeArrays,
    Rereads <- TRUE, PlainName <- TRUE, MaxEdits <- 4, MaxCommands <- 5, MaxCrashes <- 2
Cursor == INSTANCE HookSettings WITH
    pc <- spc, edits <- sedits, crashes <- scrashes, Proc <- Installer, List <- CursorArrays,
    Rereads <- FALSE, PlainName <- TRUE, MaxEdits <- 4, MaxCommands <- 5, MaxCrashes <- 2
Codex == INSTANCE CodexConfig WITH
    pc <- cpc, edits <- cedits, crashes <- ccrashes, hooks <- chooks, torn <- ctorn,
    Notes <- FALSE, MaxLines <- 9, MaxEdits <- 3, MaxCrashes <- 1
File == INSTANCE ConfigFile WITH
    Proc <- Installer, config <- current, pc <- fpc, crashes <- fcrashes, Setting <- Given,
    Nothing <- nothing, Torn <- tornfile, MaxInits <- 4, MaxCrashes <- 2
Journal == INSTANCE HookJournal WITH
    file <- lines, pc <- jpc, crashes <- jcrashes, Proc <- Three, Size <- {2, 3, 5, 9}, Limit <- 2,
    MaxBytes <- 8, MaxEvents <- 5, MaxCrashes <- 1

settings_vars == <<file, spc, buf, todo, placed, joined, sedits, commands, scrashes, torn>>
codex_vars == <<config, cpc, text, cedits, ccrashes, last, sections, chooks, disturbed, ctorn>>
file_vars == <<disk, tmp, current, fpc, cfg, handle, saves, inits, fcrashes>>
journal_vars == <<lines, jpc, kept, events, jcrashes>>

InitScene ==
    /\ scene \in {"claude", "cursor", "codex", "config", "journal", "beat"}
    /\ IF scene = "cursor" THEN Cursor!Init ELSE Claude!Init
    /\ scene \notin {"claude", "cursor"} => file = Absent
    /\ Codex!Init
    /\ scene # "codex" => config = <<>>
    /\ File!Init
    /\ Journal!Init
    /\ Init
    /\ scene # "beat" => row = {}

NextScene ==
    /\ \/ scene = "claude" /\ Claude!Next /\ UNCHANGED <<codex_vars, file_vars>>
       \/ scene = "cursor" /\ Cursor!Next /\ UNCHANGED <<codex_vars, file_vars>>
       \/ scene = "codex"  /\ Codex!Next  /\ UNCHANGED <<settings_vars, file_vars>>
       \/ scene = "config" /\ File!Next   /\ UNCHANGED <<settings_vars, codex_vars>>
       \/ scene \in {"journal", "beat"} /\ UNCHANGED <<settings_vars, codex_vars, file_vars>>
    /\ \/ scene = "journal" /\ Journal!Next /\ UNCHANGED vars
       \/ scene = "beat"    /\ Next         /\ UNCHANGED journal_vars
       \/ scene \notin {"journal", "beat"} /\ UNCHANGED <<journal_vars, vars>>
    /\ UNCHANGED scene

LocalSpec ==
    InitScene /\ [][NextScene]_<<scene, vars, settings_vars, codex_vars, file_vars, journal_vars>>

-----------------------------------------------------------------------------
\* HookSettings, CodexConfig: however init, remove, kills and the edits of others follow
\* each other, each hook of aitrack is in its array once, and in the Codex file once and
\* once more for every edit that parted a hook from its marker.
HookedOnce ==
    (IF scene = "cursor" THEN Cursor!HookedOnce ELSE Claude!HookedOnce) /\ Codex!HookedOnce

\* HookSettings, CodexConfig: the hooks of other programs stay in the JSON files (with an
\* entry of their own, or until a remove in one of aitrack's), and the sections of the
\* user in the Codex file, but for what a kill in the middle of a write leaves.
OthersStay ==
    (IF scene = "cursor" THEN Cursor!OthersStay ELSE Claude!OthersStay) /\ Codex!SectionsStay

\* ConfigFile: the device keeps its id and its settings, whatever init is killed at.
SavedStays == File!SavedStays

\* HookJournal: no line is made of the bytes of two events, and at rest the file exceeds
\* its limit of bytes by at most that limit for each process that was killed.
JournalIsSound == Journal!JournalIsSound
=============================================================================
