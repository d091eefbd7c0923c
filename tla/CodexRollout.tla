------------------------------ MODULE CodexRollout ------------------------------
(***************************************************************************)
(* How the usage scan reads a Codex session log                            *)
(* (client/src/usage/mod.rs).  The log names the model when a session or a *)
(* turn begins; its token_count lines carry the tokens of the last request *)
(* and the session's running total.  Only the last lines are read, every   *)
(* scan from nothing, and what they say replaces what the file counted for *)
(* before.                                                                 *)
(***************************************************************************)
EXTENDS Integers, SequencesExt

CONSTANTS
    Model, Unknown,          \* model names, and "unknown"
    Window,                  \* MAX_JSONL_LINES_PER_FILE
    Unsplit,                 \* TRUE: a request may report its total only
    Cumulative,              \* TRUE: a line may carry the running total only
    MaxLines, MaxTokens      \* bounds of the model

VARIABLES
    log,             \* the lines of the file
    model,           \* the model Codex is using
    session,         \* the session's running total
    used             \* history: model -> tokens it used

vars == <<log, model, session, used>>

\* A usage object: 0 where a field is missing.
NoTokens == [input |-> 0, output |-> 0, total |-> 0]
plus(a, b) == [input |-> a.input + b.input, output |-> a.output + b.output,
               total |-> a.total + b.total]

context(m) == [kind |-> "context", model |-> m, last |-> NoTokens, all |-> NoTokens]
token_count(last, all) == [kind |-> "token_count", model |-> Unknown, last |-> last, all |-> all]

-----------------------------------------------------------------------------
(* The scan.                                                               *)

recent_json_text_values(text) ==
    SubSeq(text, (IF Len(text) > Window THEN Len(text) - Window ELSE 0) + 1, Len(text))

\* Mutated form: the running total is preferred.
usage_of_total(line) == IF line.all # NoTokens THEN line.all ELSE line.last

\* last_token_usage, or else total_token_usage.
usage_of(line) == IF line.last # NoTokens THEN line.last ELSE line.all

\* Mutated form: the total is added to the input in any case.
buckets_with_total(u) == [u EXCEPT !.input = @ + u.total]

\* A total without parts is taken for input.
token_buckets_from_object(u) ==
    IF u.input + u.output = 0 THEN [u EXCEPT !.input = u.total] ELSE u

\* Mutated form: a line without a model forgets it.
model_forgotten(at, line) == line.model

update_codex_rollout_context(at, line) ==
    IF line.model # Unknown THEN line.model ELSE at.model

collect_codex_rollout_value(at, line) ==
    IF line.kind = "context"
    THEN [at EXCEPT !.model = update_codex_rollout_context(at, line)]
    ELSE LET tokens == token_buckets_from_object(usage_of(line))
         IN  IF tokens.input + tokens.output <= 0 THEN at
             ELSE [at EXCEPT !.messages = Append(@, [model |-> at.model, tokens |-> tokens])]

scan_codex_rollout_file(text) ==
    FoldLeft(collect_codex_rollout_value, [model |-> Unknown, messages |-> <<>>],
             recent_json_text_values(text)).messages

\* The buckets of the models ms, together.
aggregate_rollup_messages(messages, ms) ==
    FoldLeft(LAMBDA bucket, msg : IF msg.model \in ms THEN plus(bucket, msg.tokens) ELSE bucket,
             NoTokens, messages)

counted(ms) == aggregate_rollup_messages(scan_codex_rollout_file(log), ms)

-----------------------------------------------------------------------------
(* Codex.                                                                  *)
Init ==
    /\ \E m \in Model : model = m /\ log = <<context(m)>>
    /\ session = NoTokens /\ used = [m \in Model |-> NoTokens]

\* session_meta, turn_context; the same model need not be named again.
NewTurn ==
    /\ Len(log) < MaxLines
    /\ model' \in Model
    /\ \E named \in {model'} \cup (IF model' = model THEN {Unknown} ELSE {}) :
        log' = Append(log, context(named))
    /\ UNCHANGED <<session, used>>

Report ==
    /\ Len(log) < MaxLines
    /\ \E i, o \in 0 .. MaxTokens, split \in {TRUE, ~Unsplit},
          cumulative \in {FALSE, Cumulative} :
        /\ i + o > 0
        /\ LET now == [input |-> i, output |-> o, total |-> i + o]
               last == IF split THEN now ELSE [NoTokens EXCEPT !.total = i + o]
           IN  /\ session' = plus(session, now)
               /\ used' = [used EXCEPT ![model] = plus(@, now)]
               /\ log' = Append(log, token_count(IF cumulative THEN NoTokens ELSE last, session'))
    /\ UNCHANGED model

Next == NewTurn \/ Report
Spec == Init /\ [][Next]_vars

-----------------------------------------------------------------------------
size(u) == u.input + u.output

(* While the log is no longer than what is read, every token is counted    *)
(* once and for the model that used it, in whatever order turns, models    *)
(* and reports come.                                                       *)
WholeLogIsExact ==
    Len(log) <= Window => \A m \in Model : size(counted({m})) = size(used[m])

(* However long the log grows, and although the line that named the model  *)
(* may no longer be read, no token is counted twice.                       *)
NeverOvercounted ==
    size(counted(Model \cup {Unknown})) <= size(session)

(* Both: exact while the log is read whole, and never too much.            *)
RolloutIsCounted == WholeLogIsExact /\ NeverOvercounted

(* A total is not passed off as input, output, cache or reasoning tokens   *)
(* (docs/AGENT_SUPPORT.md:87).  A request's total is counted as input, and *)
(* so is the input of a running total, once for every line that has it.    *)
InputIsInput ==
    Len(log) <= Window => \A m \in Model : counted({m}).input <= used[m].input
=============================================================================
