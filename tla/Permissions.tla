------------------------------ MODULE Permissions ------------------------------
(***************************************************************************)
(* What a tool call may do (src/permissions): the rules of the user over   *)
(* the defaults, the paths nothing may write, and the classification of    *)
(* shell commands.                                                         *)
(*                                                                         *)
(* A question is asked piece by piece: a shell command token by token, or  *)
(* a call with rule after rule, and the answers are definitions.  Tokens   *)
(* stand for their kind: a command of some kind, a wrapper in front of     *)
(* one with its options, an operator, or the null device.  Patterns of     *)
(* rules match or do not.  PermClassifyWhole and PermFoldLast are versions *)
(* of the definitions after them with plausible faults.                    *)
(***************************************************************************)
EXTENDS Integers, SequencesExt

CONSTANTS
  PermMaxTokens,   \* bound: tokens of a command
  PermMaxRules     \* bound: rules of the context

VARIABLES
  permTokens,   \* the command
  permRules,    \* the rules: [behavior, matches]
  permCall      \* the call: [mode, tool, path]

permVars == <<permTokens, permRules, permCall>>

\* view: READ_ONLY_COMMANDS; make: SAFE_WRITE_PATTERNS; wipe: a destructive command; code:
\* one that runs other code; chmod: one that changes metadata or unpacks an archive;
\* tee: a command that is dangerous after a pipe; xargs:
\* one that runs what follows it; null: /dev/null.
PermCommands == {"view", "make", "wipe", "code", "chmod", "tee", "xargs", "other"}
PermWrappers == {"sudo", "env"}
PermOperators == {";", "|", ">"}
PermTokens == PermCommands \cup PermWrappers \cup PermOperators \cup {"null"}

PermBehaviors == {"deny", "ask", "allow"}
PermRank == [b \in PermBehaviors |-> IF b = "deny" THEN 2 ELSE IF b = "ask" THEN 1 ELSE 0]

-----------------------------------------------------------------------------
(* Shell commands *)

PermIsWord(token) == token \notin PermOperators

\* Words are told by their places.
PermWords(tokens) == {i \in DOMAIN tokens : PermIsWord(tokens[i])}
PermFirstPlace(words) == CHOOSE i \in words : \A k \in words : i <= k
PermFirst(tokens, words) == IF words = {} THEN "none" ELSE tokens[PermFirstPlace(words)]

\* splitTokensOnOperators: the longest parts without one of the operators, <<first, last>>.
PermSpans(tokens, operators) ==
  {span \in (DOMAIN tokens) \X (DOMAIN tokens) :
     /\ span[1] <= span[2] /\ \A k \in span[1] .. span[2] : tokens[k] \notin operators
     /\ span[1] = 1 \/ tokens[span[1] - 1] \in operators
     /\ span[2] = Len(tokens) \/ tokens[span[2] + 1] \in operators}

PermPart(tokens, span) == SubSeq(tokens, span[1], span[2])
PermParts(tokens, operators) == {PermPart(tokens, span) : span \in PermSpans(tokens, operators)}
PermSeveral(tokens, operators) == Cardinality(PermSpans(tokens, operators)) > 1

\* getEffectiveShellCommand: the words after the wrappers.
PermEffective(tokens, words) == {i \in words : \E k \in words : k <= i /\ tokens[k] \notin PermWrappers}

PermEffectiveFirst(part) == PermFirst(part, PermEffective(part, PermWords(part)))

\* getXargsCommandWords and its likes.
PermNested(part) ==
  LET words == PermEffective(part, PermWords(part))
  IN  words \ {PermFirstPlace(words)}

\* Every command in it, wherever it is.
PermAllParts(tokens) == PermParts(tokens, {";", "|"})

PermDestructive(tokens) ==
  \E part \in PermAllParts(tokens) :
    \/ PermEffectiveFirst(part) = "wipe"
    \/ PermEffectiveFirst(part) = "xargs" /\ PermFirst(part, PermEffective(part, PermNested(part))) = "wipe"

PermHighRisk(tokens) ==
  \E part \in PermAllParts(tokens) :
    \/ PermEffectiveFirst(part) = "code"
    \/ PermEffectiveFirst(part) = "xargs" /\ PermNested(part) # {}

PermPrivileged(tokens) ==
  \E part \in PermAllParts(tokens) :
    \E i \in PermWords(part) :
      part[i] = "sudo" /\ \A k \in PermWords(part) : k <= i => part[k] \in PermWrappers

PermMutates(tokens) == \E part \in PermAllParts(tokens) : PermEffectiveFirst(part) = "chmod"

\* hasUnsafeRedirect: the target is the next word, wherever it is.
PermUnsafeRedirect(tokens) ==
  \E i \in DOMAIN tokens :
    /\ tokens[i] = ">"
    /\ PermFirst(tokens, {k \in PermWords(tokens) : k > i}) # "null"

\* hasDangerousPipeTarget: any segment of the pipeline but the first.
PermDangerousPipe(tokens) ==
  \E span, before \in PermSpans(tokens, {"|"}) :
    /\ before[1] < span[1]
    /\ PermEffectiveFirst(PermPart(tokens, span)) \in {"tee", "xargs", "code"}

\* rankPermission.
PermWorst(verdicts) == CHOOSE b \in verdicts : \A c \in verdicts : PermRank[c] <= PermRank[b]

\* The four warnings classifyBashCommandInternal begins with.
PermWarned(tokens) ==
  PermDestructive(tokens) \/ PermHighRisk(tokens) \/ PermPrivileged(tokens) \/ PermMutates(tokens)

\* The candidates: the command itself, then without its wrappers.
PermSimple(tokens) ==
  IF PermWarned(tokens) \/ PermUnsafeRedirect(tokens) \/ PermDangerousPipe(tokens) THEN "ask"
  ELSE IF tokens[1] \in {"view", "make"} \/ PermEffectiveFirst(tokens) \in {"view", "make"}
  THEN "allow"
  ELSE "ask"

PermPipeline(tokens) ==
  IF PermWarned(tokens) \/ PermUnsafeRedirect(tokens) \/ PermDangerousPipe(tokens) THEN "ask"
  ELSE IF PermSeveral(tokens, {"|"})
  THEN PermWorst({PermSimple(part) : part \in PermParts(tokens, {"|"})})
  ELSE PermSimple(tokens)

\* As if a list were judged by its first command.
PermClassifyWhole(tokens) == IF tokens = <<>> THEN "ask" ELSE PermSimple(tokens)

\* classifyBashCommand.
PermClassify(tokens) ==
  IF tokens = <<>> \/ PermWarned(tokens) THEN "ask"
  ELSE IF PermSeveral(tokens, {";"})
  THEN PermWorst({PermPipeline(part) : part \in PermParts(tokens, {";"})})
  ELSE PermPipeline(tokens)

-----------------------------------------------------------------------------
(* Paths.  A path is what it says, and what its existing part and parents   *)
(* really are.                                                              *)

PermPlaces == {"plain", "sink", "guarded", "system"}

\* getProtectedSystemPath; a memory's name is not a path.
PermSystemPath(tool, path) ==
  tool # "MemoryWrite" /\ path.says # "sink" /\ "system" \in {path.says, path.is}

\* checkFilesystemPathHardening, of what a path says.
PermGuarded(place) == place = "guarded"

\* getWriteHardeningInputs and checkFilesystemWritePathHardening.
PermHardened(tool, path) ==
  \/ tool \in {"FileWrite", "MemoryWrite"} /\ PermGuarded(path.says)
  \/ tool = "FileWrite" /\ PermGuarded(path.is)

-----------------------------------------------------------------------------
(* The engine *)

\* Bash with no command is one of the others; Git stands for its actions, mcp for the
\* names of MCP tools, Agent for delegations with and without write tools.
PermTools == {"Bash", "FileRead", "FileWrite", "MemoryWrite", "TodoWrite",
              "GitShow", "GitCommit", "GitOther", "mcpRead", "mcpOther", "Agent", "AgentWrites"}

PermDefault(call, tokens) ==
  CASE call.tool = "Bash" -> PermClassify(tokens)
    [] call.tool \in {"FileRead", "TodoWrite", "GitShow", "mcpRead", "Agent"} -> "allow"
    [] call.tool = "GitOther" -> "deny"
    [] OTHER -> "ask"

\* As if a later rule replaced an earlier one.
PermFoldLast(rules) ==
  FoldLeft(LAMBDA best, rule : IF rule.matches THEN rule.behavior ELSE best, "none", rules)

\* The loop over the rules: deny ends it, ask replaces allow.
PermFold(rules) ==
  LET step(best, rule) ==
        IF ~ rule.matches \/ best = "deny" THEN best
        ELSE IF rule.behavior = "deny" THEN "deny"
        ELSE IF rule.behavior = "ask" /\ best \in {"none", "allow"} THEN "ask"
        ELSE IF rule.behavior = "allow" /\ best = "none" THEN "allow"
        ELSE best
      after[n \in 0 .. Len(rules)] ==
        IF n = 0 THEN "none" ELSE step(after[n - 1], rules[n])
  IN  after[Len(rules)]

PermCheck(call, rules, tokens) ==
  IF call.mode = "acceptAll" THEN "allow"
  ELSE IF call.mode = "denyAll" \/ PermSystemPath(call.tool, call.path) \/ PermHardened(call.tool, call.path)
  THEN "deny"
  ELSE IF PermFold(rules) # "none" THEN PermFold(rules)
  ELSE PermDefault(call, tokens)

-----------------------------------------------------------------------------
(* The questions *)

PermNowhere == [says |-> "plain", is |-> "plain"]
PermCommandCall == [mode |-> "default", tool |-> "Bash", path |-> PermNowhere]

PermInit ==
  /\ permTokens = <<>>
  /\ permRules = <<>>
  /\ permCall = PermCommandCall

PermType ==
  /\ permCall = PermCommandCall /\ permRules = <<>>
  /\ Len(permTokens) < PermMaxTokens
  /\ \E token \in PermTokens : permTokens' = Append(permTokens, token)
  /\ UNCHANGED <<permRules, permCall>>

PermAskCall ==
  /\ permTokens = <<>> /\ permRules = <<>>
  /\ \E mode \in {"default", "acceptAll", "denyAll"}, tool \in PermTools,
       says \in PermPlaces, is \in PermPlaces :
       /\ tool \notin {"FileRead", "FileWrite", "MemoryWrite"} => says = "plain" /\ is = "plain"
       /\ permCall' = [mode |-> mode, tool |-> tool, path |-> [says |-> says, is |-> is]]
  /\ UNCHANGED <<permTokens, permRules>>

PermAddRule ==
  /\ permTokens = <<>> /\ Len(permRules) < PermMaxRules
  /\ \E behavior \in PermBehaviors, matches \in BOOLEAN :
       permRules' = Append(permRules, [behavior |-> behavior, matches |-> matches])
  /\ UNCHANGED <<permTokens, permCall>>

PermNext == PermType \/ PermAskCall \/ PermAddRule

PermSpec == PermInit /\ [][PermNext]_permVars

-----------------------------------------------------------------------------
(* Properties *)

\* Runs by itself: a command that only reads or builds, in front of which nothing gives it
\* rights, and whose redirections, where they are well formed, go to the null device.
PermHarmless(tokens) ==
  /\ \A part \in PermParts(tokens, {";", "|"}) :
       /\ PermEffectiveFirst(part) \in {"view", "make"}
       /\ PermFirst(part, PermWords(part)) # "sudo"
  /\ \A i \in 1 .. Len(tokens) - 1 :
       tokens[i] = ">" /\ PermIsWord(tokens[i + 1]) => tokens[i + 1] = "null"

\* A shell command is allowed without a question only if every command in it is harmless,
\* in whatever list or pipeline it hides and behind whatever wrapper (classifier.ts:178);
\* and of the rules that match, deny wins over ask and ask over allow, whatever their
\* order, but over no guarded path and no mode (engine.ts:182).
PermVerdictJustified ==
  LET verdict == PermCheck(permCall, permRules, permTokens)
      matching == {permRules[i].behavior : i \in {j \in DOMAIN permRules : permRules[j].matches}}
  IN  /\ (permTokens # <<>> /\ verdict = "allow") => PermHarmless(permTokens)
      /\ (permCall.mode = "default" /\ matching # {})
         => verdict = IF PermSystemPath(permCall.tool, permCall.path) \/ PermHardened(permCall.tool, permCall.path)
                      THEN "deny" ELSE PermWorst(matching)
=============================================================================
