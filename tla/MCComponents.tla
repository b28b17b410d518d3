---------------------------- MODULE MCComponents ----------------------------
(***************************************************************************)
(* The components around the core in one model for TLC.  They share no     *)
(* variable: each behaviour is one of a single component, the focus, while *)
(* the others stay where they start.                                       *)
(***************************************************************************)
EXTENDS MemoryStore, LinkIndex, RecordStore, Commands, RemoteTasks, Permissions,
        Proxy, TextEdits, FileChanges, Verdicts, Sessions, SelfImprove, Supervision,
        Delegation

CONSTANTS memoryA, memoryB,   \* two names of memories
          fileX, x            \* a file and the entity it is named for

\* Who restores the one may dig up the other (FOO and foo, or a and a.1).
MCAlso == {<<memoryA, memoryB>>}

\* A file that may mention what it is named for.
MCNamed == {<<fileX, x>>}

\* Requests of the Agent tool that differ in one thing or two.
MCDelPlain == [shape |-> "single", write |-> <<>>, tools |-> <<>>, turns |-> <<>>, timeout |-> <<>>,
               debug |-> <<>>, background |-> FALSE, subs |-> <<>>]
MCDelSub == [write |-> <<>>, tools |-> <<>>, turns |-> <<>>, timeout |-> <<>>]
\* Both depths, every shape, and every way to ask for writing.
MCDelOuter ==
  {[MCDelPlain EXCEPT !.write = <<TRUE>>, !.turns = <<9>>],
   [MCDelPlain EXCEPT !.tools = <<{"FileWrite", "Agent"}>>, !.timeout = <<20>>],
   [MCDelPlain EXCEPT !.background = TRUE, !.timeout = <<20>>],
   [MCDelPlain EXCEPT !.shape = "both"],
   [MCDelPlain EXCEPT !.shape = "batch", !.write = <<TRUE>>, !.timeout = <<20>>,
      !.subs = <<MCDelSub, [MCDelSub EXCEPT !.write = <<FALSE>>, !.tools = <<{"FileWrite"}>>]>>],
   [MCDelPlain EXCEPT !.shape = "batch", !.debug = <<FALSE>>,
      !.subs = <<[MCDelSub EXCEPT !.timeout = <<20>>], [MCDelSub EXCEPT !.write = <<TRUE>>]>>],
   [MCDelPlain EXCEPT !.shape = "pipeline", !.background = TRUE, !.subs = <<MCDelSub, MCDelSub>>],
   [MCDelPlain EXCEPT !.shape = "pipeline", !.write = <<TRUE>>,
      !.subs = <<MCDelSub, [MCDelSub EXCEPT !.tools = <<{"FileRead"}>>]>>]}
MCDelInner ==
  {[MCDelPlain EXCEPT !.write = <<TRUE>>, !.turns = <<9>>, !.tools = <<{"FileRead", "FileWrite", "Agent"}>>],
   [MCDelPlain EXCEPT !.write = <<TRUE>>, !.turns = <<9>>, !.timeout = <<20>>],
   [MCDelPlain EXCEPT !.background = TRUE],
   [MCDelPlain EXCEPT !.shape = "batch", !.write = <<TRUE>>, !.subs = <<MCDelSub>>]}
MCDelRoots ==
  {[mode |-> "default", rule |-> "write-allowed", ui |-> "terminal", saver |-> TRUE],
   [mode |-> "acceptAll", rule |-> "none", ui |-> "one-shot", saver |-> TRUE],
   [mode |-> "default", rule |-> "agent-denied", ui |-> "terminal", saver |-> TRUE],
   [mode |-> "denyAll", rule |-> "none", ui |-> "terminal", saver |-> TRUE],
   [mode |-> "default", rule |-> "none", ui |-> "terminal", saver |-> FALSE]}

VARIABLE focus   \* the component whose behaviour this is

vars == <<focus, memVars, linkVars, recVars, cmdVars, remVars, permVars,
          pxVars, txtVars, fcVars, vdVars, ssVars, siVars, supVars, delVars>>

Init ==
  /\ focus \in {"memory", "links", "records", "commands", "remote", "permissions",
               "proxy", "edits", "files", "verdicts", "sessions", "evidence", "supervision",
               "delegation"}
  /\ MemInit /\ LinkInit /\ RecInit /\ CmdInit /\ RemInit /\ PermInit /\ PxInit
  /\ TxtInit /\ FcInit /\ VdInit /\ SsInit /\ SiInit /\ SupInit /\ DelInit
  \* the others start in one way
  /\ focus # "verdicts" => vdTasks = <<[status |-> "pending", verified |-> "none",
                                       needs |-> {}, retries |-> 0]>>
  /\ focus # "sessions" => ssFile = <<SsHeader>>
  /\ focus # "evidence" => \A name \in SiFiles : siLive[name] = {}
  /\ focus # "supervision" => supMain.mode = "one-shot"
  /\ focus # "delegation" => ~ delRoot.saver

\* A step of the component f is none of any other.
OthersStay(f) ==
  /\ focus = f /\ UNCHANGED focus
  /\ IF f = "memory" THEN TRUE ELSE UNCHANGED memVars
  /\ IF f = "links" THEN TRUE ELSE UNCHANGED linkVars
  /\ IF f = "records" THEN TRUE ELSE UNCHANGED recVars
  /\ IF f = "commands" THEN TRUE ELSE UNCHANGED cmdVars
  /\ IF f = "remote" THEN TRUE ELSE UNCHANGED remVars
  /\ IF f = "permissions" THEN TRUE ELSE UNCHANGED permVars
  /\ IF f = "proxy" THEN TRUE ELSE UNCHANGED pxVars
  /\ IF f = "edits" THEN TRUE ELSE UNCHANGED txtVars
  /\ IF f = "files" THEN TRUE ELSE UNCHANGED fcVars
  /\ IF f = "verdicts" THEN TRUE ELSE UNCHANGED vdVars
  /\ IF f = "sessions" THEN TRUE ELSE UNCHANGED ssVars
  /\ IF f = "evidence" THEN TRUE ELSE UNCHANGED siVars
  /\ IF f = "supervision" THEN TRUE ELSE UNCHANGED supVars
  /\ IF f = "delegation" THEN TRUE ELSE UNCHANGED delVars

Next ==
  \/ focus = "memory" /\ MemNext /\ OthersStay("memory")
  \/ focus = "links" /\ LinkNext /\ OthersStay("links")
  \/ focus = "records" /\ RecNext /\ OthersStay("records")
  \/ focus = "commands" /\ CmdNext /\ OthersStay("commands")
  \/ focus = "remote" /\ RemNext /\ OthersStay("remote")
  \/ focus = "permissions" /\ PermNext /\ OthersStay("permissions")
  \/ focus = "proxy" /\ PxNext /\ OthersStay("proxy")
  \/ focus = "edits" /\ TxtNext /\ OthersStay("edits")
  \/ focus = "files" /\ FcNext /\ OthersStay("files")
  \/ focus = "verdicts" /\ VdNext /\ OthersStay("verdicts")
  \/ focus = "sessions" /\ SsNext /\ OthersStay("sessions")
  \/ focus = "evidence" /\ SiNext /\ OthersStay("evidence")
  \/ focus = "supervision" /\ SupNext /\ OthersStay("supervision")
  \/ focus = "delegation" /\ DelNext /\ OthersStay("delegation")

Spec == Init /\ [][Next]_vars

=============================================================================
