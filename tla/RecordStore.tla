------------------------------ MODULE RecordStore ------------------------------
(***************************************************************************)
(* Incidents, decisions and runbooks of a project (src/agent/incident,     *)
(* decision, runbook): one file each.  A decision names incidents, and     *)
(* each of them is rewritten to name the decision; nothing undoes the one  *)
(* when the other cannot be written.  A runbook is found again by its      *)
(* pattern.  Tools that keep failing become incidents.                     *)
(*                                                                         *)
(* The stores are synchronous, so operations of one process interleave     *)
(* with nothing but faults: a write may throw or the process may die in    *)
(* it, and either may leave the file as it was or cut off, which readers   *)
(* skip.  Texts, tags, dates and scores are left out.                      *)
(* RecJobAfterAll is a version of the definition after it with a plausible *)
(* fault.                                                                  *)
(***************************************************************************)
EXTENDS Integers, FiniteSets

CONSTANTS
  RecIncidents,   \* ids of incidents
  RecDecisions,   \* ids of decisions
  RecRunbooks,    \* ids of runbooks
  RecPatterns,    \* patterns of runbooks
  RecTools,       \* tools that may fail
  RecThreshold,   \* INCIDENT_ESCALATION_THRESHOLD
  RecMaxFaults    \* bound: writes that throw, and deaths

VARIABLES
  recIncident,   \* the file of every incident
  recDecision,   \* the file of every decision
  recRunbook,    \* the file of every runbook
  recJob,        \* files the running operation still has to write
  recFailed,     \* failureCounters of the session
  recFaults      \* faults so far

recVars == <<recIncident, recDecision, recRunbook, recJob, recFailed, recFaults>>

RecTiers == {"core", "recall", "archival"}
RecAbsent == [status |-> "absent"]
RecTorn == [status |-> "torn"]
RecIncident == [status : {"open", "resolved"}, ended : BOOLEAN, tier : RecTiers,
                related : SUBSET RecDecisions]
RecDecision == [status : {"accepted", "rejected"},
                ended : BOOLEAN, tier : RecTiers, links : SUBSET RecIncidents]
RecRunbook == [status : {"kept"}, pattern : RecPatterns]
RecIdle == [op |-> "idle", left |-> {}]

RecInit ==
  /\ recIncident = [i \in RecIncidents |-> RecAbsent]
  /\ recDecision = [d \in RecDecisions |-> RecAbsent]
  /\ recRunbook = [r \in RecRunbooks |-> RecAbsent]
  /\ recJob = RecIdle
  /\ recFailed = [t \in RecTools |-> 0]
  /\ recFaults = 0

\* readRecord: null for a file that is missing or does not pass the validator.
RecReadable(file) == file \notin {RecAbsent, RecTorn}

-----------------------------------------------------------------------------
(* Writing *)

\* What becomes of writeFileSync over the file old.
RecTry(old, new) ==
  {[file |-> new, end |-> "done"]} \cup
  [file : {old, RecTorn}, end : IF recFaults < RecMaxFaults THEN {"threw", "died"} ELSE {}]

\* The counters are in memory only.
RecEnds(write, job, counters) ==
  /\ recJob' = IF write.end = "died" THEN RecIdle ELSE job
  /\ recFailed' = IF write.end = "died" THEN [t \in RecTools |-> 0] ELSE counters
  /\ recFaults' = IF write.end = "done" THEN recFaults ELSE recFaults + 1

\* As if the error of a write were caught like those of the links.
RecJobAfterAll(write, job) ==
  IF write.end # "died" /\ job.left # {} THEN job ELSE RecIdle

\* Only what was written is linked.
RecJobAfter(write, job) == IF write.end = "done" /\ job.left # {} THEN job ELSE RecIdle

-----------------------------------------------------------------------------
(* Incidents *)

\* decideTier; no caller gives a tier of its own.
RecNewIncident(resolved) ==
  [status |-> IF resolved THEN "resolved" ELSE "open", ended |-> resolved,
   tier |-> IF resolved THEN "archival" ELSE "core", related |-> {}]

\* incidentRecord: under an id no file has.
RecRecordIncident ==
  /\ recJob = RecIdle
  /\ \E i \in RecIncidents, resolved \in BOOLEAN :
       /\ recIncident[i] = RecAbsent
       /\ \E w \in RecTry(RecAbsent, RecNewIncident(resolved)) :
            /\ recIncident' = [recIncident EXCEPT ![i] = w.file]
            /\ RecEnds(w, RecIdle, recFailed)
  /\ UNCHANGED <<recDecision, recRunbook>>

\* A resolution resolves unless resolved is false; false reopens.
RecUpdated(incident, text, resolved) ==
  IF resolved = "yes" \/ (text /\ resolved # "no")
  THEN [incident EXCEPT !.status = "resolved", !.ended = TRUE, !.tier = "archival"]
  ELSE IF resolved = "no"
  THEN [incident EXCEPT !.status = "open", !.ended = FALSE,
                        !.tier = IF @ = "archival" THEN "core" ELSE @]
  ELSE incident

RecUpdateIncident ==
  /\ recJob = RecIdle
  /\ \E i \in RecIncidents, text \in BOOLEAN, resolved \in {"yes", "no", "unset"} :
       /\ RecReadable(recIncident[i])
       /\ \E w \in RecTry(recIncident[i], RecUpdated(recIncident[i], text, resolved)) :
            /\ recIncident' = [recIncident EXCEPT ![i] = w.file]
            /\ RecEnds(w, RecIdle, recFailed)
  /\ UNCHANGED <<recDecision, recRunbook>>

\* A failed call in agentLoop: counted, and an incident from the threshold on.
\* The counter is kept when the incident cannot be written.
RecToolFails ==
  /\ recJob = RecIdle
  /\ \E t \in RecTools :
       LET counted == [recFailed EXCEPT ![t] = @ + 1] IN
       \/ /\ counted[t] < RecThreshold
          /\ recFailed' = counted
          /\ UNCHANGED <<recIncident, recJob, recFaults>>
       \/ /\ counted[t] >= RecThreshold
          /\ \E i \in RecIncidents :
               /\ recIncident[i] = RecAbsent
               /\ \E w \in RecTry(RecAbsent, RecNewIncident(FALSE)) :
                    /\ recIncident' = [recIncident EXCEPT ![i] = w.file]
                    /\ RecEnds(w, RecIdle,
                               IF w.end = "done" THEN [recFailed EXCEPT ![t] = 0] ELSE counted)
  /\ UNCHANGED <<recDecision, recRunbook>>

-----------------------------------------------------------------------------
(* Decisions *)

\* Only whether a status ends the decision matters: proposed is as accepted,
\* and superseded as rejected.
RecOver == {"rejected"}

\* The decision's file, and then its new incidents one after the other.
RecDecide(d, decision, fresh) ==
  \E w \in RecTry(recDecision[d], decision) :
     /\ recDecision' = [recDecision EXCEPT ![d] = w.file]
     /\ RecEnds(w, RecJobAfter(w, [op |-> "link", decision |-> d, left |-> fresh]), recFailed)
     /\ UNCHANGED <<recIncident, recRunbook>>

\* An incident that a decision names need not exist.
RecRecordDecision ==
  /\ recJob = RecIdle
  /\ \E d \in RecDecisions, links \in SUBSET RecIncidents,
       status \in {"accepted", "rejected"} :
       /\ recDecision[d] = RecAbsent
       /\ RecDecide(d, [status |-> status, ended |-> FALSE, links |-> links,
                        tier |-> IF status \in RecOver THEN "archival" ELSE "core"], links)

\* A decision that ends is archived; one that is accepted again stays so.
RecReviewed(decision, status) ==
  IF status = "unset" THEN decision
  ELSE IF status \in RecOver
  THEN [decision EXCEPT !.status = status, !.ended = TRUE, !.tier = "archival"]
  ELSE [decision EXCEPT !.status = status]

RecUpdateDecision ==
  /\ recJob = RecIdle
  /\ \E d \in RecDecisions, links \in SUBSET RecIncidents,
       status \in {"unset", "accepted", "rejected"} :
       /\ RecReadable(recDecision[d])
       /\ RecDecide(d, [RecReviewed(recDecision[d], status) EXCEPT !.links = @ \cup links],
                    links \ recDecision[d].links)

\* linkIncidentBackref: best effort, so the next incident has its turn after an error.
RecLink ==
  /\ recJob.op = "link"
  /\ \E i \in recJob.left :
       LET incident == recIncident[i]
           d == recJob.decision
           job == IF recJob.left = {i} THEN RecIdle ELSE [recJob EXCEPT !.left = @ \ {i}]
       IN  IF RecReadable(incident) /\ d \notin incident.related
           THEN \E w \in RecTry(incident, [incident EXCEPT !.related = @ \cup {d}]) :
                   /\ recIncident' = [recIncident EXCEPT ![i] = w.file]
                   /\ RecEnds(w, job, recFailed)
           ELSE /\ recJob' = job
                /\ UNCHANGED <<recIncident, recFailed, recFaults>>
  /\ UNCHANGED <<recDecision, recRunbook>>

-----------------------------------------------------------------------------
(* Runbooks *)

\* findByPattern: the first of the files that can be read.
RecFound(pattern) ==
  {r \in RecRunbooks : RecReadable(recRunbook[r]) /\ recRunbook[r].pattern = pattern}

\* runbookAdd: merged into the runbook of the pattern, or under an id no file has.
RecAddRunbook ==
  /\ recJob = RecIdle
  /\ \E pattern \in RecPatterns, r \in RecRunbooks :
       /\ \/ r \in RecFound(pattern)
          \/ RecFound(pattern) = {} /\ recRunbook[r] = RecAbsent
       /\ \E w \in RecTry(recRunbook[r], [status |-> "kept", pattern |-> pattern]) :
            /\ recRunbook' = [recRunbook EXCEPT ![r] = w.file]
            /\ RecEnds(w, RecIdle, recFailed)
  /\ UNCHANGED <<recIncident, recDecision>>

\* runbookMatch rewrites all that score high enough, to count the use.
RecMatch ==
  /\ recJob = RecIdle
  /\ \E some \in SUBSET {r \in RecRunbooks : RecReadable(recRunbook[r])} \ {{}} :
       recJob' = [op |-> "touch", left |-> some]
  /\ UNCHANGED <<recIncident, recDecision, recRunbook, recFailed, recFaults>>

RecTouch ==
  /\ recJob.op = "touch"
  /\ \E r \in recJob.left :
       LET job == IF recJob.left = {r} THEN RecIdle ELSE [recJob EXCEPT !.left = @ \ {r}]
       IN  \E w \in RecTry(recRunbook[r], recRunbook[r]) :
              /\ recRunbook' = [recRunbook EXCEPT ![r] = w.file]
              /\ RecEnds(w, job, recFailed)
  /\ UNCHANGED <<recIncident, recDecision>>

-----------------------------------------------------------------------------
\* The process dies between two writes.
RecDies ==
  /\ recFaults < RecMaxFaults
  /\ recJob # RecIdle
  /\ RecEnds([end |-> "died"], RecIdle, recFailed)
  /\ UNCHANGED <<recIncident, recDecision, recRunbook>>

RecNext ==
  \/ RecRecordIncident \/ RecUpdateIncident \/ RecToolFails
  \/ RecRecordDecision \/ RecUpdateDecision \/ RecLink
  \/ RecAddRunbook \/ RecMatch \/ RecTouch
  \/ RecDies

RecSpec == RecInit /\ [][RecNext]_recVars

-----------------------------------------------------------------------------
(* Properties *)

\* What an incident says of a decision is confirmed by the decision's own file, as far as
\* that can be read (decision-store.ts:314), and no pattern has two runbooks that can be
\* read (runbook-store.ts:291), whichever writes failed or were cut off before.
RecordsAgree ==
  /\ \A i \in RecIncidents, d \in RecDecisions :
       /\ RecReadable(recIncident[i]) /\ d \in recIncident[i].related
       /\ RecReadable(recDecision[d])
       => i \in recDecision[d].links
  /\ \A r, s \in RecRunbooks :
       /\ RecReadable(recRunbook[r]) /\ RecReadable(recRunbook[s])
       /\ recRunbook[r].pattern = recRunbook[s].pattern
       => r = s
=============================================================================
