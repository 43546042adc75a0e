---------------------------- MODULE CaseHistory -----------------------------
(***************************************************************************)
(* The last check of tools/check_registry.py on the case records: a field  *)
(* name that a record once had and none has now may be cited only by the   *)
(* records that had it.  The names a record once had are read off the      *)
(* output of git log, which shows a field as added to the file that had it *)
(* added, and a renamed file as lines changed by the renaming only.        *)
(***************************************************************************)
EXTENDS FiniteSets

CONSTANTS
  CaseFiles,   \* base names under registry/cases
  FieldNames,  \* top-level fields of the records
  Generic,     \* those too short or without an underscore to be searched for
  Documents    \* the other files of the repository that cite fields

ASSUME CaseAssumption == Generic \subseteq FieldNames /\ CaseFiles \cap Documents = {}

VARIABLES
  cases,     \* case file to its fields, for the files there are
  log,       \* case file to the fields that git log shows as added to it
  carried,   \* history: case file to every field that was ever in it or in a file renamed to it
  renamed,   \* history: case files that another was ever renamed to
  cites      \* pairs of a file and a field it names, apart from having it
caseVars == <<cases, log, carried, renamed, cites>>

With(f, key, value) == [k \in DOMAIN f \cup {key} |-> IF k = key THEN value ELSE f[k]]
Without(f, key) == [k \in DOMAIN f \ {key} |-> f[k]]

(* A record is committed: a new file, or one with other fields. *)
CommitCase(file, fields) ==
  LET before == IF file \in DOMAIN cases THEN cases[file] ELSE {}
  IN /\ file \in DOMAIN cases => before # fields
     /\ cases' = With(cases, file, fields)
     /\ log' = [log EXCEPT ![file] = @ \cup (fields \ before)]
     /\ carried' = [carried EXCEPT ![file] = @ \cup fields]
     /\ UNCHANGED <<renamed, cites>>

RenameCase(file, new) ==
  /\ file \in DOMAIN cases /\ new \notin DOMAIN cases
  /\ cases' = With(Without(cases, file), new, cases[file])
  /\ carried' = [carried EXCEPT ![new] = @ \cup carried[file]]
  /\ renamed' = renamed \cup {new}
  /\ cites' = {IF c[1] = file THEN <<new, c[2]>> ELSE c : c \in cites}
  /\ UNCHANGED log

RemoveCase(file) ==
  /\ file \in DOMAIN cases
  /\ cases' = Without(cases, file)
  /\ cites' = {c \in cites : c[1] # file}
  /\ UNCHANGED <<log, carried, renamed>>

Cite(file, field) ==
  /\ file \in Documents \cup DOMAIN cases
  /\ cites' = IF <<file, field>> \in cites THEN cites \ {<<file, field>>}
              ELSE cites \cup {<<file, field>>}
  /\ UNCHANGED <<cases, log, carried, renamed>>

-----------------------------------------------------------------------------
LiveAnywhere == UNION {cases[f] : f \in DOMAIN cases}

(* Fault: a name is retired although another record still has the field. *)
RetiredHere(field) == {f \in DOMAIN cases : field \in log[f] \ cases[f]}

Retired(field) == {f \in DOMAIN cases : field \in log[f] \ LiveAnywhere}

(* CASE_FIELD_CITATION_STALE *)
StaleCitations ==
  {c \in cites : Retired(c[2]) # {} /\ c[2] \notin Generic /\ c[1] \notin Retired(c[2])}

-----------------------------------------------------------------------------
(* A name is dead when some record had it and none has it. *)
DeadFrom(files) ==
  (UNION {carried[f] : f \in files \cap DOMAIN cases}) \ (LiveAnywhere \cup Generic)
DeadCitations(files) ==
  {c \in cites : c[2] \in DeadFrom(files)
                 /\ ~(c[1] \in DOMAIN cases /\ c[2] \in carried[c[1]])}

(* What the check reports is the citations of dead names by files that never had
   them: no citation of a live name, and every one of a name that died in a
   record whose file none was renamed to. *)
RetiredNamesUncited ==
  /\ StaleCitations \subseteq DeadCitations(CaseFiles) \cup {c \in cites : c[1] \in renamed}
  /\ DeadCitations(CaseFiles \ renamed) \subseteq StaleCitations

(* A comment of the checker: "History cannot be forgotten.  Every top-level field
   name a record has ever carried, minus the names any record carries now, is a
   dead name". *)
HistoryNotForgotten == DeadCitations(CaseFiles) \subseteq StaleCitations
=============================================================================
