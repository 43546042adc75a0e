------------------------------- MODULE Patch -------------------------------
(***************************************************************************)
(* h5patch: a plan is computed from a damaged file, a person reviews it,   *)
(* and apply recomputes it, compares it with the reviewed one, copies the  *)
(* file, runs the same catalog once more with writing switched on, and has *)
(* h5policy judge the result (h5patch/tools/h5patch, h5_patch.pk).         *)
(*                                                                         *)
(* A file is abstracted to the fields the catalog repairs and the checksum *)
(* of each structure that holds some of them.  A field is as it should be  *)
(* or it is in "bad".  A checksum is ideal: it equals the body it was      *)
(* computed from, which is known by the fields of it that are bad, or it   *)
(* is junk that matches no body.  Plans, writes and kills are as in the    *)
(* code; the bytes are not modelled.                                       *)
(***************************************************************************)
EXTENDS Naturals, FiniteSets, SequencesExt

CONSTANTS
  Modes,       \* the forms of the apply command, see below
  MaxDamage,   \* how many fields and checksums of the first file are damaged
  Touchable,   \* the fields somebody else may change in the input meanwhile
  MaxMishaps,  \* how often the tool is killed, runs out of time or finds the input changed
  MaxRounds    \* how often plan and apply are repeated on the result

(* The structures and their fields: the version 2 superblock, a version 2
   object header with a chunk layout and a filter, a free-space manager header
   and the header of a shared-message B-tree of depth 0. *)
Structures == {"super", "header", "fshd", "bthd"}
FieldsOf == [super  |-> {"signature", "base", "flags"},
             header |-> {"element", "filter"},
             fshd   |-> {"sections"},
             bthd   |-> {"total"}]
Fields == UNION {FieldsOf[s] : s \in Structures}
Junk == {"junk"}

Files ==
  {f \in [bad : SUBSET Fields,
          sum : [Structures -> (SUBSET Fields) \cup {Junk}],
          simple : BOOLEAN,    \* the layout repair accepts the header's shape
          complete : BOOLEAN,  \* nothing cuts the walk, findings or reached lists short
          walked : 0..2] :     \* an analysis ends before it enters the object header, before
                               \* it judges its checksum, or after that
     f.complete => f.walked = 2}

Body(f, s) == f.bad \cap FieldsOf[s]
Sealed(f, s) == f.sum[s] = Body(f, s)
Sound(f) == f.bad = {} /\ \A s \in Structures : Sealed(f, s)

(* First files: a sound one with at most MaxDamage fields changed and checksums
   that do not match, whether the fields changed before or after sealing. *)
FirstFiles ==
  LET Seals(s) == (SUBSET FieldsOf[s]) \cup {Junk}
      Summings == [super : Seals("super"), header : Seals("header"),
                   fshd : Seals("fshd"), bthd : Seals("bthd")]
      Damage(f) == Cardinality(f.bad) + Cardinality({s \in Structures : ~Sealed(f, s)})
  IN {f \in [bad : {x \in SUBSET Fields : Cardinality(x) <= MaxDamage}, sum : Summings,
             simple : BOOLEAN, complete : BOOLEAN, walked : 0..2] :
        Damage(f) <= MaxDamage /\ (f.complete => f.walked = 2)}

(* What an analysis that runs out of its seconds makes of a file: it can stop
   anywhere, and what it has gathered until then is not complete. *)
CutsOf(f) == {[f EXCEPT !.complete = FALSE, !.walked = w] : w \in 0..f.walked}

-----------------------------------------------------------------------------
(* Where apply writes: --in-place, --output with and without --force, and an
   --output that is another name of the input. *)
InPlace == [to |-> "input", inPlace |-> TRUE, force |-> FALSE]
ToOutput == [to |-> "output", inPlace |-> FALSE, force |-> FALSE]
ForcedOutput == [to |-> "output", inPlace |-> FALSE, force |-> TRUE]
OntoItself == [to |-> "input", inPlace |-> FALSE, force |-> TRUE]

ASSUME PatchAssumption ==
  /\ Modes \subseteq {InPlace, ToOutput, ForcedOutput, OntoItself}
  /\ Touchable \subseteq Fields
  /\ MaxMishaps \in Nat /\ MaxRounds \in Nat

(* What h5policy reports of a file, in its forensic profile: nothing of the
   structures while the superblock is not found or misplaces every address. *)
Locatable(f) == ~({"signature", "base"} \subseteq f.bad)
Reachable(f) == {"signature", "base"} \cap f.bad = {}
BadChecksum(f, s) == Reachable(f) /\ ~Sealed(f, s)
Complete(f) == f.complete
Accepted(f) ==
  /\ Reachable(f)
  /\ \A s \in Structures : Sealed(f, s)
  /\ {"filter", "sections", "total"} \cap f.bad = {}

(* An action writes one field, or one checksum with the fields that are bad in
   the body it was computed from; "old" is its precondition. *)
SetField(f, x) == [at |-> x, old |-> {x} \cap f.bad, new |-> {}]
Reseal(f, s, body) ==
  IF f.sum[s] = body THEN <<>> ELSE <<[at |-> s, old |-> f.sum[s], new |-> body]>>

Planned(acts) == {acts[i].at : i \in DOMAIN acts}
Write(f, a) ==
  IF a.at \in Structures THEN [f EXCEPT !.sum[a.at] = a.new] ELSE [f EXCEPT !.bad = @ \ {a.at}]

(* Fault: the planned writes are left out of the hypothetical body. *)
BodyAsFound(f, s, acts, applying) == Body(f, s)

(* The body that a checksum is computed over: the file's when earlier writes
   have been made, the file's with the planned writes when planning. *)
BodyAfter(f, s, acts, applying) ==
  IF applying THEN Body(f, s) ELSE Body(f, s) \ Planned(acts)

-----------------------------------------------------------------------------
(* The catalog.  f is the file as it is now, seen the file h5policy analysed,
   acts the actions collected so far.  Each stage yields the actions it adds. *)
Field(cond, f, x) == IF cond /\ x \in f.bad THEN <<SetField(f, x)>> ELSE <<>>

Signature(f, seen) == Field("base" \notin f.bad, f, "signature")

SuperReadable(f, seen) == Locatable(seen) /\ "signature" \notin f.bad
SuperBase(f, seen) == Field(SuperReadable(f, seen) /\ "signature" \notin seen.bad, f, "base")
SuperFlags(f, seen) == Field(SuperReadable(f, seen), f, "flags")
SuperChecksum(f, seen, acts, applying) ==
  IF SuperReadable(f, seen)
  THEN Reseal(f, "super", BodyAfter(f, "super", acts, applying)) ELSE <<>>

(* Fault: the layout repair waits for a valid checksum, as the filter repair does. *)
ChunkLayoutSealed(f, seen) ==
  Field(Reachable(seen) /\ seen.walked # 0 /\ f.simple /\ Sealed(f, "header"), f, "element")

ChunkLayout(f, seen) == Field(Reachable(seen) /\ seen.walked # 0 /\ f.simple, f, "element")

FilterParameters(f, seen) ==
  Field(Reachable(seen) /\ Complete(seen) /\ Sealed(f, "header") /\ "filter" \in seen.bad,
        f, "filter")

(* The repairs of the header's fields, in the order they are collected in. *)
ActionOn(acts, x) ==
  IF x \in Planned(acts) THEN <<acts[CHOOSE i \in DOMAIN acts : acts[i].at = x]>> ELSE <<>>
Semantic(acts) == ActionOn(acts, "element") \o ActionOn(acts, "filter")
FinalizeSemantic(f, acts) ==
  IF Semantic(acts) = <<>> THEN <<>>
  ELSE Reseal(f, "header", BodyAfter(f, "header", acts, FALSE))

HeaderChecksum(f, seen, acts) ==
  IF /\ seen.walked = 2 /\ BadChecksum(seen, "header")
     /\ Semantic(acts) = <<>> /\ "header" \notin Planned(acts)
  THEN Reseal(f, "header", Body(f, "header")) ELSE <<>>

FreeSpaceCount(f, seen) ==
  IF Reachable(seen) /\ Complete(seen) /\ "sections" \in seen.bad \cap f.bad /\ Sealed(f, "fshd")
  THEN <<SetField(f, "sections")>> \o Reseal(f, "fshd", {}) ELSE <<>>

TreeTotal(f, seen) == Field(Reachable(seen), f, "total")
TreeChecksum(f, seen, acts, applying) ==
  IF Reachable(seen) THEN Reseal(f, "bthd", BodyAfter(f, "bthd", acts, applying)) ELSE <<>>

(* Fault: headers that have a count repair of their own are not resealed. *)
ReachedChecksumDeep(f, seen, acts, s) == <<>>

ReachedChecksum(f, seen, acts, s) ==
  IF /\ Complete(seen) /\ BadChecksum(seen, s)
     /\ s \notin Planned(acts)
     /\ f.sum[s] = seen.sum[s] /\ Body(f, s) = Body(seen, s)
  THEN Reseal(f, s, Body(f, s)) ELSE <<>>

(* Fault: checksums of object headers are recomputed before their fields. *)
StagesChecksumFirst ==
  <<"signature", "base", "flags", "super", "header", "element", "filter", "finalize",
    "fshd", "total", "bthd", "reached fshd", "reached bthd">>

(* The stages in the order of h5patch_collect_actions. *)
Stages == <<"signature", "base", "flags", "super", "element", "filter", "finalize",
            "header", "fshd", "total", "bthd", "reached fshd", "reached bthd">>

Stage(name, f, seen, acts, applying) ==
  CASE name = "signature"    -> Signature(f, seen)
    [] name = "base"         -> SuperBase(f, seen)
    [] name = "flags"        -> SuperFlags(f, seen)
    [] name = "super"        -> SuperChecksum(f, seen, acts, applying)
    [] name = "element"      -> ChunkLayout(f, seen)
    [] name = "filter"       -> FilterParameters(f, seen)
    [] name = "finalize"     -> FinalizeSemantic(f, acts)
    [] name = "header"       -> HeaderChecksum(f, seen, acts)
    [] name = "fshd"         -> FreeSpaceCount(f, seen)
    [] name = "total"        -> TreeTotal(f, seen)
    [] name = "bthd"         -> TreeChecksum(f, seen, acts, applying)
    [] name = "reached fshd" -> ReachedChecksum(f, seen, acts, "fshd")
    [] name = "reached bthd" -> ReachedChecksum(f, seen, acts, "bthd")

(* What a stage writes when applying: the two semantic stages only collect,
   and the finalizing stage writes what they collected before the checksum. *)
Writes(name, added, acts) ==
  CASE name \in {"element", "filter"} -> <<>>
    [] name = "finalize" -> Semantic(acts) \o added
    [] OTHER -> added

(* h5patch_run_plan: every stage, and the file is left alone. *)
Plan(f) ==
  LET Collected[n \in 0..Len(Stages)] ==
        IF n = 0 THEN <<>>
        ELSE Collected[n - 1] \o Stage(Stages[n], f, f, Collected[n - 1], FALSE)
  IN Collected[Len(Stages)]

-----------------------------------------------------------------------------
VARIABLES
  pc,         \* where the command in progress, or the person, stands
  disk,       \* the content of the input and of the output file
  exists,     \* the output exists
  options,    \* of the apply command: where it writes, and --force
  plan,       \* the reviewed plan
  seen,       \* the file as h5policy saw it when the apply run began
  approved,   \* the input as h5policy saw it when it was compared with the plan
  acts,       \* actions collected so far by the apply run
  stage,      \* stages of the apply run already collected
  queue,      \* writes of the current stage still to be made
  written,    \* writes made
  outcome,     \* exit status of the last apply, and the verdict it printed
  round,      \* plans made since the last mishap
  stops,      \* kills of the tool, and analyses that ran out of time
  touches     \* foreign writes
patchVars == <<pc, disk, exists, options, plan, seen, approved, acts, stage, queue,
          written, outcome, round, stops, touches>>
run == <<seen, acts, stage, queue, written>>

Names == {"input", "output"}
Target == options.to
TornCopy == [bad |-> Fields, sum |-> [s \in Structures |-> Junk], simple |-> FALSE,
             complete |-> TRUE, walked |-> 2]

PatchInit ==
  /\ pc = "idle"
  /\ \E f \in FirstFiles : disk = [n \in Names |-> IF n = "input" THEN f ELSE TornCopy]
  /\ exists \in BOOLEAN /\ (exists => ForcedOutput \in Modes)
  /\ options = ToOutput
  /\ plan = <<>> /\ acts = <<>> /\ queue = <<>> /\ written = <<>>
  /\ seen = disk["input"] /\ approved = disk["input"]
  /\ stage = 0
  /\ outcome = [status |-> 0, verified |-> FALSE]
  /\ round = 0 /\ stops = 0 /\ touches = 0

(* h5policy_analyze in the forensic profile: f is seen as it is, or as far as the
   seconds allowed. *)
Analysis(f, view, rounds) ==
  \/ view = f /\ round' = rounds /\ UNCHANGED stops
  \/ /\ stops + touches < MaxMishaps /\ view \in CutsOf(f)
     /\ round' = 0 /\ stops' = stops + 1

(* h5patch plan, then the review. *)
MakePlan ==
  /\ pc = "idle" /\ round < MaxRounds
  /\ \E view \in {disk["input"]} \cup CutsOf(disk["input"]) :
       /\ Analysis(disk["input"], view, round + 1)
       /\ plan' = Plan(view)
  /\ pc' = "reviewed"
  /\ UNCHANGED <<disk, exists, options, approved, run, outcome, touches>>

EndApply(status, verified) ==
  /\ outcome' = [status |-> status, verified |-> verified]
  /\ pc' = "done"

(* Fault: only the number of actions is compared with the reviewed plan. *)
CompareActionCount ==
  /\ pc = "reviewed"
  /\ options' \in Modes
  /\ \E view \in {disk["input"]} \cup CutsOf(disk["input"]) :
       /\ Analysis(disk["input"], view, round)
       /\ approved' = view /\ seen' = view
       /\ IF Len(Plan(view)) = Len(plan)
          THEN pc' = "matched" /\ UNCHANGED outcome
          ELSE EndApply(2, FALSE)
  /\ acts' = <<>> /\ queue' = <<>> /\ written' = <<>> /\ stage' = 0
  /\ UNCHANGED <<disk, exists, plan, touches>>

(* h5patch apply: recompute the plan and compare.  The code also compares the
   decision that the plan is printed with; leaving it out refuses less. *)
Compare ==
  /\ pc = "reviewed"
  /\ options' \in Modes
  /\ \E view \in {disk["input"]} \cup CutsOf(disk["input"]) :
       /\ Analysis(disk["input"], view, round)
       /\ approved' = view /\ seen' = view
       /\ IF Plan(view) = plan
          THEN pc' = "matched" /\ UNCHANGED outcome
          ELSE EndApply(2, FALSE)
  /\ acts' = <<>> /\ queue' = <<>> /\ written' = <<>> /\ stage' = 0
  /\ UNCHANGED <<disk, exists, plan, touches>>

(* Choose the target; an existing output is overwritten only with --force, and
   cp refuses to copy a file onto itself. *)
Taken == Target = "input" \/ exists
ChooseTarget ==
  /\ pc = "matched"
  /\ IF options.inPlace THEN pc' = "open" /\ UNCHANGED outcome
     ELSE IF Taken /\ ~options.force THEN EndApply(1, FALSE)
     ELSE IF Target = "input" THEN EndApply(1, FALSE)
     ELSE pc' = "copy" /\ UNCHANGED outcome
  /\ UNCHANGED <<disk, exists, options, plan, approved, run, round, stops, touches>>

(* cp: a torn target first, then all of the input. *)
BeginCopy ==
  /\ pc = "copy"
  /\ disk' = [disk EXCEPT !["output"] = TornCopy]
  /\ exists' = TRUE
  /\ pc' = "copying"
  /\ UNCHANGED <<options, plan, approved, run, outcome, round, stops, touches>>
EndCopy ==
  /\ pc = "copying"
  /\ disk' = [disk EXCEPT !["output"] = disk["input"]]
  /\ pc' = "open"
  /\ UNCHANGED <<exists, options, plan, approved, run, outcome, round, stops, touches>>

(* h5patch_run_apply: open the target, locate the superblock, run h5policy. *)
Analyse ==
  /\ pc = "open"
  /\ \E view \in {disk[Target]} \cup CutsOf(disk[Target]) :
       Analysis(disk[Target], view, round) /\ seen' = view
  /\ pc' = "applying"
  /\ UNCHANGED <<disk, exists, options, plan, approved, acts, stage, queue, written, outcome,
                 touches>>

Collect ==
  /\ pc = "applying" /\ queue = <<>> /\ stage < Len(Stages)
  /\ LET name == Stages[stage + 1]
         added == Stage(name, disk[Target], seen, acts, TRUE)
     IN /\ acts' = acts \o added
        /\ queue' = Writes(name, added, acts)
  /\ stage' = stage + 1
  /\ UNCHANGED <<pc, disk, exists, options, plan, approved, seen, written, outcome, round,
                 stops, touches>>

WriteNext ==
  /\ pc = "applying" /\ queue # <<>>
  /\ disk' = [disk EXCEPT ![Target] = Write(@, Head(queue))]
  /\ written' = Append(written, Head(queue))
  /\ queue' = Tail(queue)
  /\ UNCHANGED <<pc, exists, options, plan, approved, seen, acts, stage, outcome, round,
                 stops, touches>>

Close ==
  /\ pc = "applying" /\ queue = <<>> /\ stage = Len(Stages)
  /\ pc' = "verify"
  /\ UNCHANGED <<disk, exists, options, plan, approved, run, outcome, round, stops, touches>>

(* h5policy in its strict profile decides the exit status.  It has budgets of its
   own, and accepts nothing that it could not analyse within them. *)
Verify ==
  /\ pc = "verify"
  /\ \E verified \in {Accepted(disk[Target]), FALSE} :
       EndApply(IF verified THEN 0 ELSE 4, verified)
  /\ UNCHANGED <<disk, exists, options, plan, approved, run, round, stops, touches>>

(* The tool is killed, at any point. *)
KillApply ==
  /\ pc \notin {"idle", "done", "killed"} /\ stops + touches < MaxMishaps
  /\ stops' = stops + 1
  /\ pc' = "killed"
  /\ round' = 0
  /\ UNCHANGED <<disk, exists, options, plan, approved, run, outcome, touches>>

(* Somebody else damages or repairs a field of the input, except during the
   writes of an in-place run. *)
Touch ==
  /\ stops + touches < MaxMishaps
  /\ ~(pc = "applying" /\ options.inPlace)
  /\ \E x \in Touchable :
       disk' = [disk EXCEPT !["input"].bad = IF x \in @ THEN @ \ {x} ELSE @ \cup {x}]
  /\ touches' = touches + 1
  /\ round' = 0
  /\ UNCHANGED <<pc, exists, options, plan, approved, run, outcome, stops>>

(* The person goes on with the repaired file, or starts over on the input. *)
Again ==
  /\ pc \in {"done", "killed"}
  /\ \E n \in {"input"} \cup (IF pc = "done" /\ outcome.status \in {0, 4} THEN {Target} ELSE {}) :
       /\ disk' = [disk EXCEPT !["input"] = disk[n]]
       /\ round' = IF n = Target /\ pc = "done" /\ outcome.status \in {0, 4} THEN round ELSE 0
  /\ pc' = "idle"
  /\ options' = ToOutput
  /\ plan' = <<>> /\ acts' = <<>> /\ queue' = <<>> /\ written' = <<>>
  /\ seen' = disk'["input"] /\ approved' = disk'["input"]
  /\ stage' = 0
  /\ outcome' = [status |-> 0, verified |-> FALSE]
  /\ UNCHANGED <<exists, stops, touches>>

(* The person stops. *)
LeaveIt == pc \in {"idle", "done", "killed"} /\ UNCHANGED patchVars

PatchNext ==
  \/ MakePlan \/ Compare \/ ChooseTarget \/ BeginCopy \/ EndCopy \/ Analyse
  \/ Collect \/ WriteNext \/ Close \/ Verify \/ KillApply \/ Touch \/ Again \/ LeaveIt

PatchSpec == PatchInit /\ [][PatchNext]_patchVars

-----------------------------------------------------------------------------
PatchTypeOK ==
  /\ pc \in {"idle", "reviewed", "matched", "copy", "copying", "open", "applying", "verify",
             "done", "killed"}
  /\ \A n \in Names : disk[n] \in Files
  /\ {seen, approved} \subseteq Files
  /\ exists \in BOOLEAN /\ options \in Modes \cup {ToOutput}
  /\ Planned(plan) \cup Planned(acts) \cup Planned(queue) \cup Planned(written)
       \subseteq Fields \cup Structures
  /\ stage \in 0..Len(Stages) /\ outcome.status \in {0, 1, 2, 4}
  /\ round \in 0..MaxRounds /\ stops + touches \in 0..MaxMishaps

Finished == pc = "done" /\ outcome.status \in {0, 4}
Writing == pc \in {"applying", "verify"} \/ Finished
(* The run and the comparison saw the same: the same bytes, and as much of them. *)
Undisturbed == seen = approved
SameBytes == seen.bad = approved.bad /\ seen.sum = approved.sum

(* The damage on which plan and apply part ways, see the findings below. *)
SignatureIntact(f) == "signature" \notin f.bad
StaleTotal(f) == f.sum["bthd"] = {} /\ "total" \in f.bad

(* With the signature in place and no stale B-tree total, apply makes exactly
   the reviewed writes in the reviewed order, and ends with the file the plan
   describes: what is hashed after real writes in one mode is hashed over
   hypothetical bytes in the other.  Its analysis must have got as far as the
   one that was compared, however far that was. *)
AppliesThePlan ==
  Writing /\ Undisturbed /\ SignatureIntact(approved) /\ ~StaleTotal(approved) =>
    /\ IsPrefix(written, plan)
    /\ Finished => written = plan /\ acts = plan

(* apply makes no write that was not reviewed. *)
EachWritePlanned == Writing /\ SameBytes => ToSet(written) \subseteq ToSet(plan)

(* apply makes every write that was reviewed. *)
EachActionWritten == Finished /\ SameBytes => ToSet(plan) \subseteq ToSet(written)

(* The same, of damage on which the two do not part ways: time still decides
   how much of the plan a run makes, and what it seals. *)
WritesDoNotDepend ==
  Writing /\ SameBytes /\ SignatureIntact(approved) /\ ~StaleTotal(approved) =>
    ToSet(written) \subseteq ToSet(plan)

(* What is written was compared with the reviewed plan. *)
ComparedIsWritten == Writing => SameBytes

(* No state of the target that a kill could leave behind has a checksum that
   matches, when it did not before, over a field that the run means to repair
   and that decides how the structure is read. *)
NoFalseSeal ==
  pc \in {"applying", "verify"} =>
    \A s \in Structures :
      LET f == disk[Target]
      IN Sealed(f, s) =>
           \/ f.sum[s] = seen.sum[s] /\ Body(f, s) = Body(seen, s)
           \/ Planned(acts) \cap FieldsOf[s] \cap f.bad \subseteq {"flags"}

(* Whatever a run dies of, it has changed only its target, only after the input
   was found to have the reviewed plan; the input is a target only with
   --in-place, and a file that stood at the output path only with --force. *)
OthersKept ==
  [][\A n \in Names :
       disk'[n] # disk[n] /\ touches' = touches /\ pc \notin {"done", "killed"} =>
         /\ n = Target /\ plan = Plan(approved)
         /\ n = "input" => options.inPlace
         /\ n = "output" /\ pc = "copy" /\ exists => options.force]_patchVars

(* When the structures could be reached from the superblock as it was found, and
   the run's own analysis came as far as the object header, exit status 0 is given
   only to a file with nothing of the catalog left to repair: what h5policy does
   not judge, the element size and the flags, apply has repaired.  (After a repair
   of the base address, or without enough seconds, it has not: the element size is
   neither seen by that run nor judged by the verification.) *)
VerifiedIsRepaired ==
  /\ pc = "done" /\ outcome.status = 0 /\ touches = 0
  /\ disk[Target].simple /\ Reachable(seen) /\ seen.walked # 0
  => Sound(disk[Target])

(* No damage of the catalog's kinds, unless the superblock cannot be found, the
   analysis was cut short, or the header is not of the simple shape. *)
NothingLeft(f) == Sound(f) \/ ~Locatable(f) \/ ~f.complete \/ ~f.simple

(* Repeating plan and apply ends with nothing left to repair: from any damage,
   also that of a killed run, the last plan of MaxRounds is empty, and a plan
   is empty only if nothing is left. *)
Converges ==
  pc = "reviewed" =>
    /\ round = MaxRounds => plan = <<>>
    /\ plan = <<>> /\ Plan(disk["input"]) = plan => NothingLeft(disk["input"])
=============================================================================
