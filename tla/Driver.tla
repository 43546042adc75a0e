------------------------------- MODULE Driver -------------------------------
(***************************************************************************)
(* The h5policy command: a bash wrapper (h5policy/tools/h5policy) that     *)
(* runs one poke process under timeout(1) and turns what the process says  *)
(* into one report and one exit status, and the two budgets the process    *)
(* keeps for itself, operations and seconds (h5policy_walk_tick in         *)
(* h5_findings.pk), in both passes of h5policy_analyze (h5_policy.pk).     *)
(*                                                                         *)
(* Time passes between any two steps of the process.  What the walk finds  *)
(* is abstracted to three decisions; module Walk has the rest.             *)
(***************************************************************************)
EXTENDS Naturals, Sequences

CONSTANTS
  Limits,     \* the profiles: seconds for the walk and for the wrapper, operations
  Top,        \* the largest 64-bit value
  Interval,   \* operations between two looks at the clock (200000)
  Costs,      \* what one operation may be charged
  Deaths,     \* statuses with which poke may end short of its marker
  MaxClock    \* bound: seconds the model counts

ASSUME LimitAssumption ==
  /\ Top \in Nat \ {0} /\ MaxClock \in Nat
  /\ Limits \subseteq [budget : Nat \ {0}, wall : Nat \ {0}, ops : 1..Top]
  /\ \A l \in Limits : l.budget < l.wall /\ l.wall <= MaxClock
  /\ Interval \in 1..Top /\ Costs \subseteq 1..Top
  /\ Deaths \subseteq 0..255 \ {124}

VARIABLES
  limits,      \* of the selected profile or of --max-walk-seconds
  guarded,     \* timeout(1) is installed
  clock,       \* seconds since the process started
  poke,        \* where the process stands
  status,      \* its exit status
  output,      \* what it has printed
  pass,        \* 1, or 2 in the replay of a cache image
  decision,    \* h5policy_decision
  image,       \* h5policy_mdci_replay_ready
  deadline,    \* h5policy_walk_deadline
  ops,         \* h5policy_walk_ops
  nextCheck,   \* h5policy_walk_next_check
  result,      \* exit status and report of the wrapper
  work,        \* history: what was charged since the last reset, not wrapped
  unlooked,    \* history: of that, charged since the last look at the clock
  onTime,      \* history: when the clock was last found within the deadline
  overran,     \* history: a budget has fired
  loaded,      \* history: seconds before the analysis began
  longest      \* history: most seconds of it without finding the clock in time

budgets == <<deadline, ops, nextCheck>>
delays == <<loaded, longest>>
history == <<work, unlooked, onTime, overran, delays>>
vars == <<limits, guarded, clock, poke, status, output, pass, decision, image, budgets,
          result, history>>

NoReport == "none"
Unfinished == [status |-> 256, report |-> NoReport]
Codes == [accept |-> 0, corrupt |-> 2, unsupported |-> 5]

\* The precedence of the decisions is that of module FindingClasses.
Worse(d, e) == IF "corrupt" \in {d, e} THEN "corrupt"
               ELSE IF "unsupported" \in {d, e} THEN "unsupported" ELSE "accept"

Init ==
  /\ limits \in Limits /\ guarded \in BOOLEAN
  /\ clock = 0 /\ poke = "unstarted" /\ status = 0 /\ output = <<>>
  /\ pass = 1 /\ decision = "accept" /\ image = FALSE
  /\ deadline = 0 /\ ops = 0 /\ nextCheck = 0
  /\ result = Unfinished
  /\ work = 0 /\ unlooked = 0 /\ onTime = 0 /\ overran = FALSE
  /\ loaded = 0 /\ longest = 0

\* The command line or the file is refused before anything is started.
RefuseArguments ==
  /\ poke = "unstarted" /\ result = Unfinished
  /\ \E s \in {1, 2} : result' = [status |-> s, report |-> NoReport]
  /\ UNCHANGED <<limits, guarded, clock, poke, status, output, pass, decision, image,
                 budgets, history>>

\* Fault: the next look at the clock stays where the last walk left it.
ResetBudgetKeepsCheck ==
  /\ ops' = 0 /\ UNCHANGED nextCheck
  /\ work' = 0 /\ unlooked' = 0

\* h5policy_reset_traversal_state, of the budgets.
ResetBudget ==
  /\ ops' = 0 /\ nextCheck' = 0
  /\ work' = 0 /\ unlooked' = 0

\* h5policy_analyze up to the walk.
BeginPass(n) ==
  /\ pass' = n
  /\ decision' = "accept"
  /\ ResetBudget
  /\ deadline' = clock + limits.budget
  /\ onTime' = clock
  /\ poke' = "preparing"

\* The wrapper starts poke under timeout(1), whose clock runs from here: poke
\* loads the pickles and opens the file before it looks at a clock.
Start ==
  /\ poke = "unstarted" /\ result = Unfinished
  /\ poke' = "loading"
  /\ UNCHANGED <<limits, guarded, clock, status, output, pass, decision, image, budgets,
                 result, history>>

Analyze ==
  /\ poke = "loading"
  /\ BeginPass(1)
  /\ UNCHANGED <<limits, guarded, clock, status, output, image, result, overran, delays>>

Running == poke \in {"preparing", "walking"}

\* Fault: the walk starts its own deadline.
EnterWalkRestartsDeadline ==
  /\ poke = "preparing"
  /\ ResetBudget
  /\ deadline' = clock + limits.budget
  /\ poke' = "walking"
  /\ UNCHANGED <<limits, guarded, clock, status, output, pass, decision, image, result,
                 onTime, overran, delays>>

\* h5policy_walk_reachable_metadata resets the counters, not the deadline.
EnterWalk ==
  /\ poke = "preparing"
  /\ ResetBudget
  /\ poke' = "walking"
  /\ UNCHANGED <<limits, guarded, clock, status, output, pass, decision, image, deadline,
                 result, onTime, overran, delays>>

\* Fault: the sum is compared with the limit after it was computed in 64 bits.
AffordsSum(cost) == (ops + cost) % (Top + 1) <= limits.ops

Affords(cost) == ops <= limits.ops /\ cost <= limits.ops - ops

\* A budget exception, and the finding for it in the catch of h5policy_analyze.
OverBudget ==
  /\ decision' = Worse(decision, "unsupported")
  /\ overran' = TRUE
  /\ poke' = "analysed"

RefuseOperation(cost) ==
  /\ Running /\ ~Affords(cost)
  /\ ops' = limits.ops
  /\ OverBudget
  /\ UNCHANGED <<limits, guarded, clock, status, output, pass, image, deadline, nextCheck,
                 result, work, unlooked, onTime, delays>>

Charge(cost) ==
  /\ Running /\ Affords(cost)
  /\ ops' = (ops + cost) % (Top + 1)
  /\ work' = work + cost
  /\ UNCHANGED <<limits, guarded, clock, status, output, pass, image, deadline, result, delays>>

Operation(cost) ==
  /\ Charge(cost)
  /\ ops' < nextCheck
  /\ unlooked' = unlooked + cost
  /\ UNCHANGED <<poke, decision, nextCheck, onTime, overran>>

LookAtClock(cost) ==
  /\ Charge(cost)
  /\ ops' >= nextCheck
  /\ nextCheck' = IF ops' > Top - Interval THEN Top ELSE ops' + Interval
  /\ unlooked' = 0
  /\ IF clock > deadline
     THEN OverBudget /\ UNCHANGED onTime
     ELSE onTime' = clock /\ UNCHANGED <<poke, decision, overran>>

\* Anything else that the walk finds, and the end of the walk.
FindCorruption ==
  /\ Running
  /\ decision' = Worse(decision, "corrupt")
  /\ UNCHANGED <<limits, guarded, clock, poke, status, output, pass, image, budgets, result,
                 history>>

\* h5policy_validate_mdci_payload found a valid image.
FindImage ==
  /\ poke = "walking" /\ pass = 1 /\ ~image
  /\ image' = TRUE
  /\ UNCHANGED <<limits, guarded, clock, poke, status, output, pass, decision, budgets,
                 result, history>>

EndWalk ==
  /\ Running
  /\ poke' = "analysed"
  /\ UNCHANGED <<limits, guarded, clock, status, output, pass, decision, image, budgets,
                 result, history>>

\* The recursive h5policy_analyze.
Replay ==
  /\ poke = "analysed" /\ pass = 1 /\ image
  /\ BeginPass(2)
  /\ UNCHANGED <<limits, guarded, clock, status, output, image, result, overran, delays>>

\* h5policy_run: the report, then the marker, then .exit 0.
Say(next, line) ==
  /\ poke' = next
  /\ output' = Append(output, line)
  /\ UNCHANGED <<limits, guarded, clock, status, pass, decision, image, budgets, result, history>>

PrintReport ==
  /\ poke = "analysed" /\ ~(pass = 1 /\ image)
  /\ Say("reported", [kind |-> "report", decision |-> decision])

PrintMarker ==
  /\ poke = "reported"
  /\ Say("marked", [kind |-> "marker", decision |-> decision])

Exit ==
  /\ poke = "marked"
  /\ poke' = "exited" /\ status' = 0
  /\ UNCHANGED <<limits, guarded, clock, output, pass, decision, image, budgets, result,
                 history>>

\* The process ends by itself: out of memory, an exception nobody catches.
Die(s) ==
  /\ poke \notin {"unstarted", "exited"}
  /\ poke' = "exited" /\ status' = s
  /\ UNCHANGED <<limits, guarded, clock, output, pass, decision, image, budgets, result,
                 history>>

SecondPasses ==
  /\ poke \notin {"unstarted", "exited"} /\ clock < MaxClock
  /\ clock' = clock + 1
  /\ IF poke = "loading"
     THEN loaded' = clock' /\ UNCHANGED longest
     ELSE /\ longest' = IF clock' - onTime > longest THEN clock' - onTime ELSE longest
          /\ UNCHANGED loaded
  /\ UNCHANGED <<limits, guarded, poke, status, output, pass, decision, image, budgets,
                 result, work, unlooked, onTime, overran>>

\* Fault: only the walk is held to the wrapper's time.
KillWalk ==
  /\ guarded /\ clock >= limits.wall
  /\ Running
  /\ poke' = "exited" /\ status' = 124
  /\ UNCHANGED <<limits, guarded, clock, output, pass, decision, image, budgets, result,
                 history>>

\* timeout(1) kills the process and exits with 124.
Kill ==
  /\ guarded /\ clock >= limits.wall
  /\ poke \notin {"unstarted", "exited"}
  /\ poke' = "exited" /\ status' = 124
  /\ UNCHANGED <<limits, guarded, clock, output, pass, decision, image, budgets, result,
                 history>>

\* The lines of a kind, and the last of them.
Printed(kind) == {i \in 1..Len(output) : output[i].kind = kind}
Line(kind) == output[CHOOSE i \in Printed(kind) : \A j \in Printed(kind) : j <= i]

\* Fault: the status of the process is passed on when it did not end with a marker.
ConcludePassesStatus ==
  /\ poke = "exited" /\ result = Unfinished
  /\ result' =
       IF status = 124 THEN [status |-> Codes["unsupported"], report |-> "unsupported"]
       ELSE IF Printed("marker") = {} THEN [status |-> status, report |-> NoReport]
       ELSE [status |-> Codes[Line("marker").decision],
             report |-> Line("report").decision]
  /\ UNCHANGED <<limits, guarded, clock, poke, status, output, pass, decision, image,
                 budgets, history>>

\* What the wrapper says: its own report of a killed process; the reason why
\* there is none; or the report of the process, with the status of its marker.
Conclude ==
  /\ poke = "exited" /\ result = Unfinished
  /\ result' =
       IF status = 124 THEN [status |-> Codes["unsupported"], report |-> "unsupported"]
       ELSE IF Printed("marker") = {}
       THEN [status |-> IF status # 0 THEN status ELSE 70, report |-> NoReport]
       ELSE [status |-> Codes[Line("marker").decision],
             report |-> Line("report").decision]
  /\ UNCHANGED <<limits, guarded, clock, poke, status, output, pass, decision, image,
                 budgets, history>>

Stop == result # Unfinished /\ UNCHANGED vars

Next ==
  \/ RefuseArguments \/ Start \/ Analyze \/ EnterWalk
  \/ \E c \in Costs : RefuseOperation(c) \/ Operation(c) \/ LookAtClock(c)
  \/ FindCorruption \/ FindImage \/ EndWalk \/ Replay \/ PrintReport \/ PrintMarker
  \/ Exit
  \/ \E s \in Deaths : Die(s)
  \/ SecondPasses \/ Kill \/ Conclude \/ Stop

Spec == Init /\ [][Next]_vars

\* Time passes, timeout(1) kills when it is due, and the wrapper goes on when
\* the process has ended.  Nothing is assumed of the process itself.
FairSpec == Spec /\ WF_vars(SecondPasses) /\ WF_vars(Kill) /\ WF_vars(Conclude)

-----------------------------------------------------------------------------
Decisions == DOMAIN Codes

TypeOK ==
  /\ limits \in Limits /\ guarded \in BOOLEAN /\ clock \in 0..MaxClock
  /\ poke \in {"unstarted", "loading", "preparing", "walking", "analysed", "reported",
              "marked", "exited"}
  /\ status \in Deaths \cup {0, 124}
  /\ output \in Seq([kind : {"report", "marker"}, decision : Decisions])
  /\ pass \in {1, 2} /\ decision \in Decisions /\ image \in BOOLEAN
  /\ deadline \in Nat /\ ops \in 0..Top /\ nextCheck \in 0..Top
  /\ result \in [status : 0..256, report : Decisions \cup {NoReport}]
  /\ work \in Nat /\ unlooked \in Nat /\ onTime \in 0..MaxClock /\ overran \in BOOLEAN
  /\ loaded \in 0..MaxClock /\ longest \in 0..MaxClock

Done == result # Unfinished
Killed == poke = "exited" /\ status = 124

\* Whatever the process dies of, the wrapper's status is the one of the report
\* it prints; a killed process is reported as unsupported; and status 0 is never
\* given without a report that accepts.
StatusIsReported ==
  Done =>
    /\ result.report # NoReport => result.status = Codes[result.report]
    /\ Killed => result.report = "unsupported"
    /\ result.status = 0 => result.report = "accept"

\* The counter says what was charged, in 64 bits, and never more than the
\* profile's limit.
BudgetKept ==
  /\ work <= limits.ops
  /\ Running => ops = work

\* Between two looks at the clock lie fewer operations than the interval, also
\* after the counters were reset and at the top of the counter.
LooksOften == unlooked < Interval

\* The wrapper kills a process only if its time went into loading, into the
\* budget of each pass, and into stretches in which it did not find the clock in
\* time: no process that loads at once and looks often enough is killed in a
\* first pass, and one of two passes needs twice the budget to be.
KilledForSilence == Killed => limits.wall <= loaded + pass * (limits.budget + longest)

\* With timeout(1) installed every command that was started ends.
DriverEnds == guarded /\ poke = "loading" ~> Done

\* docs/H5POLICY_WORKFLOW.md:78: "A budget or timeout does not become an
\* acceptance; it produces an explicit coverage-gap result."
BudgetNotAccepted == Done /\ overran => result.report # "accept"

\* h5policy/tools/h5policy:195: the time limit of the wrapper lies above the
\* process's own "so the clean in-pickle coverage-gap fires first when it can".
CleanGapFirst == Killed => limits.wall <= loaded + limits.budget + longest
=============================================================================
