--------------------------- MODULE CommandsProofs ---------------------------
(***************************************************************************)
(* Theorems about the two commands, h5policy and h5patch.                  *)
(*                                                                         *)
(* Driver, for any limits, interval, costs and width of the counters.  The *)
(* 64-bit sum never wraps because what is charged stays below the limit;   *)
(* the next look at the clock is never further from the counter than the   *)
(* interval less what was charged since the last; and no pass lasts longer *)
(* than its budget and the longest time in which the process did not find  *)
(* the clock in time, counted from when the pickles were loaded.  The      *)
(* report can be told from the output because that is nothing, one report, *)
(* or one report followed by its marker, whenever the process ends.        *)
(*                                                                         *)
(* Patch, for any damage and any number of mishaps and rounds.  RunInv     *)
(* relates the file as it was analysed, the file as it is between any two  *)
(* writes, the actions collected so far and those still to be written:     *)
(* what has been made was collected, and was made in the order of the      *)
(* catalog, a field before the checksum over it.  With it the run that     *)
(* writes collects, stage by stage, what the run that only plans collects. *)
(* Over the rounds, Ready says what a file has in order after so many      *)
(* runs, and every run that finishes gets its file one further.            *)
(***************************************************************************)
EXTENDS Driver, Patch, SequenceTheorems, TLAPS

Counters ==
  /\ limits \in Limits
  /\ ops \in Nat /\ nextCheck \in Nat /\ work \in Nat /\ unlooked \in Nat

\* How far the next look at the clock can be.
LookDue == Running => nextCheck + unlooked <= ops + Interval

BudgetInv == Counters /\ BudgetKept /\ LooksOften /\ LookDue

\* The time that a process which looks no more often may have taken.
TimeAllowed ==
  IF pass = 1 THEN loaded + limits.budget + longest
  ELSE loaded + limits.budget + longest + limits.budget + longest

Analysing == poke \notin {"unstarted", "loading", "exited"}

TimeTypes ==
  /\ limits \in Limits /\ pass \in {1, 2}
  /\ clock \in Nat /\ onTime \in Nat /\ deadline \in Nat /\ loaded \in Nat /\ longest \in Nat

TimeInv ==
  /\ TimeTypes
  /\ poke \in {"unstarted", "loading"} => loaded = clock
  /\ clock <= TimeAllowed
  /\ Analysing => clock <= onTime + longest /\ onTime <= deadline /\ deadline + longest <= TimeAllowed
  /\ Killed => limits.wall <= clock

-----------------------------------------------------------------------------
LEMMA LimitTypes ==
  ASSUME NEW l \in Limits
  PROVE  l.budget \in Nat /\ l.wall \in Nat /\ l.ops \in 1..Top /\ l.budget < l.wall
  BY LimitAssumption

LEMMA BudgetInit == Init => BudgetInv
  <1> SUFFICES ASSUME Init PROVE BudgetInv
    OBVIOUS
  <1>1. limits \in Limits /\ limits.ops \in 1..Top
    BY LimitTypes DEF Init
  <1> QED
    BY <1>1, LimitAssumption
    DEF Init, BudgetInv, Counters, BudgetKept, LooksOften, LookDue, Running

LEMMA ResetKeeps ==
  ASSUME limits \in Limits, limits' = limits, ResetBudget
  PROVE  BudgetInv'
  <1>1. limits.ops \in 1..Top
    BY LimitTypes
  <1> QED
    BY <1>1, LimitAssumption
    DEF ResetBudget, BudgetInv, Counters, BudgetKept, LooksOften, LookDue

LEMMA OthersKeepBudget ==
  ASSUME BudgetInv, UNCHANGED <<limits, ops, nextCheck, work, unlooked>>, Running' => Running
  PROVE  BudgetInv'
  BY DEF BudgetInv, Counters, BudgetKept, LooksOften, LookDue

\* What is charged is within the limit, and the sum does not wrap.
LEMMA ChargeExact ==
  ASSUME BudgetInv, NEW c \in Costs, Charge(c)
  PROVE  /\ ops' = ops + c /\ work' = work + c /\ c \in Nat \ {0}
         /\ limits' = limits /\ ops + c <= limits.ops /\ ops = work /\ Running
  <1>1. limits.ops \in 1..Top /\ ops \in Nat /\ c \in 1..Top /\ Top \in Nat
    BY LimitTypes, LimitAssumption DEF BudgetInv, Counters
  <1>2. ops + c <= limits.ops /\ limits.ops <= Top
    BY <1>1 DEF Charge, Affords
  <1>3. (ops + c) % (Top + 1) = ops + c
    BY <1>1, <1>2
  <1> QED BY <1>1, <1>2, <1>3 DEF Charge, BudgetInv, BudgetKept

LEMMA OperationKeeps ==
  ASSUME BudgetInv, NEW c \in Costs, Operation(c)
  PROVE  BudgetInv'
  <1>1. Charge(c) /\ ops' < nextCheck /\ unlooked' = unlooked + c /\ nextCheck' = nextCheck
        /\ poke' = poke
    BY DEF Operation
  <1>2. /\ ops' = ops + c /\ work' = work + c /\ c \in Nat \ {0}
        /\ limits' = limits /\ ops + c <= limits.ops /\ ops = work /\ Running
    BY <1>1, ChargeExact
  <1>3. Interval \in Nat /\ limits.ops \in Nat
    BY LimitAssumption, LimitTypes DEF BudgetInv, Counters
  <1>4. ops \in Nat /\ nextCheck \in Nat /\ unlooked \in Nat /\ work \in Nat
        /\ nextCheck + unlooked <= ops + Interval
    BY <1>2 DEF BudgetInv, Counters, LookDue
  <1>5. Counters'
    BY <1>1, <1>2, <1>4 DEF BudgetInv, Counters
  <1>6. BudgetKept'
    BY <1>2, <1>3, <1>4 DEF BudgetKept
  <1>7. LooksOften' /\ LookDue'
    BY <1>1, <1>2, <1>3, <1>4 DEF LooksOften, LookDue
  <1> QED BY <1>5, <1>6, <1>7 DEF BudgetInv

LEMMA LookKeeps ==
  ASSUME BudgetInv, NEW c \in Costs, LookAtClock(c)
  PROVE  BudgetInv'
  <1>1. Charge(c) /\ unlooked' = 0
        /\ nextCheck' = IF ops' > Top - Interval THEN Top ELSE ops' + Interval
    BY DEF LookAtClock
  <1>2. /\ ops' = ops + c /\ work' = work + c /\ c \in Nat \ {0}
        /\ limits' = limits /\ ops + c <= limits.ops /\ ops = work
    BY <1>1, ChargeExact
  <1>3. Interval \in Nat \ {0} /\ Top \in Nat /\ limits.ops \in 1..Top
    BY LimitAssumption, LimitTypes DEF BudgetInv, Counters
  <1>4. ops \in Nat /\ work \in Nat
    BY DEF BudgetInv, Counters
  <1>5. nextCheck' \in Nat /\ nextCheck' <= ops' + Interval
    BY <1>1, <1>2, <1>3, <1>4
  <1>6. Counters' /\ BudgetKept'
    BY <1>1, <1>2, <1>3, <1>4, <1>5 DEF BudgetInv, Counters, BudgetKept
  <1>7. LooksOften' /\ LookDue'
    BY <1>1, <1>2, <1>3, <1>4, <1>5 DEF LooksOften, LookDue
  <1> QED BY <1>6, <1>7 DEF BudgetInv

LEMMA BudgetStep == BudgetInv /\ [Next]_vars => BudgetInv'
  <1> SUFFICES ASSUME BudgetInv, [Next]_vars PROVE BudgetInv'
    OBVIOUS
  <1> USE DEF budgets, history, delays
  <1>0. limits \in Limits
    BY DEF BudgetInv, Counters
  <1>1. CASE RefuseArguments
    BY <1>1, OthersKeepBudget DEF RefuseArguments, Running
  <1>2. CASE Start
    BY <1>2, OthersKeepBudget DEF Start, Running
  <1>15. CASE Analyze
    BY <1>0, <1>15, ResetKeeps DEF Analyze, BeginPass
  <1>3. CASE EnterWalk
    BY <1>0, <1>3, ResetKeeps DEF EnterWalk
  <1>4. ASSUME NEW c \in Costs, RefuseOperation(c) PROVE BudgetInv'
    <2>1. limits' = limits /\ ops' = limits.ops /\ poke' = "analysed"
          /\ UNCHANGED <<nextCheck, work, unlooked>>
      BY <1>4 DEF RefuseOperation, OverBudget
    <2>2. limits.ops \in Nat
      BY <1>0, LimitTypes
    <2> QED
      BY <2>1, <2>2 DEF BudgetInv, Counters, BudgetKept, LooksOften, LookDue, Running
  <1>5. ASSUME NEW c \in Costs, Operation(c) PROVE BudgetInv'
    BY <1>5, OperationKeeps
  <1>6. ASSUME NEW c \in Costs, LookAtClock(c) PROVE BudgetInv'
    BY <1>6, LookKeeps
  <1>7. CASE FindCorruption \/ FindImage
    BY <1>7, OthersKeepBudget DEF FindCorruption, FindImage, Running
  <1>8. CASE EndWalk
    BY <1>8, OthersKeepBudget DEF EndWalk, Running
  <1>9. CASE Replay
    BY <1>0, <1>9, ResetKeeps DEF Replay, BeginPass
  <1>10. CASE PrintReport \/ PrintMarker \/ Exit
    BY <1>10, OthersKeepBudget DEF PrintReport, PrintMarker, Say, Exit, Running
  <1>11. ASSUME NEW s \in Deaths, Die(s) PROVE BudgetInv'
    BY <1>11, OthersKeepBudget DEF Die, Running
  <1>12. CASE SecondPasses \/ Conclude
    BY <1>12, OthersKeepBudget DEF SecondPasses, Conclude, Running
  <1>13. CASE Kill
    BY <1>13, OthersKeepBudget DEF Kill, Running
  <1>14. CASE Stop \/ UNCHANGED vars
    BY <1>14, OthersKeepBudget DEF Stop, vars, Running
  <1> QED
    BY <1>1, <1>2, <1>3, <1>4, <1>5, <1>6, <1>7, <1>8, <1>9, <1>10, <1>11, <1>12, <1>13, <1>14,
       <1>15
    DEF Next

LEMMA BudgetCorrect == Spec => []BudgetInv
  <1> QED BY BudgetInit, BudgetStep, PTL DEF Spec

\* The counter is what was charged, in its width, and within the limit.
THEOREM BudgetKeptCorrect == Spec => []BudgetKept
  <1>1. BudgetInv => BudgetKept
    BY DEF BudgetInv
  <1> QED BY <1>1, BudgetCorrect, PTL

\* The clock is looked at once in every interval of operations.
THEOREM LooksOftenCorrect == Spec => []LooksOften
  <1>1. BudgetInv => LooksOften
    BY DEF BudgetInv
  <1> QED BY <1>1, BudgetCorrect, PTL

-----------------------------------------------------------------------------
LEMMA TimeInit == Init => TimeInv
  <1> SUFFICES ASSUME Init PROVE TimeInv
    OBVIOUS
  <1>1. limits.budget \in Nat
    BY LimitTypes DEF Init
  <1> QED BY <1>1 DEF Init, TimeInv, TimeTypes, TimeAllowed, Analysing, Killed

\* A step that starts no pass, moves no clock and kills nothing.
LEMMA OthersKeepTime ==
  ASSUME TimeInv, UNCHANGED <<limits, clock, pass, deadline, onTime, loaded, longest>>,
         Analysing' => Analysing, Killed' => Killed,
         poke' \in {"unstarted", "loading"} => poke \in {"unstarted", "loading"}
  PROVE  TimeInv'
  BY DEF TimeInv, TimeTypes, TimeAllowed

\* A pass begins: it has the whole budget from here.
LEMMA BeginKeepsTime ==
  ASSUME TimeInv, NEW n \in {1, 2}, BeginPass(n), UNCHANGED <<limits, clock, loaded, longest>>,
         \/ n = 1 /\ loaded = clock
         \/ n = 2 /\ pass = 1
  PROVE  TimeInv'
  <1>1. limits.budget \in Nat /\ clock \in Nat /\ loaded \in Nat /\ longest \in Nat
    BY LimitTypes DEF TimeInv, TimeTypes
  <1>2. /\ pass' = n /\ onTime' = clock /\ deadline' = clock + limits.budget
        /\ poke' = "preparing"
    BY DEF BeginPass
  <1>3. TimeTypes' /\ ~Killed' /\ poke' \notin {"unstarted", "loading"}
    BY <1>1, <1>2 DEF TimeInv, TimeTypes, Killed
  <1>4. clock' <= TimeAllowed' /\ deadline' + longest' <= TimeAllowed'
    <2>1. CASE n = 1 /\ loaded = clock
      BY <1>1, <1>2, <2>1 DEF TimeAllowed
    <2>2. CASE n = 2 /\ pass = 1
      <3>1. clock <= loaded + limits.budget + longest
        BY <2>2 DEF TimeInv, TimeAllowed
      <3> QED BY <1>1, <1>2, <2>2, <3>1 DEF TimeAllowed
    <2> QED BY <2>1, <2>2
  <1>5. clock' <= onTime' + longest' /\ onTime' <= deadline'
    BY <1>1, <1>2
  <1> QED BY <1>3, <1>4, <1>5 DEF TimeInv

LEMMA LookKeepsTime ==
  ASSUME TimeInv, NEW c \in Costs, LookAtClock(c)
  PROVE  TimeInv'
  <1>1. /\ Running /\ UNCHANGED <<limits, clock, pass, deadline, loaded, longest>>
        /\ poke' \in {poke, "analysed"}
        /\ onTime' = onTime \/ (onTime' = clock /\ ~(clock > deadline))
    BY DEF LookAtClock, Charge, OverBudget, delays
  <1>2. poke' \notin {"exited", "unstarted", "loading"} /\ Analysing
    BY <1>1 DEF Running, Analysing
  <1> QED BY <1>1, <1>2 DEF TimeInv, TimeTypes, TimeAllowed, Killed

LEMMA SecondKeepsTime ==
  ASSUME TimeInv, SecondPasses
  PROVE  TimeInv'
  <1>1. limits.budget \in Nat /\ TimeTypes
    BY LimitTypes DEF TimeInv, TimeTypes
  <1>2. /\ clock' = clock + 1 /\ poke \notin {"unstarted", "exited"}
        /\ UNCHANGED <<limits, poke, pass, deadline, onTime>>
    BY DEF SecondPasses, budgets
  <1>3. CASE poke = "loading"
    <2>1. loaded' = clock' /\ longest' = longest
      BY <1>3 DEF SecondPasses
    <2> QED
      BY <1>1, <1>2, <1>3, <2>1 DEF TimeInv, TimeTypes, TimeAllowed, Analysing, Killed
  <1>4. CASE poke # "loading"
    <2>1. loaded' = loaded /\ longest' \in Nat /\ longest' >= longest
          /\ clock' <= onTime + longest'
      BY <1>1, <1>2, <1>4 DEF SecondPasses, TimeTypes
    <2>2. Analysing /\ Analysing' /\ ~Killed'
      BY <1>2, <1>4 DEF Analysing, Killed
    <2>3. TimeTypes'
      BY <1>1, <1>2, <2>1 DEF TimeTypes
    <2>4. onTime <= deadline /\ deadline + longest <= TimeAllowed
      BY <2>2 DEF TimeInv
    <2>5. deadline + longest' <= TimeAllowed'
      BY <1>1, <1>2, <2>1, <2>4 DEF TimeTypes, TimeAllowed
    <2>6. TimeAllowed' \in Nat
      BY <1>1, <1>2, <2>1 DEF TimeTypes, TimeAllowed
    <2>8. onTime \in Nat /\ deadline \in Nat /\ clock' \in Nat
      BY <1>1, <1>2 DEF TimeTypes
    <2>7. clock' <= TimeAllowed'
      <3>1. \A c, t, d, l, a \in Nat : c <= t + l /\ t <= d /\ d + l <= a => c <= a
        OBVIOUS
      <3>2. longest' \in Nat /\ clock' <= onTime + longest' /\ onTime <= deadline
        BY <2>1, <2>4
      <3> QED BY <2>5, <2>6, <2>8, <3>1, <3>2
    <2> QED BY <1>2, <1>4, <2>1, <2>2, <2>3, <2>4, <2>5, <2>7 DEF TimeInv
  <1> QED BY <1>3, <1>4

LEMMA KillKeepsTime ==
  ASSUME TimeInv, Kill
  PROVE  TimeInv'
  <1>1. /\ clock >= limits.wall /\ poke' = "exited"
        /\ UNCHANGED <<limits, clock, pass, deadline, onTime, loaded, longest>>
    BY DEF Kill, budgets, history, delays
  <1>2. limits.wall \in Nat
    BY LimitTypes DEF TimeInv, TimeTypes
  <1> QED BY <1>1, <1>2 DEF TimeInv, TimeTypes, TimeAllowed, Analysing, Killed

LEMMA TimeStep == TimeInv /\ [Next]_vars => TimeInv'
  <1> SUFFICES ASSUME TimeInv, [Next]_vars PROVE TimeInv'
    OBVIOUS
  <1> USE DEF budgets, history, delays
  <1>1. CASE RefuseArguments
    BY <1>1, OthersKeepTime DEF RefuseArguments, Analysing, Killed
  <1>2. CASE Start
    BY <1>2, OthersKeepTime DEF Start, Analysing, Killed
  <1>16. CASE Analyze
    BY <1>16, BeginKeepsTime DEF Analyze, TimeInv
  <1>3. CASE EnterWalk
    BY <1>3, OthersKeepTime DEF EnterWalk, Analysing, Killed
  <1>4. ASSUME NEW c \in Costs, RefuseOperation(c) PROVE TimeInv'
    BY <1>4, OthersKeepTime DEF RefuseOperation, OverBudget, Running, Analysing, Killed
  <1>5. ASSUME NEW c \in Costs, Operation(c) PROVE TimeInv'
    BY <1>5, OthersKeepTime DEF Operation, Charge, Analysing, Killed
  <1>6. ASSUME NEW c \in Costs, LookAtClock(c) PROVE TimeInv'
    BY <1>6, LookKeepsTime
  <1>7. CASE FindCorruption \/ FindImage
    BY <1>7, OthersKeepTime DEF FindCorruption, FindImage, Analysing, Killed
  <1>8. CASE EndWalk
    BY <1>8, OthersKeepTime DEF EndWalk, Running, Analysing, Killed
  <1>9. CASE Replay
    BY <1>9, BeginKeepsTime DEF Replay
  <1>10. CASE PrintReport \/ PrintMarker \/ Exit
    BY <1>10, OthersKeepTime DEF PrintReport, PrintMarker, Say, Exit, Analysing, Killed
  <1>11. ASSUME NEW s \in Deaths, Die(s) PROVE TimeInv'
    BY <1>11, OthersKeepTime, LimitAssumption DEF Die, Analysing, Killed
  <1>12. CASE SecondPasses
    BY <1>12, SecondKeepsTime
  <1>13. CASE Kill
    BY <1>13, KillKeepsTime
  <1>14. CASE Conclude
    BY <1>14, OthersKeepTime DEF Conclude, Analysing, Killed
  <1>15. CASE Stop \/ UNCHANGED vars
    BY <1>15, OthersKeepTime DEF Stop, vars, Analysing, Killed
  <1> QED
    BY <1>1, <1>2, <1>3, <1>4, <1>5, <1>6, <1>7, <1>8, <1>9, <1>10, <1>11, <1>12, <1>13, <1>14,
       <1>15, <1>16
    DEF Next

\* The wrapper kills only a process whose loading, budgets and stretches without
\* finding the clock in time add up to its limit, in one pass and in two.
THEOREM KilledForSilenceCorrect == Spec => []KilledForSilence
  <1>1. TimeInv => KilledForSilence
    <2> SUFFICES ASSUME TimeInv, Killed
                 PROVE  limits.wall <= loaded + pass * (limits.budget + longest)
      BY DEF KilledForSilence
    <2>1. limits.wall \in Nat /\ limits.budget \in Nat /\ TimeTypes
      BY LimitTypes DEF TimeInv, TimeTypes
    <2>2. limits.wall <= TimeAllowed
      BY <2>1 DEF TimeInv, TimeTypes, TimeAllowed
    <2>3. CASE pass = 1
      BY <2>1, <2>2, <2>3 DEF TimeTypes, TimeAllowed
    <2>4. CASE pass = 2
      BY <2>1, <2>2, <2>4 DEF TimeTypes, TimeAllowed
    <2> QED BY <2>1, <2>3, <2>4 DEF TimeTypes
  <1> QED BY <1>1, TimeInit, TimeStep, PTL DEF Spec

-----------------------------------------------------------------------------
(* The report.                                                             *)

ReportLine(d) == [kind |-> "report", decision |-> d]
MarkerLine(d) == [kind |-> "marker", decision |-> d]

\* What a process that has come this far has printed.
OutputInv ==
  /\ decision \in Decisions /\ status \in 0..255
  /\ poke \in {"unstarted", "loading", "preparing", "walking", "analysed", "reported", "marked",
             "exited"}
  /\ poke \in {"unstarted", "loading", "preparing", "walking", "analysed"} => output = <<>>
  /\ poke = "reported" => output = <<ReportLine(decision)>>
  /\ poke = "marked" => output = <<ReportLine(decision), MarkerLine(decision)>>
  /\ poke = "exited" => \/ output = <<>>
                        \/ \E d \in Decisions : \/ output = <<ReportLine(d)>>
                                               \/ output = <<ReportLine(d), MarkerLine(d)>>

\* The wrapper speaks once, before it starts the process or when that has ended.
ReportInv ==
  /\ OutputInv
  /\ Done => poke \in {"unstarted", "exited"}
  /\ StatusIsReported

LEMMA AppendTwo ==
  ASSUME NEW x, NEW y
  PROVE  Append(<<x>>, y) = <<x, y>>
  <1>1. <<x>> \in Seq({x, y}) /\ <<x, y>> \in Seq({x, y}) /\ Len(<<x>>) = 1 /\ Len(<<x, y>>) = 2
    OBVIOUS
  <1>2. /\ Append(<<x>>, y) \in Seq({x, y}) /\ Len(Append(<<x>>, y)) = 2
        /\ Append(<<x>>, y)[1] = x /\ Append(<<x>>, y)[2] = y
    BY <1>1
  <1>3. \A i \in 1..2 : Append(<<x>>, y)[i] = <<x, y>>[i]
    <2>1. <<x, y>>[1] = x /\ <<x, y>>[2] = y
      OBVIOUS
    <2> QED BY <1>2, <2>1
  <1> DEFINE s == Append(<<x>>, y)
             t == <<x, y>>
  <1>4. s \in Seq({x, y}) /\ t \in Seq({x, y}) /\ Len(s) = Len(t) /\ \A i \in 1..Len(s) : s[i] = t[i]
    BY <1>1, <1>2, <1>3
  <1> HIDE DEF s, t
  <1>5. s = t
    BY <1>4, SeqEqual
  <1> QED BY <1>5 DEF s, t

LEMMA MarkerIsRead ==
  ASSUME NEW d \in Decisions, output = <<ReportLine(d), MarkerLine(d)>>
  PROVE  Line("marker").decision = d /\ Line("report").decision = d
  <1>1. /\ Len(output) = 2 /\ output[1].kind = "report" /\ output[2].kind = "marker"
        /\ output[1].decision = d /\ output[2].decision = d
    BY DEF ReportLine, MarkerLine
  <1>2. Printed("report") = {1} /\ Printed("marker") = {2}
    BY <1>1 DEF Printed
  <1>3. (CHOOSE i \in {1} : \A j \in {1} : j <= i) = 1 /\ (CHOOSE i \in {2} : \A j \in {2} : j <= i) = 2
    OBVIOUS
  <1> QED BY <1>1, <1>2, <1>3 DEF Line

LEMMA NoMarker ==
  ASSUME output = <<>> \/ \E d \in Decisions : output = <<ReportLine(d)>>
  PROVE  Printed("marker") = {}
  BY DEF Printed, ReportLine

\* A step that prints nothing and concludes nothing, within the process.
LEMMA OthersKeepReport ==
  ASSUME ReportInv, UNCHANGED <<output, result>>, decision' \in Decisions, status' \in 0..255,
         \/ poke \in {"unstarted", "loading", "preparing", "walking", "analysed"}
            /\ poke' \in {"loading", "preparing", "walking", "analysed"} /\ result = Unfinished
         \/ UNCHANGED <<poke, status, decision>>
         \/ poke \notin {"unstarted", "exited"} /\ poke' = "exited" /\ result = Unfinished
  PROVE  ReportInv'
  <1>0. OutputInv
    BY DEF ReportInv
  <1>1. OutputInv'
    <2>1. CASE /\ poke \in {"unstarted", "loading", "preparing", "walking", "analysed"}
               /\ poke' \in {"loading", "preparing", "walking", "analysed"}
      BY <1>0, <2>1 DEF OutputInv
    <2>2. CASE UNCHANGED <<poke, status, decision>>
      BY <1>0, <2>2 DEF OutputInv
    <2>3. CASE poke \notin {"unstarted", "exited"} /\ poke' = "exited"
      <3>1. \/ output = <<>>
            \/ output = <<ReportLine(decision)>> /\ decision \in Decisions
            \/ output = <<ReportLine(decision), MarkerLine(decision)>> /\ decision \in Decisions
        BY <1>0, <2>3 DEF OutputInv
      <3> QED BY <2>3, <3>1 DEF OutputInv
    <2> QED BY <2>1, <2>2, <2>3
  <1>2. CASE result = Unfinished
    BY <1>1, <1>2 DEF ReportInv, StatusIsReported, Done
  <1>3. CASE UNCHANGED <<poke, status, decision>>
    BY <1>1, <1>3 DEF ReportInv, StatusIsReported, Done, Killed
  <1> QED BY <1>2, <1>3

LEMMA ConcludeReports ==
  ASSUME ReportInv, Conclude
  PROVE  ReportInv'
  <1>1. /\ poke = "exited" /\ UNCHANGED <<poke, status, output, decision>>
        /\ result' = IF status = 124 THEN [status |-> Codes["unsupported"], report |-> "unsupported"]
                     ELSE IF Printed("marker") = {}
                     THEN [status |-> IF status # 0 THEN status ELSE 70, report |-> NoReport]
                     ELSE [status |-> Codes[Line("marker").decision], report |-> Line("report").decision]
    BY DEF Conclude
  <1>2. OutputInv'
    BY <1>1 DEF ReportInv, OutputInv
  <1>3. Codes["accept"] = 0 /\ Codes["corrupt"] = 2 /\ Codes["unsupported"] = 5
        /\ Decisions = {"accept", "corrupt", "unsupported"}
    BY DEF Codes, Decisions
  <1>4. StatusIsReported'
    <2>1. CASE status = 124
      BY <1>1, <1>3, <2>1 DEF StatusIsReported, NoReport
    <2>2. CASE status # 124 /\ Printed("marker") = {}
      BY <1>1, <2>2 DEF StatusIsReported, Killed, NoReport
    <2>3. CASE status # 124 /\ Printed("marker") # {}
      <3>1. PICK d \in Decisions : output = <<ReportLine(d), MarkerLine(d)>>
        BY <1>1, <2>3, NoMarker DEF ReportInv, OutputInv
      <3>2. result' = [status |-> Codes[d], report |-> d]
        BY <1>1, <2>3, <3>1, MarkerIsRead
      <3> QED BY <1>1, <1>3, <2>3, <3>2 DEF StatusIsReported, Killed, NoReport
    <2> QED BY <2>1, <2>2, <2>3
  <1> QED BY <1>1, <1>2, <1>4 DEF ReportInv

LEMMA ReportStep == ReportInv /\ [Next]_vars => ReportInv'
  <1> SUFFICES ASSUME ReportInv, [Next]_vars PROVE ReportInv'
    OBVIOUS
  <1>0. /\ decision \in Decisions /\ status \in 0..255
        /\ Done => poke \in {"unstarted", "exited"}
        /\ Decisions = {"accept", "corrupt", "unsupported"}
        /\ \A d, e : Worse(d, e) \in Decisions
    BY DEF ReportInv, OutputInv, Decisions, Codes, Worse
  <1>1. ASSUME RefuseArguments PROVE ReportInv'
    <2>1. /\ poke = "unstarted" /\ UNCHANGED <<poke, status, output, decision>>
          /\ result'.report = NoReport /\ result'.status # 0
      BY <1>1 DEF RefuseArguments
    <2> QED BY <2>1 DEF ReportInv, OutputInv, StatusIsReported, Killed, NoReport
  <1>2. ASSUME Start \/ Analyze \/ EnterWalk \/ EndWalk \/ Replay PROVE ReportInv'
    <2>1. /\ UNCHANGED <<output, result, status>> /\ decision' \in Decisions
          /\ poke \in {"unstarted", "loading", "preparing", "walking", "analysed"}
          /\ poke' \in {"loading", "preparing", "walking", "analysed"} /\ result = Unfinished
      BY <1>0, <1>2 DEF Start, Analyze, EnterWalk, EndWalk, Replay, BeginPass, Running, Done,
                        Decisions
    <2> QED BY <1>0, <2>1, OthersKeepReport
  <1>3. ASSUME NEW c \in Costs, RefuseOperation(c) \/ Operation(c) \/ LookAtClock(c) PROVE ReportInv'
    <2>1. /\ UNCHANGED <<output, result, status>> /\ decision' \in Decisions
          /\ poke \in {"preparing", "walking"} /\ poke' \in {"preparing", "walking", "analysed"}
      BY <1>0, <1>3 DEF RefuseOperation, Operation, LookAtClock, Charge, OverBudget, Running
    <2> QED BY <1>0, <2>1, OthersKeepReport DEF Done
  <1>4. ASSUME FindCorruption \/ FindImage PROVE ReportInv'
    <2>1. /\ UNCHANGED <<output, result, status, poke>> /\ decision' \in Decisions
          /\ poke \in {"preparing", "walking"}
      BY <1>0, <1>4 DEF FindCorruption, FindImage, Running
    <2> QED BY <1>0, <2>1, OthersKeepReport DEF Done
  <1>5. ASSUME PrintReport PROVE ReportInv'
    <2>1. /\ poke = "analysed" /\ poke' = "reported" /\ UNCHANGED <<status, decision, result>>
          /\ output' = Append(output, ReportLine(decision)) /\ output = <<>>
      BY <1>5 DEF PrintReport, Say, ReportLine, ReportInv, OutputInv
    <2>2. output' = <<ReportLine(decision)>>
      BY <2>1
    <2> QED BY <1>0, <2>1, <2>2 DEF ReportInv, OutputInv, StatusIsReported, Done
  <1>6. ASSUME PrintMarker PROVE ReportInv'
    <2>1. /\ poke = "reported" /\ poke' = "marked" /\ UNCHANGED <<status, decision, result>>
          /\ output' = Append(output, MarkerLine(decision)) /\ output = <<ReportLine(decision)>>
      BY <1>6 DEF PrintMarker, Say, MarkerLine, ReportInv, OutputInv
    <2>2. output' = <<ReportLine(decision), MarkerLine(decision)>>
      BY <2>1, AppendTwo
    <2> QED BY <1>0, <2>1, <2>2 DEF ReportInv, OutputInv, StatusIsReported, Done
  <1>7. ASSUME Exit \/ Kill \/ \E s \in Deaths : Die(s) PROVE ReportInv'
    <2>1. /\ UNCHANGED <<output, result, decision>> /\ status' \in 0..255
          /\ poke \notin {"unstarted", "exited"} /\ poke' = "exited"
      BY <1>7, LimitAssumption DEF Exit, Kill, Die
    <2> QED BY <1>0, <2>1, OthersKeepReport DEF Done
  <1>8. ASSUME SecondPasses \/ Stop \/ UNCHANGED vars PROVE ReportInv'
    <2>1. UNCHANGED <<output, result, decision, status, poke>>
      BY <1>8 DEF SecondPasses, Stop, vars
    <2> QED BY <1>0, <2>1, OthersKeepReport
  <1>9. CASE Conclude
    BY <1>9, ConcludeReports
  <1> QED
    BY <1>1, <1>2, <1>3, <1>4, <1>5, <1>6, <1>7, <1>8, <1>9 DEF Next

\* However the process ends, the wrapper's status is that of the report it gives,
\* a killed process is reported as not covered, and status 0 means an acceptance.
THEOREM StatusIsReportedCorrect == Spec => []StatusIsReported
  <1>1. Init => ReportInv
    BY DEF Init, ReportInv, OutputInv, StatusIsReported, Done, Decisions, Codes
  <1>2. ReportInv => StatusIsReported
    BY DEF ReportInv
  <1> QED BY <1>1, <1>2, ReportStep, PTL DEF Spec

-----------------------------------------------------------------------------
(* Types.                                                                  *)

OutputLine == [kind : {"report", "marker"}, decision : Decisions]

\* The four parts of TypeOK: what counts, where the process stands, what has
\* been noticed, and what is said.
NumberTypes ==
  /\ limits \in Limits /\ clock \in 0..MaxClock /\ deadline \in Nat
  /\ ops \in 0..Top /\ nextCheck \in 0..Top
  /\ work \in Nat /\ unlooked \in Nat /\ onTime \in 0..MaxClock
  /\ loaded \in 0..MaxClock /\ longest \in 0..MaxClock

PlaceTypes ==
  /\ poke \in {"unstarted", "loading", "preparing", "walking", "analysed", "reported", "marked",
             "exited"}
  /\ status \in Deaths \cup {0, 124}
  /\ pass \in {1, 2} /\ decision \in Decisions

FlagTypes == guarded \in BOOLEAN /\ image \in BOOLEAN /\ overran \in BOOLEAN

SaidTypes ==
  /\ output \in Seq(OutputLine)
  /\ result \in [status : 0..256, report : Decisions \cup {NoReport}]

TypeParts == NumberTypes /\ PlaceTypes /\ FlagTypes /\ SaidTypes

LEMMA PartsAreType == TypeParts => TypeOK
  <1> SUFFICES ASSUME TypeParts PROVE TypeOK
    OBVIOUS
  <1> QED BY Zenon DEF TypeParts, NumberTypes, PlaceTypes, FlagTypes, SaidTypes, OutputLine, TypeOK

\* What the wrapper says of a process that has ended.
LEMMA ConcludeType ==
  ASSUME ReportInv, Conclude
  PROVE  result' \in [status : 0..256, report : Decisions \cup {NoReport}]
  <1>1. /\ Codes["unsupported"] \in 0..256 /\ "unsupported" \in Decisions
        /\ \A d \in Decisions : Codes[d] \in 0..256
    BY DEF Codes, Decisions
  <1>2. status \in 0..256
    BY DEF ReportInv, OutputInv
  <1>3. CASE status = 124
    BY <1>1, <1>3 DEF Conclude
  <1>4. CASE status # 124 /\ Printed("marker") = {}
    BY <1>2, <1>4 DEF Conclude
  <1>5. CASE status # 124 /\ Printed("marker") # {}
    <2>1. PICK d \in Decisions : output = <<ReportLine(d), MarkerLine(d)>>
      BY <1>5, NoMarker DEF Conclude, ReportInv, OutputInv
    <2>2. result' = [status |-> Codes[d], report |-> d]
      BY <1>5, <2>1, MarkerIsRead DEF Conclude
    <2> QED BY <1>1, <2>2
  <1> QED BY <1>3, <1>4, <1>5

LEMMA ChargeType ==
  ASSUME NumberTypes, NEW c \in Costs, Operation(c) \/ LookAtClock(c)
  PROVE  NumberTypes'
  <1>1. /\ Top \in Nat \ {0} /\ Interval \in 1..Top /\ c \in 1..Top /\ ops \in 0..Top
        /\ nextCheck \in 0..Top /\ work \in Nat /\ unlooked \in Nat
        /\ clock \in 0..MaxClock /\ onTime \in 0..MaxClock
    BY LimitAssumption DEF NumberTypes
  <1>2. /\ UNCHANGED <<limits, clock, deadline, loaded, longest>>
        /\ ops' = (ops + c) % (Top + 1) /\ work' = work + c
    BY DEF Operation, LookAtClock, Charge, delays
  <1>3. ops' \in 0..Top /\ work' \in Nat
    BY <1>1, <1>2
  <1>4. nextCheck' \in 0..Top /\ unlooked' \in Nat /\ onTime' \in 0..MaxClock
    BY <1>1, <1>3 DEF Operation, LookAtClock, OverBudget
  <1> QED BY <1>2, <1>3, <1>4 DEF NumberTypes

LEMMA NumbersStep == TypeParts /\ [Next]_vars => NumberTypes'
  <1> SUFFICES ASSUME TypeParts, [Next]_vars PROVE NumberTypes'
    OBVIOUS
  <1> USE DEF budgets, history, delays
  <1>0. NumberTypes /\ Top \in Nat \ {0} /\ MaxClock \in Nat /\ limits.budget \in Nat
        /\ limits.ops \in 0..Top
    BY LimitTypes, LimitAssumption DEF TypeParts, NumberTypes
  <1>1. CASE Start \/ Analyze \/ Replay
    BY <1>0, <1>1 DEF NumberTypes, Start, Analyze, Replay, BeginPass, ResetBudget
  <1>2. CASE EnterWalk
    BY <1>0, <1>2 DEF NumberTypes, EnterWalk, ResetBudget
  <1>3. ASSUME NEW c \in Costs, RefuseOperation(c) PROVE NumberTypes'
    BY <1>0, <1>3 DEF NumberTypes, RefuseOperation
  <1>4. ASSUME NEW c \in Costs, Operation(c) \/ LookAtClock(c) PROVE NumberTypes'
    BY <1>0, <1>4, ChargeType
  <1>5. CASE SecondPasses
    BY <1>0, <1>5 DEF NumberTypes, SecondPasses
  <1>6. CASE \/ RefuseArguments \/ FindCorruption \/ FindImage \/ EndWalk \/ PrintReport
             \/ PrintMarker \/ Exit \/ Kill \/ Conclude \/ Stop \/ UNCHANGED vars
             \/ \E s \in Deaths : Die(s)
    <2>1. UNCHANGED <<limits, clock, deadline, ops, nextCheck, work, unlooked, onTime, loaded,
                    longest>>
      BY <1>6 DEF RefuseArguments, FindCorruption, FindImage, EndWalk, PrintReport, PrintMarker,
                  Say, Exit, Kill, Conclude, Stop, vars, Die
    <2> QED BY <1>0, <2>1 DEF NumberTypes
  <1> QED BY <1>1, <1>2, <1>3, <1>4, <1>5, <1>6 DEF Next

LEMMA PlaceStep == TypeParts /\ [Next]_vars => PlaceTypes' /\ FlagTypes'
  <1> SUFFICES ASSUME TypeParts, [Next]_vars PROVE PlaceTypes' /\ FlagTypes'
    OBVIOUS
  <1> USE DEF budgets, history, delays
  <1>0. PlaceTypes /\ FlagTypes /\ "accept" \in Decisions /\ \A d, e : Worse(d, e) \in Decisions
    BY DEF TypeParts, Worse, Decisions, Codes
  <1>1. CASE Start \/ Analyze \/ Replay \/ EnterWalk \/ EndWalk
    <2>1. /\ UNCHANGED <<status, guarded, image, overran>>
          /\ poke' \in {"loading", "preparing", "walking", "analysed"}
          /\ pass' \in {pass, 1, 2} /\ decision' \in {decision, "accept"}
      BY <1>1 DEF Start, Analyze, Replay, BeginPass, EnterWalk, EndWalk
    <2> QED BY <1>0, <2>1 DEF PlaceTypes, FlagTypes
  <1>2. ASSUME NEW c \in Costs, RefuseOperation(c) \/ Operation(c) \/ LookAtClock(c)
        PROVE  PlaceTypes' /\ FlagTypes'
    <2>1. UNCHANGED <<status, pass, guarded, image>>
      BY <1>2 DEF RefuseOperation, Operation, LookAtClock, Charge
    <2>2. poke' \in {poke, "analysed"} /\ decision' \in {decision, Worse(decision, "unsupported")}
      BY <1>2 DEF RefuseOperation, Operation, LookAtClock, OverBudget
    <2>3. overran' \in BOOLEAN
      BY <1>0, <1>2 DEF RefuseOperation, Operation, LookAtClock, OverBudget, FlagTypes
    <2> QED BY <1>0, <2>1, <2>2, <2>3 DEF PlaceTypes, FlagTypes
  <1>3. CASE FindCorruption
    BY <1>0, <1>3 DEF FindCorruption, PlaceTypes, FlagTypes
  <1>4. CASE FindImage
    BY <1>0, <1>4 DEF FindImage, PlaceTypes, FlagTypes
  <1>5. CASE PrintReport \/ PrintMarker
    BY <1>0, <1>5 DEF PrintReport, PrintMarker, Say, PlaceTypes, FlagTypes
  <1>6. CASE Exit \/ Kill \/ \E s \in Deaths : Die(s)
    <2>1. /\ UNCHANGED <<pass, decision, guarded, image, overran>> /\ poke' = "exited"
          /\ status' \in Deaths \cup {0, 124}
      BY <1>6 DEF Exit, Kill, Die
    <2> QED BY <1>0, <2>1 DEF PlaceTypes, FlagTypes
  <1>7. CASE RefuseArguments \/ SecondPasses \/ Conclude \/ Stop \/ UNCHANGED vars
    <2>1. UNCHANGED <<poke, status, pass, decision, guarded, image, overran>>
      BY <1>7 DEF RefuseArguments, SecondPasses, Conclude, Stop, vars
    <2> QED BY <1>0, <2>1 DEF PlaceTypes, FlagTypes
  <1> QED BY <1>1, <1>2, <1>3, <1>4, <1>5, <1>6, <1>7 DEF Next

LEMMA SaidStep == TypeParts /\ ReportInv /\ [Next]_vars => SaidTypes'
  <1> SUFFICES ASSUME TypeParts, ReportInv, [Next]_vars PROVE SaidTypes'
    OBVIOUS
  <1>0. SaidTypes /\ decision \in Decisions
    BY DEF TypeParts, PlaceTypes
  <1>1. CASE RefuseArguments
    BY <1>0, <1>1 DEF RefuseArguments, SaidTypes
  <1>2. CASE PrintReport \/ PrintMarker
    <2>1. PICK line \in OutputLine : output' = Append(output, line) /\ UNCHANGED result
      BY <1>0, <1>2 DEF PrintReport, PrintMarker, Say, OutputLine
    <2> QED BY <1>0, <2>1 DEF SaidTypes
  <1>3. CASE Conclude
    <2>1. UNCHANGED output
      BY <1>3 DEF Conclude
    <2> QED BY <1>0, <1>3, <2>1, ConcludeType DEF SaidTypes
  <1>4. CASE \/ Start \/ Analyze \/ Replay \/ EnterWalk \/ EndWalk \/ FindCorruption \/ FindImage
             \/ Exit \/ Kill \/ SecondPasses \/ Stop \/ UNCHANGED vars
             \/ \E s \in Deaths : Die(s)
             \/ \E c \in Costs : RefuseOperation(c) \/ Operation(c) \/ LookAtClock(c)
    <2>1. UNCHANGED <<output, result>>
      BY <1>4 DEF Start, Analyze, Replay, EnterWalk, EndWalk, FindCorruption, FindImage, Exit, Kill,
                  SecondPasses, Stop, vars, Die, RefuseOperation, Operation, LookAtClock, Charge
    <2> QED BY <1>0, <2>1 DEF SaidTypes
  <1> QED BY <1>1, <1>2, <1>3, <1>4 DEF Next

\* Every variable of Driver has its type; what the process prints are reports and
\* markers, and the wrapper's status is one that a process can have.
THEOREM TypeCorrect == Spec => []TypeOK
  <1>1. Init => TypeParts
    <2> SUFFICES ASSUME Init PROVE TypeParts
      OBVIOUS
    <2>1. NumberTypes
      BY LimitAssumption DEF Init, NumberTypes
    <2>2. PlaceTypes /\ FlagTypes
      BY DEF Init, PlaceTypes, FlagTypes, Decisions, Codes
    <2>3. SaidTypes
      BY DEF Init, SaidTypes, Unfinished, NoReport
    <2> QED BY <2>1, <2>2, <2>3 DEF TypeParts
  <1>2. Init => ReportInv
    BY DEF Init, ReportInv, OutputInv, StatusIsReported, Done, Decisions, Codes
  <1>3. TypeParts /\ ReportInv /\ [Next]_vars => TypeParts'
    BY NumbersStep, PlaceStep, SaidStep DEF TypeParts
  <1> QED BY <1>1, <1>2, <1>3, ReportStep, PartsAreType, PTL DEF Spec

-----------------------------------------------------------------------------
(* h5patch: the actions and the stages of a plan. *)

Action == [at : Fields \cup Structures, old : (SUBSET Fields) \cup {Junk}, new : SUBSET Fields]

LEMMA FieldsAre ==
  /\ Fields = {"signature", "base", "flags", "element", "filter", "sections", "total"}
  /\ FieldsOf["super"] = {"signature", "base", "flags"}
  /\ FieldsOf["header"] = {"element", "filter"}
  /\ FieldsOf["fshd"] = {"sections"} /\ FieldsOf["bthd"] = {"total"}
  /\ \A s \in Structures : FieldsOf[s] \subseteq Fields
  /\ Fields \cap Structures = {}
<1>1. /\ FieldsOf["super"] = {"signature", "base", "flags"}
      /\ FieldsOf["header"] = {"element", "filter"}
      /\ FieldsOf["fshd"] = {"sections"} /\ FieldsOf["bthd"] = {"total"}
  BY DEF FieldsOf
<1>2. Fields = FieldsOf["super"] \cup FieldsOf["header"] \cup FieldsOf["fshd"] \cup FieldsOf["bthd"]
  BY DEF Fields, Structures
<1>3. Fields = {"signature", "base", "flags", "element", "filter", "sections", "total"}
  BY <1>1, <1>2
<1>4. \A s \in Structures : FieldsOf[s] \subseteq Fields
  BY DEF Fields
<1>5. Fields \cap Structures = {}
  BY <1>3 DEF Structures
<1> QED BY <1>1, <1>3, <1>4, <1>5

LEMMA StagesAre ==
  /\ Len(Stages) = 13 /\ DOMAIN Stages = 1..13
  /\ Stages[1] = "signature" /\ Stages[2] = "base" /\ Stages[3] = "flags" /\ Stages[4] = "super"
  /\ Stages[5] = "element" /\ Stages[6] = "filter" /\ Stages[7] = "finalize"
  /\ Stages[8] = "header" /\ Stages[9] = "fshd" /\ Stages[10] = "total" /\ Stages[11] = "bthd"
  /\ Stages[12] = "reached fshd" /\ Stages[13] = "reached bthd"
  BY DEF Stages

LEMMA PlannedNone == Planned(<<>>) = {}
  BY DEF Planned

LEMMA PlannedOne ==
  ASSUME NEW a
  PROVE  Planned(<<a>>) = {a.at}
<1>1. DOMAIN <<a>> = {1} /\ <<a>>[1] = a
  OBVIOUS
<1> QED BY <1>1 DEF Planned

LEMMA PlannedConcat ==
  ASSUME NEW S, NEW x \in Seq(S), NEW y \in Seq(S)
  PROVE  Planned(x \o y) = Planned(x) \cup Planned(y)
<1> DEFINE z == x \o y
<1>1. /\ z \in Seq(S) /\ Len(z) = Len(x) + Len(y)
      /\ \A i \in 1..Len(z) : z[i] = IF i <= Len(x) THEN x[i] ELSE y[i - Len(x)]
  OBVIOUS
<1>2. /\ Len(x) \in Nat /\ Len(y) \in Nat
      /\ DOMAIN x = 1..Len(x) /\ DOMAIN y = 1..Len(y) /\ DOMAIN z = 1..Len(z)
  BY <1>1
<1> HIDE DEF z
<1>3. \A i \in DOMAIN x : i \in DOMAIN z /\ z[i] = x[i]
  BY <1>1, <1>2
<1>4. \A i \in DOMAIN y : (i + Len(x)) \in DOMAIN z /\ z[i + Len(x)] = y[i]
  BY <1>1, <1>2
<1>5. \A i \in DOMAIN z : \/ i \in DOMAIN x /\ z[i] = x[i]
                          \/ (i - Len(x)) \in DOMAIN y /\ z[i] = y[i - Len(x)]
  BY <1>1, <1>2
<1>6. Planned(z) = Planned(x) \cup Planned(y)
  BY <1>3, <1>4, <1>5 DEF Planned
<1> QED BY <1>6 DEF z

LEMMA PlannedHead ==
  ASSUME NEW S, NEW q \in Seq(S), q # <<>>
  PROVE  /\ Head(q) \in S /\ Tail(q) \in Seq(S)
         /\ Planned(q) = {Head(q).at} \cup Planned(Tail(q))
         /\ DOMAIN Tail(q) = 1..(Len(q) - 1)
         /\ \A i \in DOMAIN Tail(q) : (i + 1) \in DOMAIN q /\ Tail(q)[i] = q[i + 1]
         /\ 1 \in DOMAIN q /\ Head(q) = q[1]
<1>1. /\ Head(q) \in S /\ Tail(q) \in Seq(S) /\ Head(q) = q[1]
  OBVIOUS
<1>2. /\ Len(q) \in Nat /\ Len(q) # 0 /\ DOMAIN q = 1..Len(q)
      /\ Len(Tail(q)) = Len(q) - 1 /\ DOMAIN Tail(q) = 1..Len(Tail(q))
  <2>1. Len(q) \in Nat /\ Len(q) # 0
    OBVIOUS
  <2>2. DOMAIN q = 1..Len(q)
    OBVIOUS
  <2>3. Len(Tail(q)) = Len(q) - 1
    BY <2>1, HeadTailProperties
  <2>4. DOMAIN Tail(q) = 1..Len(Tail(q))
    BY <1>1
  <2> QED BY <2>1, <2>2, <2>3, <2>4
<1>3. \A i \in DOMAIN Tail(q) : Tail(q)[i] = q[i + 1]
  OBVIOUS
<1> DEFINE L == Len(q)
<1>4. /\ L \in Nat /\ L # 0 /\ DOMAIN q = 1..L /\ DOMAIN Tail(q) = 1..(L - 1)
  BY <1>2
<1> HIDE DEF L
<1>5. \A i \in 1..L : i = 1 \/ ((i - 1) \in 1..(L - 1) /\ (i - 1) + 1 = i)
  BY <1>4
<1>6. \A i \in 1..(L - 1) : (i + 1) \in 1..L
  BY <1>4
<1>7. 1 \in 1..L
  BY <1>4
<1>8. \A i \in 1..L : i = 1 \/ ((i - 1) \in DOMAIN Tail(q) /\ q[i] = Tail(q)[i - 1])
  <2> SUFFICES ASSUME NEW i \in 1..L, i # 1
               PROVE  (i - 1) \in DOMAIN Tail(q) /\ q[i] = Tail(q)[i - 1]
    OBVIOUS
  <2>1. (i - 1) \in DOMAIN Tail(q) /\ (i - 1) + 1 = i
    BY <1>4, <1>5
  <2>2. Tail(q)[i - 1] = q[(i - 1) + 1]
    BY <1>3, <2>1
  <2> QED BY <2>1, <2>2
<1>9. \A i \in DOMAIN Tail(q) : (i + 1) \in DOMAIN q
  BY <1>4, <1>6
<1>10. Planned(q) = {q[1].at} \cup Planned(Tail(q))
  <2>1. ASSUME NEW i \in DOMAIN q PROVE q[i].at \in {q[1].at} \cup Planned(Tail(q))
    BY <1>4, <1>8 DEF Planned
  <2>2. ASSUME NEW i \in DOMAIN Tail(q) PROVE Tail(q)[i].at \in Planned(q)
    BY <1>3, <1>9 DEF Planned
  <2>3. q[1].at \in Planned(q)
    BY <1>4, <1>7 DEF Planned
  <2> QED BY <2>1, <2>2, <2>3 DEF Planned
<1> QED BY <1>1, <1>3, <1>4, <1>7, <1>9, <1>10 DEF L

-----------------------------------------------------------------------------
\* What each stage adds.

LEMMA SetFieldType ==
  ASSUME NEW f \in Files, NEW x \in Fields
  PROVE  SetField(f, x) \in Action /\ SetField(f, x).at = x /\ SetField(f, x).new = {}
<1>1. {x} \cap f.bad \in SUBSET Fields
  BY DEF Files
<1> QED BY <1>1 DEF SetField, Action

LEMMA FieldIs ==
  ASSUME NEW f \in Files, NEW x \in Fields, NEW cond \in BOOLEAN
  PROVE  /\ Field(cond, f, x) \in Seq(Action)
         /\ cond /\ x \in f.bad => /\ Planned(Field(cond, f, x)) = {x}
                                  /\ Field(cond, f, x) = <<SetField(f, x)>>
         /\ ~(cond /\ x \in f.bad) => /\ Planned(Field(cond, f, x)) = {}
                                     /\ Field(cond, f, x) = <<>>
<1>1. CASE cond /\ x \in f.bad
  <2>1. Field(cond, f, x) = <<SetField(f, x)>>
    BY <1>1 DEF Field
  <2>2. Field(cond, f, x) \in Seq(Action) /\ Planned(Field(cond, f, x)) = {x}
    BY <2>1, SetFieldType, PlannedOne
  <2> QED BY <1>1, <2>1, <2>2
<1>2. CASE ~(cond /\ x \in f.bad)
  <2>1. Field(cond, f, x) = <<>>
    BY <1>2 DEF Field
  <2> QED BY <1>2, <2>1, PlannedNone
<1> QED BY <1>1, <1>2

LEMMA ResealIs ==
  ASSUME NEW f \in Files, NEW s \in Structures, NEW body \in SUBSET Fields
  PROVE  /\ Reseal(f, s, body) \in Seq(Action)
         /\ f.sum[s] = body => Reseal(f, s, body) = <<>> /\ Planned(Reseal(f, s, body)) = {}
         /\ f.sum[s] # body =>
              /\ Reseal(f, s, body) = <<[at |-> s, old |-> f.sum[s], new |-> body]>>
              /\ Planned(Reseal(f, s, body)) = {s}
<1>1. CASE f.sum[s] = body
  BY <1>1, PlannedNone DEF Reseal
<1>2. CASE f.sum[s] # body
  <2> DEFINE a == [at |-> s, old |-> f.sum[s], new |-> body]
  <2>1. f.sum[s] \in (SUBSET Fields) \cup {Junk}
    BY DEF Files
  <2>2. a \in Action /\ a.at = s
    BY <2>1 DEF Action
  <2>3. Reseal(f, s, body) = <<a>>
    BY <1>2 DEF Reseal
  <2> HIDE DEF a
  <2>4. <<a>> \in Seq(Action) /\ Planned(<<a>>) = {s}
    BY <2>2, PlannedOne
  <2> QED BY <1>2, <2>3, <2>4 DEF a
<1> QED BY <1>1, <1>2

LEMMA BodyType ==
  ASSUME NEW f \in Files, NEW s \in Structures
  PROVE  Body(f, s) \in SUBSET Fields /\ Body(f, s) \subseteq FieldsOf[s]
  BY FieldsAre DEF Body

LEMMA WriteType ==
  ASSUME NEW f \in Files, NEW a \in Action
  PROVE  /\ Write(f, a) \in Files
         /\ Write(f, a).simple = f.simple /\ Write(f, a).complete = f.complete
         /\ Write(f, a).walked = f.walked
         /\ a.at \in Structures =>
              /\ Write(f, a).bad = f.bad /\ Write(f, a).sum[a.at] = a.new
              /\ \A s \in Structures : s # a.at => Write(f, a).sum[s] = f.sum[s]
         /\ a.at \notin Structures =>
              Write(f, a).bad = f.bad \ {a.at} /\ Write(f, a).sum = f.sum
<1> DEFINE Sums == [Structures -> (SUBSET Fields) \cup {Junk}]
<1>0. /\ f.bad \in SUBSET Fields /\ f.sum \in Sums /\ f.simple \in BOOLEAN
      /\ f.complete \in BOOLEAN /\ f.walked \in 0..2 /\ (f.complete => f.walked = 2)
      /\ f = [bad |-> f.bad, sum |-> f.sum, simple |-> f.simple, complete |-> f.complete,
              walked |-> f.walked]
  BY DEF Files
<1>1. a.new \in SUBSET Fields
  BY DEF Action
<1>2. CASE a.at \in Structures
  <2> DEFINE t == [f.sum EXCEPT ![a.at] = a.new]
  <2>1. Write(f, a) = [f EXCEPT !.sum = t]
    BY <1>2 DEF Write
  <2>2. /\ t \in Sums /\ t[a.at] = a.new
        /\ \A s \in Structures : s # a.at => t[s] = f.sum[s]
    BY <1>0, <1>1, <1>2
  <2> HIDE DEF t
  <2>3. Write(f, a) = [bad |-> f.bad, sum |-> t, simple |-> f.simple, complete |-> f.complete,
                       walked |-> f.walked]
    BY <1>0, <2>1
  <2> QED BY <1>0, <1>2, <2>2, <2>3 DEF Files
<1>3. CASE a.at \notin Structures
  <2> DEFINE b == f.bad \ {a.at}
  <2>1. Write(f, a) = [f EXCEPT !.bad = b]
    BY <1>3 DEF Write
  <2>2. b \in SUBSET Fields
    BY <1>0
  <2> HIDE DEF b
  <2>3. Write(f, a) = [bad |-> b, sum |-> f.sum, simple |-> f.simple, complete |-> f.complete,
                       walked |-> f.walked]
    BY <1>0, <2>1
  <2> QED BY <1>0, <1>3, <2>2, <2>3 DEF Files, b
<1> QED BY <1>2, <1>3

LEMMA ActionOnIs ==
  ASSUME NEW c \in Seq(Action), NEW x
  PROVE  /\ ActionOn(c, x) \in Seq(Action)
         /\ x \notin Planned(c) => ActionOn(c, x) = <<>>
         /\ x \in Planned(c) => \E a \in Action : a.at = x /\ ActionOn(c, x) = <<a>>
<1>1. CASE x \notin Planned(c)
  BY <1>1 DEF ActionOn
<1>2. CASE x \in Planned(c)
  <2> DEFINE i == CHOOSE j \in DOMAIN c : c[j].at = x
  <2>1. i \in DOMAIN c /\ c[i].at = x
    BY <1>2 DEF Planned
  <2>2. ActionOn(c, x) = <<c[i]>>
    BY <1>2 DEF ActionOn
  <2> HIDE DEF i
  <2>3. c[i] \in Action
    BY <2>1
  <2> QED BY <1>2, <2>1, <2>2, <2>3
<1> QED BY <1>1, <1>2

LEMMA SemanticIs ==
  ASSUME NEW c \in Seq(Action)
  PROVE  /\ Semantic(c) \in Seq(Action)
         /\ Planned(Semantic(c)) = Planned(c) \cap {"element", "filter"}
         /\ Semantic(c) = <<>> <=> Planned(c) \cap {"element", "filter"} = {}
<1> DEFINE e == ActionOn(c, "element")  p == ActionOn(c, "filter")
<1>1. e \in Seq(Action) /\ p \in Seq(Action)
  BY ActionOnIs
<1>2. Planned(e) = Planned(c) \cap {"element"} /\ Planned(p) = Planned(c) \cap {"filter"}
  BY ActionOnIs, PlannedNone, PlannedOne
<1>3. Semantic(c) = e \o p
  BY DEF Semantic
<1> HIDE DEF e, p
<1>4. Planned(e \o p) = Planned(e) \cup Planned(p) /\ e \o p \in Seq(Action)
  BY <1>1, PlannedConcat
<1>5. e \o p = <<>> <=> e = <<>> /\ p = <<>>
  BY <1>1
<1>6. /\ e = <<>> <=> "element" \notin Planned(c)
      /\ p = <<>> <=> "filter" \notin Planned(c)
  <2>1. /\ "element" \in Planned(c) => \E a \in Action : e = <<a>>
        /\ "filter" \in Planned(c) => \E a \in Action : p = <<a>>
        /\ "element" \notin Planned(c) => e = <<>>
        /\ "filter" \notin Planned(c) => p = <<>>
    BY ActionOnIs DEF e, p
  <2>2. \A a \in Action : <<a>> # <<>>
    OBVIOUS
  <2> QED BY <2>1, <2>2
<1>7. Planned(Semantic(c)) = Planned(c) \cap {"element", "filter"}
  BY <1>2, <1>3, <1>4
<1> QED BY <1>3, <1>4, <1>5, <1>6, <1>7

LEMMA StageType ==
  ASSUME NEW f \in Files, NEW h \in Files, NEW c \in Seq(Action), NEW w \in BOOLEAN,
         NEW n \in 1..13
  PROVE  Stage(Stages[n], f, h, c, w) \in Seq(Action)
<1>0. <<>> \in Seq(Action)
  OBVIOUS
<1>a. /\ "signature" \in Fields /\ "base" \in Fields /\ "flags" \in Fields /\ "element" \in Fields
      /\ "filter" \in Fields /\ "sections" \in Fields /\ "total" \in Fields
  BY FieldsAre
<1>b. /\ "super" \in Structures /\ "header" \in Structures /\ "fshd" \in Structures
      /\ "bthd" \in Structures
  BY DEF Structures
<1>c. \A x \in Fields : \A cond \in BOOLEAN : Field(cond, f, x) \in Seq(Action)
  BY FieldIs
<1>d. \A s \in Structures : \A body \in SUBSET Fields : Reseal(f, s, body) \in Seq(Action)
  BY ResealIs
<1>e. \A s \in Structures : \A wr \in BOOLEAN :
        Body(f, s) \in SUBSET Fields /\ BodyAfter(f, s, c, wr) \in SUBSET Fields
  BY BodyType DEF BodyAfter
<1>1. CASE n = 1
  BY <1>1, <1>a, <1>c, StagesAre DEF Stage, Signature
<1>2. CASE n = 2
  BY <1>2, <1>a, <1>c, StagesAre DEF Stage, SuperBase, SuperReadable, Locatable
<1>3. CASE n = 3
  BY <1>3, <1>a, <1>c, StagesAre DEF Stage, SuperFlags, SuperReadable, Locatable
<1>4. CASE n = 4
  BY <1>4, <1>0, <1>b, <1>d, <1>e, StagesAre DEF Stage, SuperChecksum
<1>5. CASE n = 5
  <2>1. f.simple \in BOOLEAN
    BY DEF Files
  <2> QED BY <1>5, <2>1, <1>a, <1>c, StagesAre DEF Stage, ChunkLayout, Reachable
<1>6. CASE n = 6
  <2>1. h.complete \in BOOLEAN
    BY DEF Files
  <2> QED BY <1>6, <2>1, <1>a, <1>c, StagesAre DEF Stage, FilterParameters, Reachable, Complete, Sealed
<1>7. CASE n = 7
  BY <1>7, <1>0, <1>b, <1>d, <1>e, StagesAre DEF Stage, FinalizeSemantic
<1>8. CASE n = 8
  BY <1>8, <1>0, <1>b, <1>d, <1>e, StagesAre DEF Stage, HeaderChecksum
<1>9. CASE n = 9
  <2> DEFINE a == SetField(f, "sections")  r == Reseal(f, "fshd", {})
  <2>1. a \in Action /\ r \in Seq(Action)
    BY <1>a, <1>b, SetFieldType, ResealIs
  <2>2. FreeSpaceCount(f, h) = <<a>> \o r \/ FreeSpaceCount(f, h) = <<>>
    BY DEF FreeSpaceCount
  <2> HIDE DEF a, r
  <2>3. <<a>> \o r \in Seq(Action)
    BY <2>1
  <2> QED BY <1>9, <1>0, <2>2, <2>3, StagesAre DEF Stage
<1>10. CASE n = 10
  BY <1>10, <1>a, <1>c, StagesAre DEF Stage, TreeTotal, Reachable
<1>11. CASE n = 11
  BY <1>11, <1>0, <1>b, <1>d, <1>e, StagesAre DEF Stage, TreeChecksum
<1>12. CASE n = 12
  BY <1>12, <1>0, <1>b, <1>d, <1>e, StagesAre DEF Stage, ReachedChecksum
<1>13. CASE n = 13
  BY <1>13, <1>0, <1>b, <1>d, <1>e, StagesAre DEF Stage, ReachedChecksum
<1> QED BY <1>1, <1>2, <1>3, <1>4, <1>5, <1>6, <1>7, <1>8, <1>9, <1>10, <1>11, <1>12, <1>13

\* The actions collected by the first stages of a plan.
Chain(f) ==
  LET Collected[n \in 0..Len(Stages)] ==
        IF n = 0 THEN <<>>
        ELSE Collected[n - 1] \o Stage(Stages[n], f, f, Collected[n - 1], FALSE)
  IN Collected

LEMMA PlanIsChain ==
  ASSUME NEW f
  PROVE  Plan(f) = Chain(f)[13]
  BY StagesAre DEF Plan, Chain

LEMMA ChainIs ==
  ASSUME NEW f
  PROVE  /\ Chain(f)[0] = <<>>
         /\ \A n \in 1..13 :
              Chain(f)[n] = Chain(f)[n - 1] \o Stage(Stages[n], f, f, Chain(f)[n - 1], FALSE)
<1> DEFINE G(n, c) == c \o Stage(Stages[n], f, f, c, FALSE)
           a1 == G(1, <<>>)  a2 == G(2, a1)  a3 == G(3, a2)  a4 == G(4, a3)  a5 == G(5, a4)
           a6 == G(6, a5)  a7 == G(7, a6)  a8 == G(8, a7)  a9 == G(9, a8)  a10 == G(10, a9)
           a11 == G(11, a10)  a12 == G(12, a11)  a13 == G(13, a12)
           g == [n \in 0..13 |-> CASE n = 0 -> <<>> [] n = 1 -> a1 [] n = 2 -> a2 [] n = 3 -> a3
                   [] n = 4 -> a4 [] n = 5 -> a5 [] n = 6 -> a6 [] n = 7 -> a7 [] n = 8 -> a8
                   [] n = 9 -> a9 [] n = 10 -> a10 [] n = 11 -> a11 [] n = 12 -> a12
                   [] n = 13 -> a13]
<1>1. /\ a1 = G(1, <<>>) /\ a2 = G(2, a1) /\ a3 = G(3, a2) /\ a4 = G(4, a3) /\ a5 = G(5, a4)
      /\ a6 = G(6, a5) /\ a7 = G(7, a6) /\ a8 = G(8, a7) /\ a9 = G(9, a8) /\ a10 = G(10, a9)
      /\ a11 = G(11, a10) /\ a12 = G(12, a11) /\ a13 = G(13, a12)
  OBVIOUS
<1> HIDE DEF a1, a2, a3, a4, a5, a6, a7, a8, a9, a10, a11, a12, a13
<1>2. /\ g[0] = <<>> /\ g[1] = a1 /\ g[2] = a2 /\ g[3] = a3 /\ g[4] = a4 /\ g[5] = a5
      /\ g[6] = a6 /\ g[7] = a7 /\ g[8] = a8 /\ g[9] = a9 /\ g[10] = a10 /\ g[11] = a11
      /\ g[12] = a12 /\ g[13] = a13
  OBVIOUS
<1>3. /\ DOMAIN g = 0..13 /\ g = [n \in 0..13 |-> g[n]]
  OBVIOUS
<1> HIDE DEF g, G
<1>4. \A n \in 1..13 : g[n] = G(n, g[n - 1])
  <2> SUFFICES ASSUME NEW n \in 1..13 PROVE g[n] = G(n, g[n - 1])
    OBVIOUS
  <2>1. \/ n = 1 \/ n = 2 \/ n = 3 \/ n = 4 \/ n = 5 \/ n = 6 \/ n = 7 \/ n = 8 \/ n = 9
        \/ n = 10 \/ n = 11 \/ n = 12 \/ n = 13
    OBVIOUS
  <2> QED BY <1>1, <1>2, <2>1
<1>5. g = [n \in 0..13 |-> IF n = 0 THEN <<>> ELSE G(n, g[n - 1])]
  <2>1. \A n \in 0..13 : n = 0 \/ n \in 1..13
    OBVIOUS
  <2>2. \A n \in 0..13 : g[n] = IF n = 0 THEN <<>> ELSE G(n, g[n - 1])
    BY <1>2, <1>4, <2>1
  <2> QED BY <1>3, <2>2
<1> DEFINE h == Chain(f)
<1>6. h = CHOOSE k : k = [n \in 0..13 |-> IF n = 0 THEN <<>> ELSE G(n, k[n - 1])]
  BY StagesAre DEF Chain, G
<1> HIDE DEF h
<1>7. h = [n \in 0..13 |-> IF n = 0 THEN <<>> ELSE G(n, h[n - 1])]
  BY <1>5, <1>6
<1>8. h[0] = <<>> /\ \A n \in 1..13 : h[n] = G(n, h[n - 1])
  <2>1. \A n \in 1..13 : n \in 0..13 /\ n # 0
    OBVIOUS
  <2>2. 0 \in 0..13
    OBVIOUS
  <2> QED BY <1>7, <2>1, <2>2
<1> QED BY <1>8 DEF h, G

LEMMA Fourteen ==
  ASSUME NEW D, 0 \in D, \A n \in 1..13 : n - 1 \in D => n \in D
  PROVE  \A n \in 0..13 : n \in D
<1>1. /\ 1 \in D /\ 2 \in D /\ 3 \in D /\ 4 \in D /\ 5 \in D /\ 6 \in D /\ 7 \in D /\ 8 \in D
      /\ 9 \in D /\ 10 \in D /\ 11 \in D /\ 12 \in D /\ 13 \in D
  OBVIOUS
<1> QED BY <1>1

LEMMA ChainType ==
  ASSUME NEW f \in Files
  PROVE  \A n \in 0..13 : Chain(f)[n] \in Seq(Action)
<1> DEFINE h == Chain(f)
           D == {n \in 0..13 : h[n] \in Seq(Action)}
<1>1. h[0] = <<>> /\ \A n \in 1..13 : h[n] = h[n - 1] \o Stage(Stages[n], f, f, h[n - 1], FALSE)
  BY ChainIs
<1>2. <<>> \in Seq(Action)
  OBVIOUS
<1> HIDE DEF h
<1>3. h[0] \in Seq(Action)
  BY <1>1, <1>2
<1>4. 0 \in D
  BY <1>3
<1>5. ASSUME NEW n \in 1..13, n - 1 \in D
      PROVE  n \in D
  <2>1. h[n - 1] \in Seq(Action)
    BY <1>5
  <2>2. Stage(Stages[n], f, f, h[n - 1], FALSE) \in Seq(Action)
    BY <2>1, StageType
  <2> DEFINE x == h[n - 1]  y == Stage(Stages[n], f, f, h[n - 1], FALSE)
  <2>3. h[n] = x \o y /\ x \in Seq(Action) /\ y \in Seq(Action)
    BY <1>1, <2>1, <2>2
  <2> HIDE DEF x, y
  <2>4. x \o y \in Seq(Action)
    BY <2>3
  <2>5. h[n] \in Seq(Action)
    BY <2>3, <2>4
  <2> QED BY <2>5
<1> HIDE DEF D
<1>6. \A n \in 0..13 : n \in D
  BY <1>4, <1>5, Fourteen
<1> QED BY <1>6 DEF D, h

LEMMA PlanType ==
  ASSUME NEW f \in Files
  PROVE  Plan(f) \in Seq(Action)
  BY ChainType, PlanIsChain

LEMMA ConcatIsPrefix ==
  ASSUME NEW S, NEW u \in Seq(S), NEW t \in Seq(S)
  PROVE  IsPrefix(u, u \o t)
<1>1. /\ Len(u) \in Nat /\ Len(u \o t) = Len(u) + Len(t) /\ Len(t) \in Nat
      /\ u \o t \in Seq(S)
  OBVIOUS
<1>2. SubSeq(u \o t, 1, Len(u)) = u
  BY ConcatProperties
<1>3. SubSeq(u, 1, Len(u)) = u
  BY SubSeqFull
<1> QED BY <1>1, <1>2, <1>3 DEF IsPrefix

LEMMA ChainBegins ==
  ASSUME NEW f \in Files, NEW m \in 0..13
  PROVE  \E t \in Seq(Action) : Chain(f)[13] = Chain(f)[m] \o t
<1> DEFINE h == Chain(f)
           D == {n \in 0..13 : n < m \/ \E t \in Seq(Action) : h[n] = h[m] \o t}
<1>1. \A n \in 0..13 : h[n] \in Seq(Action)
  BY ChainType
<1>2. \A n \in 1..13 : \E t \in Seq(Action) : h[n] = h[n - 1] \o t
  <2> SUFFICES ASSUME NEW n \in 1..13 PROVE \E t \in Seq(Action) : h[n] = h[n - 1] \o t
    OBVIOUS
  <2>1. n - 1 \in 0..13
    OBVIOUS
  <2>2. Stage(Stages[n], f, f, h[n - 1], FALSE) \in Seq(Action)
    BY <1>1, <2>1, StageType
  <2> QED BY <2>2, ChainIs
<1> HIDE DEF h
<1>3. h[m] = h[m] \o <<>> /\ <<>> \in Seq(Action)
  <2>1. h[m] \in Seq(Action)
    BY <1>1
  <2> QED BY <2>1, ConcatEmptySeq
<1>4. 0 \in D
  <2>1. CASE 0 < m
    BY <2>1
  <2>2. CASE m = 0
    <3>1. \E t \in Seq(Action) : h[m] = h[m] \o t
      BY <1>3
    <3> QED BY <2>2, <3>1
  <2> QED BY <2>1, <2>2
<1>5. ASSUME NEW n \in 1..13, n - 1 \in D
      PROVE  n \in D
  <2>1. CASE n < m
    BY <2>1
  <2>2. CASE n = m
    BY <2>2, <1>3
  <2>3. CASE n > m
    <3>1. PICK t \in Seq(Action) : h[n - 1] = h[m] \o t
      BY <1>5, <2>3
    <3>2. PICK u \in Seq(Action) : h[n] = h[n - 1] \o u
      BY <1>2
    <3> DEFINE x == h[m]  y == h[n - 1]  z == h[n]
    <3>3. x \in Seq(Action) /\ y = x \o t /\ z = y \o u
      BY <1>1, <3>1, <3>2
    <3> HIDE DEF x, y, z
    <3>4. t \o u \in Seq(Action)
      BY ConcatProperties
    <3>5. (x \o t) \o u = x \o (t \o u)
      BY <3>3, ConcatAssociative
    <3>6. z = x \o (t \o u)
      BY <3>3, <3>5
    <3>7. \E v \in Seq(Action) : h[n] = h[m] \o v
      BY <3>4, <3>6 DEF x, z
    <3> QED BY <3>7
  <2> QED BY <2>1, <2>2, <2>3
<1> HIDE DEF D
<1>6. \A n \in 0..13 : n \in D
  BY <1>4, <1>5, Fourteen
<1>7. 13 \in D /\ ~(13 < m)
  BY <1>6
<1> QED BY <1>7 DEF D, h

-----------------------------------------------------------------------------
(* h5patch: types, and what a command may write. *)

FileTypes == disk \in [Names -> Files] /\ seen \in Files /\ approved \in Files

ListTypes ==
  acts \in Seq(Action) /\ queue \in Seq(Action) /\ written \in Seq(Action) /\ plan \in Seq(Action)

CountTypes ==
  /\ stage \in 0..13 /\ round \in 0..MaxRounds
  /\ stops \in Nat /\ touches \in Nat /\ stops + touches <= MaxMishaps

\* How a command stands with the file that it writes and the plan that was reviewed.
Command ==
  /\ pc \in {"idle", "reviewed", "matched", "copy", "copying", "open", "applying", "verify",
             "done", "killed"}
  /\ options \in Modes \cup {ToOutput}
  /\ exists \in BOOLEAN /\ outcome.status \in {0, 1, 2, 4}
  /\ pc \in {"copy", "copying"} => options.to = "output" /\ ~options.inPlace
  /\ pc = "copy" /\ exists => options.force
  /\ pc \in {"open", "applying", "verify"} \/ Finished => options.inPlace \/ options.to = "output"
  /\ pc \in {"matched", "copy", "copying", "open", "applying", "verify"} \/ Finished =>
       plan = Plan(approved)

PatchTypes == FileTypes /\ ListTypes /\ CountTypes /\ Command

LEMMA ModeIs ==
  /\ \A o \in Modes \cup {ToOutput} :
       /\ o.to \in Names /\ o.inPlace \in BOOLEAN /\ o.force \in BOOLEAN
       /\ o.inPlace => o.to = "input"
  /\ ToOutput.to = "output"
<1>1. \A o \in {InPlace, ToOutput, ForcedOutput, OntoItself} :
        /\ o.to \in Names /\ o.inPlace \in BOOLEAN /\ o.force \in BOOLEAN
        /\ o.inPlace => o.to = "input"
  <2> DEFINE Good(o) == /\ o.to \in Names /\ o.inPlace \in BOOLEAN /\ o.force \in BOOLEAN
                        /\ o.inPlace => o.to = "input"
  <2>1. Good(InPlace)
    BY DEF InPlace, Names
  <2>2. Good(ToOutput)
    BY DEF ToOutput, Names
  <2>3. Good(ForcedOutput)
    BY DEF ForcedOutput, Names
  <2>4. Good(OntoItself)
    BY DEF OntoItself, Names
  <2> QED BY <2>1, <2>2, <2>3, <2>4
<1>2. ToOutput.to = "output"
  BY DEF ToOutput
<1> QED BY <1>1, <1>2, PatchAssumption

LEMMA FirstFilesAreFiles == FirstFiles \subseteq Files
<1> DEFINE Sums == [Structures -> (SUBSET Fields) \cup {Junk}]
<1> SUFFICES ASSUME NEW f \in FirstFiles PROVE f \in Files
  OBVIOUS
<1> DEFINE Seals(s) == (SUBSET FieldsOf[s]) \cup {Junk}
           Summings == [super : Seals("super"), header : Seals("header"),
                        fshd : Seals("fshd"), bthd : Seals("bthd")]
<1>1. /\ f \in [bad : {x \in SUBSET Fields : Cardinality(x) <= MaxDamage}, sum : Summings,
             simple : BOOLEAN, complete : BOOLEAN, walked : 0..2]
      /\ (f.complete => f.walked = 2)
  BY DEF FirstFiles
<1>2. f.sum \in Summings
  BY <1>1
<1>3. \A s \in Structures : Seals(s) \subseteq (SUBSET Fields) \cup {Junk}
  BY FieldsAre
<1>4. f.sum \in Sums
  <2> DEFINE t == f.sum
  <2>0. t \in Summings
    BY <1>2
  <2> HIDE DEF t
  <2>1. t = [super |-> t.super, header |-> t.header, fshd |-> t.fshd, bthd |-> t.bthd]
    BY <2>0
  <2>2. /\ t["super"] \in Seals("super") /\ t["header"] \in Seals("header")
        /\ t["fshd"] \in Seals("fshd") /\ t["bthd"] \in Seals("bthd")
    BY <2>0
  <2>3. \A s \in Structures : t[s] \in (SUBSET Fields) \cup {Junk}
    <3> HIDE DEF Seals
    <3> QED BY <1>3, <2>2 DEF Structures
  <2>4. DOMAIN t = Structures
    BY <2>1 DEF Structures
  <2>5. t = [s \in Structures |-> t[s]]
    <3>1. t = [s \in DOMAIN t |-> t[s]]
      BY <2>1
    <3> QED BY <3>1, <2>4
  <2> QED BY <2>3, <2>5 DEF t
<1>5. /\ f.bad \in SUBSET Fields /\ f.simple \in BOOLEAN /\ f.complete \in BOOLEAN
      /\ f.walked \in 0..2 /\ (f.complete => f.walked = 2)
      /\ f = [bad |-> f.bad, sum |-> f.sum, simple |-> f.simple, complete |-> f.complete,
              walked |-> f.walked]
  BY <1>1
<1> QED BY <1>4, <1>5 DEF Files

LEMMA TornCopyIsFile == TornCopy \in Files
  BY DEF TornCopy, Files

LEMMA TouchType ==
  ASSUME NEW f \in Files, NEW b \in SUBSET Fields
  PROVE  [f EXCEPT !.bad = b] \in Files
<1>1. /\ f.sum \in [Structures -> (SUBSET Fields) \cup {Junk}] /\ f.simple \in BOOLEAN
      /\ f.complete \in BOOLEAN /\ f.walked \in 0..2 /\ (f.complete => f.walked = 2)
      /\ f = [bad |-> f.bad, sum |-> f.sum, simple |-> f.simple, complete |-> f.complete,
              walked |-> f.walked]
  BY DEF Files
<1>2. [f EXCEPT !.bad = b] = [bad |-> b, sum |-> f.sum, simple |-> f.simple,
                              complete |-> f.complete, walked |-> f.walked]
  BY <1>1
<1> QED BY <1>1, <1>2 DEF Files

\* An analysis that is cut short sees the same bytes.
LEMMA ViewIs ==
  ASSUME NEW f \in Files, NEW v \in {f} \cup CutsOf(f)
  PROVE  v \in Files /\ v.bad = f.bad /\ v.sum = f.sum /\ v.simple = f.simple
<1>1. /\ f.bad \in SUBSET Fields /\ f.sum \in [Structures -> (SUBSET Fields) \cup {Junk}]
      /\ f.simple \in BOOLEAN /\ f.walked \in 0..2
      /\ f = [bad |-> f.bad, sum |-> f.sum, simple |-> f.simple, complete |-> f.complete,
              walked |-> f.walked]
  BY DEF Files
<1>2. CASE v = f
  BY <1>2
<1>3. CASE v \in CutsOf(f)
  <2>1. PICK w \in 0..f.walked : v = [f EXCEPT !.complete = FALSE, !.walked = w]
    BY <1>3 DEF CutsOf
  <2>2. w \in 0..2
    BY <1>1
  <2>3. v = [bad |-> f.bad, sum |-> f.sum, simple |-> f.simple, complete |-> FALSE, walked |-> w]
    BY <1>1, <2>1
  <2> QED BY <1>1, <2>2, <2>3 DEF Files
<1> QED BY <1>2, <1>3

LEMMA SemanticWritesType ==
  ASSUME NEW c \in Seq(Action), NEW added \in Seq(Action), NEW name
  PROVE  Writes(name, added, c) \in Seq(Action)
<1>1. Semantic(c) \in Seq(Action)
  BY SemanticIs
<1>2. Semantic(c) \o added \in Seq(Action)
  BY <1>1, ConcatProperties
<1> QED BY <1>2 DEF Writes

LEMMA CommandStart == PatchInit => PatchTypes
<1> SUFFICES ASSUME PatchInit PROVE PatchTypes
  OBVIOUS
<1>1. FileTypes
  <2>1. PICK f \in FirstFiles : disk = [n \in Names |-> IF n = "input" THEN f ELSE TornCopy]
    BY DEF PatchInit
  <2>2. f \in Files /\ TornCopy \in Files
    BY FirstFilesAreFiles, TornCopyIsFile
  <2>3. disk \in [Names -> Files]
    BY <2>1, <2>2
  <2>4. disk["input"] \in Files
    BY <2>3 DEF Names
  <2> QED BY <2>3, <2>4 DEF FileTypes, PatchInit
<1>2. ListTypes
  BY DEF PatchInit, ListTypes
<1>3. CountTypes
  BY PatchAssumption DEF PatchInit, CountTypes
<1>4. Command
  BY DEF PatchInit, Command, Finished
<1> QED BY <1>1, <1>2, <1>3, <1>4 DEF PatchTypes

LEMMA FilesKept ==
  ASSUME PatchTypes, [PatchNext]_patchVars
  PROVE  FileTypes'
<1>0. /\ disk \in [Names -> Files] /\ seen \in Files /\ approved \in Files
      /\ Target \in Names /\ "input" \in Names /\ "output" \in Names
  BY ModeIs DEF PatchTypes, FileTypes, Command, Target, Names
<1>1. ASSUME disk' = disk, seen' \in Files, approved' \in Files
      PROVE  FileTypes'
  BY <1>0, <1>1 DEF FileTypes
<1>2. CASE MakePlan
  BY <1>0, <1>1, <1>2 DEF MakePlan, run
<1>3. CASE Compare
  <2>1. PICK view \in {disk["input"]} \cup CutsOf(disk["input"]) :
          approved' = view /\ seen' = view
    BY <1>3 DEF Compare
  <2>2. view \in Files
    BY <1>0, ViewIs
  <2> QED BY <1>1, <1>3, <2>1, <2>2 DEF Compare
<1>4. CASE ChooseTarget
  BY <1>0, <1>1, <1>4 DEF ChooseTarget, run
<1>5. CASE BeginCopy
  BY <1>0, <1>5, TornCopyIsFile DEF BeginCopy, FileTypes, run
<1>6. CASE EndCopy
  BY <1>0, <1>6 DEF EndCopy, FileTypes, run
<1>7. CASE Analyse
  <2>1. PICK view \in {disk[Target]} \cup CutsOf(disk[Target]) : seen' = view
    BY <1>7 DEF Analyse
  <2>2. view \in Files
    BY <1>0, ViewIs
  <2> QED BY <1>0, <1>1, <1>7, <2>1, <2>2 DEF Analyse
<1>8. CASE Collect
  BY <1>0, <1>1, <1>8 DEF Collect
<1>9. CASE WriteNext
  <2>1. Head(queue) \in Action
    BY <1>9, PlannedHead DEF WriteNext, PatchTypes, ListTypes
  <2>2. Write(disk[Target], Head(queue)) \in Files
    BY <1>0, <2>1, WriteType
  <2> QED BY <1>0, <1>9, <2>2 DEF WriteNext, FileTypes
<1>10. CASE Close
  BY <1>0, <1>1, <1>10 DEF Close, run
<1>11. CASE Verify
  BY <1>0, <1>1, <1>11 DEF Verify, run
<1>12. CASE KillApply
  BY <1>0, <1>1, <1>12 DEF KillApply, run
<1>13. CASE Touch
  <2>1. PICK x \in Touchable :
          disk' = [disk EXCEPT !["input"].bad = IF x \in @ THEN @ \ {x} ELSE @ \cup {x}]
    BY <1>13 DEF Touch
  <2> DEFINE b == IF x \in disk["input"].bad THEN disk["input"].bad \ {x}
                  ELSE disk["input"].bad \cup {x}
             t == [disk["input"] EXCEPT !.bad = b]
  <2>2. disk' = [disk EXCEPT !["input"] = t]
    BY <1>0, <2>1
  <2>3. b \in SUBSET Fields
    <3>1. disk["input"].bad \in SUBSET Fields
      BY <1>0 DEF Files
    <3> QED BY <3>1, PatchAssumption
  <2> HIDE DEF b
  <2>4. t \in Files
    BY <1>0, <2>3, TouchType
  <2> HIDE DEF t
  <2> QED BY <1>0, <1>13, <2>2, <2>4 DEF Touch, FileTypes, run
<1>14. CASE Again
  <2>1. PICK n \in Names : disk' = [disk EXCEPT !["input"] = disk[n]]
    BY <1>0, <1>14 DEF Again
  <2>2. disk' \in [Names -> Files] /\ disk'["input"] \in Files
    BY <1>0, <2>1
  <2> QED BY <1>14, <2>2 DEF Again, FileTypes
<1>15. CASE LeaveIt \/ UNCHANGED patchVars
  BY <1>0, <1>1, <1>15 DEF LeaveIt, patchVars
<1> QED BY <1>2, <1>3, <1>4, <1>5, <1>6, <1>7, <1>8, <1>9, <1>10, <1>11, <1>12, <1>13, <1>14,
           <1>15 DEF PatchNext

LEMMA ListsKept ==
  ASSUME PatchTypes, [PatchNext]_patchVars
  PROVE  ListTypes'
<1>0. /\ acts \in Seq(Action) /\ queue \in Seq(Action) /\ written \in Seq(Action)
      /\ plan \in Seq(Action) /\ <<>> \in Seq(Action)
      /\ Target \in Names /\ disk["input"] \in Files /\ disk[Target] \in Files /\ seen \in Files
      /\ stage \in 0..13
  <2>1. Target \in Names
    BY ModeIs DEF PatchTypes, Command, Target
  <2> QED BY <2>1 DEF PatchTypes, FileTypes, ListTypes, CountTypes, Names
<1>1. ASSUME UNCHANGED <<acts, queue, written, plan>> PROVE ListTypes'
  BY <1>0, <1>1 DEF ListTypes
<1>2. CASE MakePlan
  <2>1. PICK view \in {disk["input"]} \cup CutsOf(disk["input"]) : plan' = Plan(view)
    BY <1>2 DEF MakePlan
  <2>2. view \in Files
    BY <1>0, ViewIs
  <2>3. plan' \in Seq(Action)
    BY <2>1, <2>2, PlanType
  <2> QED BY <1>0, <1>2, <2>3 DEF MakePlan, run, ListTypes
<1>3. CASE Compare
  BY <1>0, <1>3 DEF Compare, ListTypes
<1>4. CASE ChooseTarget \/ BeginCopy \/ EndCopy
  BY <1>1, <1>4 DEF ChooseTarget, BeginCopy, EndCopy, run
<1>5. CASE Analyse \/ Close \/ Verify \/ KillApply \/ Touch
  BY <1>1, <1>5 DEF Analyse, Close, Verify, KillApply, Touch, run
<1>6. CASE Collect
  <2> DEFINE name == Stages[stage + 1]
             added == Stage(name, disk[Target], seen, acts, TRUE)
  <2>1. acts' = acts \o added /\ queue' = Writes(name, added, acts)
        /\ UNCHANGED <<written, plan>> /\ stage < 13
    BY <1>6, StagesAre DEF Collect
  <2>2. stage + 1 \in 1..13
    BY <1>0, <2>1
  <2>3. added \in Seq(Action)
    BY <1>0, <2>2, StageType
  <2> HIDE DEF added
  <2>4. acts \o added \in Seq(Action)
    BY <1>0, <2>3, ConcatProperties
  <2>5. Writes(name, added, acts) \in Seq(Action)
    BY <1>0, <2>3, SemanticWritesType
  <2> QED BY <1>0, <2>1, <2>4, <2>5 DEF ListTypes
<1>7. CASE WriteNext
  <2>1. Head(queue) \in Action /\ Tail(queue) \in Seq(Action)
    BY <1>0, <1>7, PlannedHead DEF WriteNext
  <2>2. Append(written, Head(queue)) \in Seq(Action)
    BY <1>0, <2>1, AppendProperties
  <2> QED BY <1>0, <1>7, <2>1, <2>2 DEF WriteNext, ListTypes
<1>8. CASE Again
  BY <1>0, <1>8 DEF Again, ListTypes
<1>9. CASE LeaveIt \/ UNCHANGED patchVars
  BY <1>1, <1>9 DEF LeaveIt, patchVars
<1> QED BY <1>2, <1>3, <1>4, <1>5, <1>6, <1>7, <1>8, <1>9 DEF PatchNext

LEMMA CountsKept ==
  ASSUME PatchTypes, [PatchNext]_patchVars
  PROVE  CountTypes'
<1>0. CountTypes /\ MaxRounds \in Nat /\ MaxMishaps \in Nat
  BY PatchAssumption DEF PatchTypes
<1>1. ASSUME stage' \in 0..13, UNCHANGED <<stops, touches>>, round' \in {0, round}
      PROVE  CountTypes'
  BY <1>0, <1>1 DEF CountTypes
<1>a. ASSUME NEW f, NEW view, NEW rounds \in {round, round + 1}, rounds <= MaxRounds,
             Analysis(f, view, rounds), stage' \in 0..13, UNCHANGED touches
      PROVE  CountTypes'
  <2>1. CASE round' = rounds /\ UNCHANGED stops
    BY <1>0, <1>a, <2>1 DEF CountTypes
  <2>2. CASE stops + touches < MaxMishaps /\ round' = 0 /\ stops' = stops + 1
    BY <1>0, <1>a, <2>2 DEF CountTypes
  <2> QED BY <1>a, <2>1, <2>2 DEF Analysis
<1>b. stage \in 0..13 /\ 0 \in 0..13 /\ round \in Nat /\ round <= MaxRounds
  BY <1>0 DEF CountTypes
<1>2. CASE MakePlan
  <2>1. PICK view \in {disk["input"]} \cup CutsOf(disk["input"]) :
          Analysis(disk["input"], view, round + 1)
    BY <1>2 DEF MakePlan
  <2>2. round < MaxRounds /\ stage' = stage /\ UNCHANGED touches
    BY <1>2 DEF MakePlan, run
  <2>3. round + 1 <= MaxRounds
    BY <1>0, <1>b, <2>2
  <2> QED BY <1>a, <1>b, <2>1, <2>2, <2>3
<1>3. CASE Compare
  <2>1. PICK view \in {disk["input"]} \cup CutsOf(disk["input"]) :
          Analysis(disk["input"], view, round)
    BY <1>3 DEF Compare
  <2>2. stage' = 0 /\ UNCHANGED touches
    BY <1>3 DEF Compare
  <2> QED BY <1>a, <1>b, <2>1, <2>2
<1>8. CASE Analyse
  <2>1. PICK view \in {disk[Target]} \cup CutsOf(disk[Target]) :
          Analysis(disk[Target], view, round)
    BY <1>8 DEF Analyse
  <2>2. stage' = stage /\ UNCHANGED touches
    BY <1>8 DEF Analyse
  <2> QED BY <1>a, <1>b, <2>1, <2>2
<1>9. CASE Again
  <2>1. stage' = 0 /\ UNCHANGED <<stops, touches>>
    BY <1>9 DEF Again
  <2>2. round' = 0 \/ round' = round
    BY <1>9 DEF Again
  <2> QED BY <1>1, <1>b, <2>1, <2>2
<1>4. CASE ChooseTarget \/ BeginCopy \/ EndCopy \/ WriteNext \/ Close \/ Verify
  BY <1>0, <1>1, <1>4
  DEF ChooseTarget, BeginCopy, EndCopy, WriteNext, Close, Verify, run, CountTypes
<1>5. CASE Collect
  <2>1. stage' = stage + 1 /\ stage < 13
    BY <1>5, StagesAre DEF Collect
  <2>2. stage' \in 0..13
    BY <1>0, <2>1 DEF CountTypes
  <2> QED BY <1>1, <1>5, <2>2 DEF Collect
<1>6. CASE KillApply \/ Touch
  BY <1>0, <1>6 DEF KillApply, Touch, run, CountTypes
<1>7. CASE LeaveIt \/ UNCHANGED patchVars
  BY <1>0, <1>1, <1>7 DEF LeaveIt, patchVars, CountTypes
<1> QED BY <1>2, <1>3, <1>4, <1>5, <1>6, <1>7, <1>8, <1>9 DEF PatchNext

LEMMA CommandKept ==
  ASSUME PatchTypes, [PatchNext]_patchVars
  PROVE  Command'
<1>0. Command
  BY DEF PatchTypes
<1>1. CASE MakePlan
  BY <1>0, <1>1 DEF MakePlan, Command, Finished
<1>2. CASE Compare
  BY <1>0, <1>2 DEF Compare, Command, Finished, EndApply
<1>3. CASE ChooseTarget
  <2>1. options.to \in {"input", "output"}
    BY <1>0, ModeIs DEF Command, Names
  <2> QED BY <1>0, <1>3, <2>1 DEF ChooseTarget, Command, Finished, EndApply, Taken, Target
<1>4. CASE BeginCopy
  BY <1>0, <1>4 DEF BeginCopy, Command, Finished
<1>5. CASE EndCopy
  BY <1>0, <1>5 DEF EndCopy, Command, Finished
<1>6. CASE Analyse
  BY <1>0, <1>6 DEF Analyse, Command, Finished
<1>7. CASE Collect
  BY <1>0, <1>7 DEF Collect, Command, Finished
<1>8. CASE WriteNext
  BY <1>0, <1>8 DEF WriteNext, Command, Finished
<1>9. CASE Close
  BY <1>0, <1>9 DEF Close, Command, Finished
<1>10. CASE Verify
  <2>1. PICK verified : EndApply(IF verified THEN 0 ELSE 4, verified)
    BY <1>10 DEF Verify
  <2>2. outcome'.status \in {0, 4} /\ pc' = "done"
    BY <2>1 DEF EndApply
  <2> QED BY <1>0, <1>10, <2>2 DEF Verify, Command, Finished
<1>11. CASE KillApply
  BY <1>0, <1>11 DEF KillApply, Command, Finished
<1>12. CASE Touch
  BY <1>0, <1>12 DEF Touch, Command, Finished
<1>13. CASE Again
  BY <1>0, <1>13 DEF Again, Command, Finished
<1>14. CASE LeaveIt \/ UNCHANGED patchVars
  BY <1>0, <1>14 DEF LeaveIt, patchVars, Command, Finished
<1> QED BY <1>1, <1>2, <1>3, <1>4, <1>5, <1>6, <1>7, <1>8, <1>9, <1>10, <1>11, <1>12, <1>13,
           <1>14 DEF PatchNext

LEMMA PatchTypesCorrect == PatchSpec => []PatchTypes
<1>1. PatchTypes /\ [PatchNext]_patchVars => PatchTypes'
  BY FilesKept, ListsKept, CountsKept, CommandKept DEF PatchTypes
<1> QED BY <1>1, CommandStart, PTL DEF PatchSpec

LEMMA PlannedType ==
  ASSUME NEW c \in Seq(Action)
  PROVE  Planned(c) \subseteq Fields \cup Structures
<1>1. \A i \in DOMAIN c : c[i] \in Action
  OBVIOUS
<1>2. \A a \in Action : a.at \in Fields \cup Structures
  BY DEF Action
<1> QED BY <1>1, <1>2 DEF Planned

\* The type invariant.
THEOREM PatchTypeCorrect == PatchSpec => []PatchTypeOK
<1>1. PatchTypes => PatchTypeOK
  <2> SUFFICES ASSUME PatchTypes PROVE PatchTypeOK
    OBVIOUS
  <2>1. /\ \A n \in Names : disk[n] \in Files
        /\ {seen, approved} \subseteq Files
    BY DEF PatchTypes, FileTypes
  <2>2. Planned(plan) \cup Planned(acts) \cup Planned(queue) \cup Planned(written)
          \subseteq Fields \cup Structures
    <3>1. /\ Planned(plan) \subseteq Fields \cup Structures
          /\ Planned(acts) \subseteq Fields \cup Structures
          /\ Planned(queue) \subseteq Fields \cup Structures
          /\ Planned(written) \subseteq Fields \cup Structures
      BY PlannedType DEF PatchTypes, ListTypes
    <3> QED BY <3>1
  <2>3. /\ stage \in 0..Len(Stages) /\ round \in 0..MaxRounds
        /\ stops + touches \in 0..MaxMishaps
    <3>1. CountTypes
      BY DEF PatchTypes
    <3>2. MaxMishaps \in Nat
      BY PatchAssumption
    <3>3. stops + touches \in 0..MaxMishaps
      BY <3>1, <3>2 DEF CountTypes
    <3> QED BY <3>1, <3>3, StagesAre DEF CountTypes
  <2>4. /\ pc \in {"idle", "reviewed", "matched", "copy", "copying", "open", "applying",
                   "verify", "done", "killed"}
        /\ exists \in BOOLEAN /\ options \in Modes \cup {ToOutput}
        /\ outcome.status \in {0, 1, 2, 4}
    BY DEF PatchTypes, Command
  <2> QED BY <2>1, <2>2, <2>3, <2>4 DEF PatchTypeOK
<1> QED BY <1>1, PatchTypesCorrect, PTL

\* Whatever a run dies of, it has changed only its target, after the input was
\* found to have the reviewed plan.
THEOREM OthersKeptCorrect == PatchSpec => OthersKept
<1> DEFINE Change(n) == disk'[n] # disk[n] /\ touches' = touches /\ pc \notin {"done", "killed"}
           Allowed(n) == /\ n = Target /\ plan = Plan(approved)
                         /\ n = "input" => options.inPlace
                         /\ n = "output" /\ pc = "copy" /\ exists => options.force
<1>1. ASSUME PatchTypes, [PatchNext]_patchVars
      PROVE  [\A n \in Names : Change(n) => Allowed(n)]_patchVars
  <2>0. disk \in [Names -> Files] /\ touches \in Nat /\ Target \in Names /\ Command
    BY <1>1, ModeIs DEF PatchTypes, FileTypes, CountTypes, Command, Target
  <2>1. SUFFICES ASSUME PatchNext, NEW n \in Names, Change(n)
                 PROVE  Allowed(n)
    BY <1>1
  <2>2. ASSUME BeginCopy PROVE Allowed(n)
    BY <2>0, <2>1, <2>2 DEF BeginCopy, Command, Target
  <2>3. ASSUME EndCopy PROVE Allowed(n)
    BY <2>0, <2>1, <2>3 DEF EndCopy, Command, Target
  <2>4. ASSUME WriteNext PROVE Allowed(n)
    <3>1. n = Target
      BY <2>0, <2>1, <2>4 DEF WriteNext
    <3> QED BY <2>0, <2>4, <3>1 DEF WriteNext, Command, Target
  <2>5. ~Touch
    BY <2>0, <2>1 DEF Touch
  <2>6. ~Again
    BY <2>1 DEF Again
  <2>7. ~(MakePlan \/ Compare \/ ChooseTarget \/ Analyse \/ Collect \/ Close \/ Verify
          \/ KillApply \/ LeaveIt)
    BY <2>1 DEF MakePlan, Compare, ChooseTarget, Analyse, Collect, Close, Verify, KillApply,
                LeaveIt, patchVars
  <2> QED BY <2>1, <2>2, <2>3, <2>4, <2>5, <2>6, <2>7 DEF PatchNext
<1> QED BY <1>1, PatchTypesCorrect, PTL DEF PatchSpec, OthersKept

-----------------------------------------------------------------------------
(* h5patch: the invariant of a run that writes, and what a stage adds to it. *)

\* The order in which writes are made, and the stage that collects them at the earliest.
Rank == [signature |-> 1, base |-> 2, flags |-> 3, super |-> 4, element |-> 5, filter |-> 6,
         header |-> 7, sections |-> 8, fshd |-> 9, total |-> 10, bthd |-> 11]
Due == [signature |-> 1, base |-> 2, flags |-> 3, super |-> 4, element |-> 5, filter |-> 6,
        header |-> 7, sections |-> 9, fshd |-> 9, total |-> 10, bthd |-> 11]
\* The stage after which a structure with a repaired field has been sealed.
SealedBy == [super |-> 4, header |-> 7, fshd |-> 9, bthd |-> 11]

\* f is the file as it was analysed, t as it is now, A what the actions collected so far
\* are at, Q what those of them are at that are about to be written, n the stages collected.
Made(f, t) == (f.bad \ t.bad) \cup {s \in Structures : t.sum[s] # f.sum[s]}

Kept(f, t) ==
  /\ t.simple = f.simple /\ t.complete = f.complete /\ t.walked = f.walked
  /\ t.bad \subseteq f.bad

Counted(f, t, A, Q, n) ==
  /\ Q \subseteq A /\ Made(f, t) \subseteq A \ Q /\ A \cap Fields \subseteq f.bad
  /\ \A x \in A : Due[x] <= n
  /\ \A x \in A \cap t.bad : x \in Q \/ (x \in {"element", "filter"} /\ n \in {5, 6})
  /\ n \in {5, 6} => Q = {}
  /\ n <= 6 => Body(t, "header") = Body(f, "header")

Ordered(q) == \A i, j \in DOMAIN q : i < j => Rank[q[i].at] < Rank[q[j].at]
AfterMade(f, t, Q) == \A x \in Q \cap Fields, y \in Made(f, t) : Rank[y] < Rank[x]

\* A checksum about to be written is that of a body without any of the fields to repair.
NewBodies(q, A) ==
  \A i \in DOMAIN q : q[i].at \in Structures => q[i].new \subseteq FieldsOf[q[i].at] \ A

\* What must hold of the file for an action to be collected.
Reasons(f, t, A) ==
  /\ "base" \in A => "signature" \notin f.bad
  /\ A \cap FieldsOf["super"] # {} => Locatable(f)
  /\ "signature" \in t.bad => "base" \notin A /\ "flags" \notin A
  /\ "filter" \in A => Sealed(f, "header")
  /\ "sections" \in A => "fshd" \in A
  /\ "total" \in A => Reachable(f)

\* A structure with a field to repair has, once its stage is over and its write made,
\* the checksum of a body without that field.
Sealing(t, A, Q, n) ==
  \A s \in Structures :
    A \cap FieldsOf[s] # {} /\ n >= SealedBy[s] /\ s \notin Q => t.sum[s] \subseteq FieldsOf[s] \ A

\* What h5policy does not judge is repaired in a file that could be reached.
Owed(f, A, n) ==
  Reachable(f) =>
    /\ n >= 3 /\ "flags" \in f.bad => "flags" \in A
    /\ n >= 5 /\ f.simple /\ f.walked # 0 /\ "element" \in f.bad => "element" \in A

RunInv(f, t, c, q, n) ==
  /\ Kept(f, t) /\ Counted(f, t, Planned(c), Planned(q), n)
  /\ Ordered(q) /\ AfterMade(f, t, Planned(q)) /\ NewBodies(q, Planned(c))
  /\ Reasons(f, t, Planned(c)) /\ Sealing(t, Planned(c), Planned(q), n) /\ Owed(f, Planned(c), n)

LEMMA NumbersOf ==
  /\ Rank["signature"] = 1 /\ Rank["base"] = 2 /\ Rank["flags"] = 3 /\ Rank["super"] = 4
  /\ Rank["element"] = 5 /\ Rank["filter"] = 6 /\ Rank["header"] = 7 /\ Rank["sections"] = 8
  /\ Rank["fshd"] = 9 /\ Rank["total"] = 10 /\ Rank["bthd"] = 11
  /\ Due["signature"] = 1 /\ Due["base"] = 2 /\ Due["flags"] = 3 /\ Due["super"] = 4
  /\ Due["element"] = 5 /\ Due["filter"] = 6 /\ Due["header"] = 7 /\ Due["sections"] = 9
  /\ Due["fshd"] = 9 /\ Due["total"] = 10 /\ Due["bthd"] = 11
  /\ SealedBy["super"] = 4 /\ SealedBy["header"] = 7 /\ SealedBy["fshd"] = 9
  /\ SealedBy["bthd"] = 11
  BY DEF Rank, Due, SealedBy

LEMMA NumberTypesOf ==
  \A x \in Fields \cup Structures : Due[x] \in Nat /\ Rank[x] \in Nat
<1>1. Fields \cup Structures =
        {"signature", "base", "flags", "element", "filter", "sections", "total"}
          \cup {"super", "header", "fshd", "bthd"}
  BY FieldsAre DEF Structures
<1>2. \A x \in {"signature", "base", "flags", "element", "filter", "sections", "total"} :
        Due[x] \in Nat /\ Rank[x] \in Nat
  BY NumbersOf
<1>3. \A x \in {"super", "header", "fshd", "bthd"} : Due[x] \in Nat /\ Rank[x] \in Nat
  BY NumbersOf
<1> QED BY <1>1, <1>2, <1>3

LEMMA Early ==
  ASSUME NEW A \in SUBSET (Fields \cup Structures), NEW n \in 0..13, \A x \in A : Due[x] <= n
  PROVE  /\ n = 0 => A = {}
         /\ n <= 1 => A \subseteq {"signature"}
         /\ n <= 2 => A \subseteq {"signature", "base"}
         /\ n <= 3 => A \subseteq {"signature", "base", "flags"}
         /\ n <= 4 => A \subseteq {"signature", "base", "flags", "super"}
         /\ n <= 5 => A \subseteq {"signature", "base", "flags", "super", "element"}
         /\ n <= 6 => "header" \notin A
         /\ n <= 8 => A \cap {"sections", "fshd", "total", "bthd"} = {}
         /\ n <= 9 => A \cap {"total", "bthd"} = {}
         /\ n <= 10 => "bthd" \notin A
<1>1. \A x \in A : x \in {"signature", "base", "flags", "super", "element", "filter", "header",
                          "sections", "fshd", "total", "bthd"}
  BY FieldsAre DEF Structures
<1>2. /\ "signature" \in A => 1 <= n
      /\ "base" \in A => 2 <= n
      /\ "flags" \in A => 3 <= n
      /\ "super" \in A => 4 <= n
      /\ "element" \in A => 5 <= n
      /\ "filter" \in A => 6 <= n
      /\ "header" \in A => 7 <= n
      /\ "sections" \in A => 9 <= n
      /\ "fshd" \in A => 9 <= n
      /\ "total" \in A => 10 <= n
      /\ "bthd" \in A => 11 <= n
  BY NumbersOf
<1>3. n = 0 => A = {}
  BY <1>1, <1>2
<1>4. n <= 1 => A \subseteq {"signature"}
  BY <1>1, <1>2
<1>5. n <= 2 => A \subseteq {"signature", "base"}
  BY <1>1, <1>2
<1>6. n <= 3 => A \subseteq {"signature", "base", "flags"}
  BY <1>1, <1>2
<1>7. n <= 4 => A \subseteq {"signature", "base", "flags", "super"}
  BY <1>1, <1>2
<1>8. n <= 5 => A \subseteq {"signature", "base", "flags", "super", "element"}
  BY <1>1, <1>2
<1>9. /\ n <= 6 => "header" \notin A
      /\ n <= 8 => A \cap {"sections", "fshd", "total", "bthd"} = {}
      /\ n <= 9 => A \cap {"total", "bthd"} = {}
      /\ n <= 10 => "bthd" \notin A
  BY <1>1, <1>2
<1> QED BY <1>3, <1>4, <1>5, <1>6, <1>7, <1>8, <1>9

\* Between two stages the file is as analysed, less what was repaired.
LEMMA Settled ==
  ASSUME NEW f \in Files, NEW t \in Files, NEW c \in Seq(Action), NEW n \in 0..13,
         RunInv(f, t, c, <<>>, n)
  PROVE  /\ Planned(c) \subseteq Fields \cup Structures
         /\ n \notin {5, 6} => t.bad = f.bad \ Planned(c)
         /\ \A s \in Structures : s \notin Planned(c) => t.sum[s] = f.sum[s]
         /\ \A x \in Fields : x \notin Planned(c) => (x \in t.bad <=> x \in f.bad)
         /\ t.bad \subseteq f.bad /\ t.simple = f.simple /\ t.complete = f.complete
         /\ t.walked = f.walked
         /\ n = 0 => t = f
<1> DEFINE A == Planned(c)
<1>1. A \subseteq Fields \cup Structures
  BY PlannedType
<1>2. /\ Kept(f, t) /\ Counted(f, t, A, {}, n)
      /\ f.bad \subseteq Fields /\ t.bad \subseteq Fields /\ Fields \cap Structures = {}
  BY PlannedNone, FieldsAre DEF RunInv, Files
<1> HIDE DEF A
<1>3. n \notin {5, 6} => t.bad = f.bad \ A
  BY <1>2 DEF Kept, Counted, Made
<1>4. \A s \in Structures : s \notin A => t.sum[s] = f.sum[s]
  BY <1>2 DEF Counted, Made
<1>5. \A x \in Fields : x \notin A => (x \in t.bad <=> x \in f.bad)
  BY <1>2 DEF Kept, Counted, Made
<1>6. /\ t.bad \subseteq f.bad /\ t.simple = f.simple /\ t.complete = f.complete
      /\ t.walked = f.walked
  BY <1>2 DEF Kept
<1>7. ASSUME n = 0 PROVE t = f
  <2>1. A = {}
    BY <1>1, <1>2, <1>7, Early DEF Counted
  <2>2. t.bad = f.bad
    BY <1>3, <1>7, <2>1
  <2>3. \A s \in Structures : t.sum[s] = f.sum[s]
    BY <1>4, <2>1
  <2>4. t.sum = f.sum
    BY <2>3 DEF Files
  <2> QED BY <1>6, <2>2, <2>4 DEF Files
<1> QED BY <1>1, <1>3, <1>4, <1>5, <1>6, <1>7 DEF A

LEMMA RunBegins ==
  ASSUME NEW f \in Files
  PROVE  RunInv(f, f, <<>>, <<>>, 0)
<1>1. Planned(<<>>) = {}
  BY PlannedNone
<1>2. /\ Kept(f, f) /\ Made(f, f) = {}
  BY DEF Kept, Made
<1>3. Counted(f, f, {}, {}, 0)
  BY <1>2 DEF Counted
<1>4. /\ Ordered(<<>>) /\ AfterMade(f, f, {}) /\ NewBodies(<<>>, {})
      /\ Reasons(f, f, {}) /\ Sealing(f, {}, {}, 0) /\ Owed(f, {}, 0)
  BY DEF Ordered, AfterMade, NewBodies, Reasons, Sealing, Owed
<1> QED BY <1>1, <1>2, <1>3, <1>4 DEF RunInv

-----------------------------------------------------------------------------
\* Queues.

LEMMA QueueNone == Ordered(<<>>) /\ \A A : NewBodies(<<>>, A)
  BY DEF Ordered, NewBodies

LEMMA QueueOne ==
  ASSUME NEW a, NEW A, a.at \in Structures => a.new \subseteq FieldsOf[a.at] \ A
  PROVE  Ordered(<<a>>) /\ NewBodies(<<a>>, A)
<1>1. DOMAIN <<a>> = {1} /\ <<a>>[1] = a
  OBVIOUS
<1>2. Ordered(<<a>>)
  BY <1>1 DEF Ordered
<1>3. NewBodies(<<a>>, A)
  BY <1>1 DEF NewBodies
<1> QED BY <1>2, <1>3

LEMMA QueueJoin ==
  ASSUME NEW x \in Seq(Action), NEW y \in Seq(Action), NEW A,
         Ordered(x), Ordered(y), NewBodies(x, A), NewBodies(y, A),
         \A a \in Planned(x), b \in Planned(y) : Rank[a] < Rank[b]
  PROVE  Ordered(x \o y) /\ NewBodies(x \o y, A)
<1> DEFINE z == x \o y  k == Len(x)  l == Len(y)
<1>1. /\ k \in Nat /\ l \in Nat /\ DOMAIN x = 1..k /\ DOMAIN y = 1..l /\ DOMAIN z = 1..(k + l)
  OBVIOUS
<1>2. \A i \in 1..(k + l) : z[i] = IF i <= k THEN x[i] ELSE y[i - k]
  OBVIOUS
<1> HIDE DEF z, k, l
<1>3. \A i \in DOMAIN z : \/ i \in DOMAIN x /\ i <= k /\ z[i] = x[i]
                          \/ (i - k) \in DOMAIN y /\ i > k /\ z[i] = y[i - k]
  <2> SUFFICES ASSUME NEW i \in 1..(k + l)
               PROVE  \/ i \in DOMAIN x /\ i <= k /\ z[i] = x[i]
                      \/ (i - k) \in DOMAIN y /\ i > k /\ z[i] = y[i - k]
    BY <1>1
  <2>1. CASE i <= k
    BY <1>1, <1>2, <2>1
  <2>2. CASE i > k
    BY <1>1, <1>2, <2>2
  <2> QED BY <1>1, <2>1, <2>2
<1>4. NewBodies(z, A)
  BY <1>3 DEF NewBodies
<1>5. Ordered(z)
  <2> SUFFICES ASSUME NEW i \in DOMAIN z, NEW j \in DOMAIN z, i < j
               PROVE  Rank[z[i].at] < Rank[z[j].at]
    BY DEF Ordered
  <2>0. i \in Nat /\ j \in Nat
    BY <1>1
  <2>1. CASE j <= k
    <3>1. i \in DOMAIN x /\ j \in DOMAIN x /\ z[i] = x[i] /\ z[j] = x[j]
      BY <1>1, <1>3, <2>0, <2>1
    <3> QED BY <3>1 DEF Ordered
  <2>2. CASE i > k
    <3>1. (i - k) \in DOMAIN y /\ (j - k) \in DOMAIN y /\ z[i] = y[i - k] /\ z[j] = y[j - k]
      BY <1>1, <1>3, <2>0, <2>2
    <3>2. i - k < j - k
      BY <1>1, <2>0
    <3> QED BY <3>1, <3>2 DEF Ordered
  <2>3. CASE i <= k /\ j > k
    <3>1. i \in DOMAIN x /\ (j - k) \in DOMAIN y /\ z[i] = x[i] /\ z[j] = y[j - k]
      BY <1>1, <1>3, <2>0, <2>3
    <3>2. x[i].at \in Planned(x) /\ y[j - k].at \in Planned(y)
      BY <3>1 DEF Planned
    <3> QED BY <3>1, <3>2
  <2> QED BY <1>1, <2>0, <2>1, <2>2, <2>3
<1> QED BY <1>4, <1>5 DEF z

\* What stage n may add to the actions at A: at B, with the writes q.
Extension(f, t, A, B, q, n) ==
  /\ B \cap A = {} /\ B \cap Fields \subseteq t.bad /\ \A x \in B : Due[x] <= n
  /\ n \in {5, 6} => B \subseteq {"element", "filter"} /\ q = <<>>
  /\ n = 7 => Planned(q) = B \cup (A \cap {"element", "filter"})
  /\ n \notin {5, 6, 7} => Planned(q) = B
  /\ Ordered(q) /\ AfterMade(f, t, Planned(q)) /\ NewBodies(q, A \cup B)
  /\ Reasons(f, t, A \cup B) /\ Sealing(t, A \cup B, Planned(q), n) /\ Owed(f, A \cup B, n)

LEMMA ExtensionRuns ==
  ASSUME NEW f \in Files, NEW t \in Files, NEW c \in Seq(Action), NEW d \in Seq(Action),
         NEW q \in Seq(Action), NEW n \in 1..13, RunInv(f, t, c, <<>>, n - 1),
         Extension(f, t, Planned(c), Planned(d), q, n)
  PROVE  RunInv(f, t, c \o d, q, n)
<1> DEFINE A == Planned(c)  B == Planned(d)  Q == Planned(q)
<1>1. Planned(c \o d) = A \cup B
  BY PlannedConcat
<1>2. /\ Kept(f, t) /\ Counted(f, t, A, {}, n - 1) /\ Extension(f, t, A, B, q, n)
      /\ t.bad \subseteq Fields /\ Fields \cap Structures = {} /\ A \subseteq Fields \cup Structures
      /\ B \subseteq Fields \cup Structures
  BY PlannedNone, FieldsAre, PlannedType DEF RunInv, Files
<1>3. n \in {5, 6} => Q = {}
  BY <1>2, PlannedNone DEF Extension
<1> HIDE DEF A, B, Q
<1>4. Counted(f, t, A \cup B, Q, n)
  <2>1. Q \subseteq A \cup B
    BY <1>2, <1>3 DEF Extension, Q
  <2>2. \A x \in A \cup B : Due[x] <= n
    <3>1. \A x \in Fields \cup Structures : Due[x] \in Nat
      BY NumberTypesOf
    <3>2. \A x \in A : Due[x] <= n - 1
      BY <1>2 DEF Counted
    <3>3. \A x \in A : Due[x] <= n
      BY <1>2, <3>1, <3>2
    <3> QED BY <1>2, <3>3 DEF Extension
  <2>3. Made(f, t) \subseteq A
    BY <1>2 DEF Counted
  <2>4. n - 1 <= 6 => "element" \notin Made(f, t) /\ "filter" \notin Made(f, t)
    <3>1. \A x \in {"element", "filter"} : x \in FieldsOf["header"] /\ x \notin Structures
      BY FieldsAre DEF Structures
    <3>2. n - 1 <= 6 => Body(t, "header") = Body(f, "header")
      BY <1>2 DEF Counted
    <3> QED BY <3>1, <3>2 DEF Made, Body
  <2>5. Made(f, t) \cap B = {}
    BY <1>2, <2>3 DEF Made, Extension
  <2>6. Made(f, t) \subseteq (A \cup B) \ Q
    BY <1>2, <1>3, <2>3, <2>4, <2>5 DEF Extension, Q
  <2>7. (A \cup B) \cap Fields \subseteq f.bad
    BY <1>2 DEF Counted, Kept, Extension
  <2>8. \A x \in (A \cup B) \cap t.bad : x \in Q \/ (x \in {"element", "filter"} /\ n \in {5, 6})
    <3>1. n - 1 \in {5, 6} => n \in {6, 7}
      OBVIOUS
    <3>2. \A x \in A \cap t.bad : x \in {"element", "filter"} /\ n \in {6, 7}
      BY <1>2, <3>1 DEF Counted
    <3>3. n = 7 => Q = B \cup (A \cap {"element", "filter"})
      BY <1>2 DEF Extension, Q
    <3>4. n \notin {5, 6} => B \subseteq Q
      BY <1>2 DEF Extension, Q
    <3>5. n \in {5, 6} => B \subseteq {"element", "filter"}
      BY <1>2 DEF Extension
    <3> QED BY <3>2, <3>3, <3>4, <3>5
  <2>9. n <= 6 => Body(t, "header") = Body(f, "header")
    <3>1. n <= 6 => n - 1 <= 6
      OBVIOUS
    <3> QED BY <1>2, <3>1 DEF Counted
  <2> QED BY <1>3, <2>1, <2>2, <2>6, <2>7, <2>8, <2>9 DEF Counted
<1>5. /\ Ordered(q) /\ AfterMade(f, t, Q) /\ NewBodies(q, A \cup B)
      /\ Reasons(f, t, A \cup B) /\ Sealing(t, A \cup B, Q, n) /\ Owed(f, A \cup B, n)
  BY <1>2 DEF Extension, Q
<1> QED BY <1>1, <1>2, <1>4, <1>5 DEF RunInv, A, B, Q

\* A write of the queue.
LEMMA WriteRuns ==
  ASSUME NEW f \in Files, NEW t \in Files, NEW c \in Seq(Action), NEW q \in Seq(Action),
         q # <<>>, NEW n \in 0..13, RunInv(f, t, c, q, n)
  PROVE  RunInv(f, Write(t, Head(q)), c, Tail(q), n)
<1> DEFINE A == Planned(c)  Q == Planned(q)  R == Planned(Tail(q))  a == Head(q)
           x == Head(q).at  w == Write(t, Head(q))
<1>1. /\ a \in Action /\ Tail(q) \in Seq(Action) /\ Q = {x} \cup R
      /\ \A i \in DOMAIN Tail(q) : (i + 1) \in DOMAIN q /\ Tail(q)[i] = q[i + 1]
      /\ DOMAIN Tail(q) = 1..(Len(q) - 1) /\ 1 \in DOMAIN q /\ a = q[1] /\ x = q[1].at
  BY PlannedHead
<1>2. /\ w \in Files /\ w.simple = t.simple /\ w.complete = t.complete /\ w.walked = t.walked
      /\ x \in Structures => /\ w.bad = t.bad /\ w.sum[x] = a.new
                             /\ \A s \in Structures : s # x => w.sum[s] = t.sum[s]
      /\ x \notin Structures => w.bad = t.bad \ {x} /\ w.sum = t.sum
  BY <1>1, WriteType
<1>3. /\ Kept(f, t) /\ Counted(f, t, A, Q, n) /\ Ordered(q) /\ AfterMade(f, t, Q)
      /\ NewBodies(q, A) /\ Reasons(f, t, A) /\ Sealing(t, A, Q, n) /\ Owed(f, A, n)
  BY DEF RunInv
<1>4. /\ A \subseteq Fields \cup Structures /\ Q \subseteq Fields \cup Structures
      /\ Fields \cap Structures = {} /\ f.bad \subseteq Fields /\ t.bad \subseteq Fields
  BY PlannedType, FieldsAre DEF Files
<1>5. \A i \in DOMAIN Tail(q) : Rank[x] < Rank[Tail(q)[i].at]
  <2> SUFFICES ASSUME NEW i \in DOMAIN Tail(q) PROVE Rank[x] < Rank[Tail(q)[i].at]
    OBVIOUS
  <2>1. i + 1 \in DOMAIN q /\ 1 < i + 1
    BY <1>1
  <2>2. Rank[q[1].at] < Rank[q[i + 1].at]
    BY <1>1, <1>3, <2>1 DEF Ordered
  <2> QED BY <1>1, <2>2
<1>6. \A y \in R : Rank[x] < Rank[y]
  BY <1>5 DEF Planned
<1>7. \A y \in Fields \cup Structures : Rank[y] \in Nat
  BY NumberTypesOf
<1>8. x \notin R
  BY <1>1, <1>4, <1>6, <1>7
<1>o. Ordered(Tail(q))
  <2> SUFFICES ASSUME NEW i \in DOMAIN Tail(q), NEW j \in DOMAIN Tail(q), i < j
               PROVE  Rank[Tail(q)[i].at] < Rank[Tail(q)[j].at]
    BY DEF Ordered
  <2>1. i + 1 \in DOMAIN q /\ j + 1 \in DOMAIN q /\ i + 1 < j + 1
    BY <1>1
  <2> QED BY <1>1, <1>3, <2>1 DEF Ordered
<1>b. NewBodies(Tail(q), A)
  BY <1>1, <1>3 DEF NewBodies
<1>n. x \in Structures => a.new \subseteq FieldsOf[x] \ A
  BY <1>1, <1>3 DEF NewBodies
<1> HIDE DEF A, Q, R, a, x, w
<1>9. Made(f, w) \subseteq Made(f, t) \cup {x}
  BY <1>2, <1>4 DEF Made
<1>10. Kept(f, w)
  BY <1>2, <1>3 DEF Kept
<1>11. Counted(f, w, A, R, n)
  <2>1. R \subseteq A /\ x \in A /\ Made(f, w) \subseteq A \ R
    BY <1>1, <1>3, <1>8, <1>9 DEF Counted
  <2>2. A \cap Fields \subseteq f.bad /\ \A y \in A : Due[y] <= n
    BY <1>3 DEF Counted
  <2>3. \A y \in A \cap w.bad : y \in R \/ (y \in {"element", "filter"} /\ n \in {5, 6})
    BY <1>1, <1>2, <1>3, <1>4, <2>1 DEF Counted
  <2>4. n \notin {5, 6} /\ (n \in {5, 6} => R = {})
    BY <1>1, <1>3 DEF Counted
  <2>5. n <= 6 => Body(w, "header") = Body(f, "header")
    <3>1. ASSUME n <= 6 PROVE x \notin FieldsOf["header"]
      <4>1. n <= 4
        BY <2>4, <3>1
      <4>2. A \subseteq {"signature", "base", "flags", "super"}
        BY <1>4, <2>2, <4>1, Early
      <4> QED BY <2>1, <4>2, FieldsAre
    <3>2. n <= 6 => Body(w, "header") = Body(t, "header")
      BY <1>2, <3>1 DEF Body
    <3> QED BY <1>3, <3>2 DEF Counted
  <2> QED BY <2>1, <2>2, <2>3, <2>4, <2>5 DEF Counted
<1>12. AfterMade(f, w, R)
  BY <1>1, <1>3, <1>6, <1>9 DEF AfterMade
<1>13. Reasons(f, w, A)
  BY <1>2, <1>3 DEF Reasons
<1>14. Sealing(w, A, R, n)
  <2> SUFFICES ASSUME NEW s \in Structures, A \cap FieldsOf[s] # {}, n >= SealedBy[s], s \notin R
               PROVE  w.sum[s] \subseteq FieldsOf[s] \ A
    BY DEF Sealing
  <2>1. CASE s = x
    BY <1>2, <1>n, <2>1
  <2>2. CASE s # x
    <3>1. w.sum[s] = t.sum[s] /\ s \notin Q
      BY <1>1, <1>2, <2>2
    <3> QED BY <1>3, <3>1 DEF Sealing
  <2> QED BY <2>1, <2>2
<1> QED BY <1>3, <1>10, <1>11, <1>12, <1>13, <1>14, <1>o, <1>b DEF RunInv, A, R, w

LEMMA Between ==
  ASSUME NEW f \in Files, NEW t \in Files, NEW c \in Seq(Action), NEW n \in 0..13,
         RunInv(f, t, c, <<>>, n)
  PROVE  /\ Counted(f, t, Planned(c), {}, n) /\ Reasons(f, t, Planned(c))
         /\ Sealing(t, Planned(c), {}, n) /\ Owed(f, Planned(c), n)
         /\ Made(f, t) \subseteq Planned(c) /\ \A x \in Planned(c) : Due[x] <= n
         /\ Planned(c) \in SUBSET (Fields \cup Structures)
         /\ f.bad \subseteq Fields /\ t.bad \subseteq Fields
<1>1. /\ Counted(f, t, Planned(c), {}, n) /\ Reasons(f, t, Planned(c))
      /\ Sealing(t, Planned(c), {}, n) /\ Owed(f, Planned(c), n)
  BY PlannedNone DEF RunInv
<1>2. Made(f, t) \subseteq Planned(c) /\ \A x \in Planned(c) : Due[x] <= n
  BY <1>1 DEF Counted
<1> QED BY <1>1, <1>2, PlannedType DEF Files

LEMMA EarlyActions ==
  ASSUME NEW f \in Files, NEW t \in Files, NEW c \in Seq(Action), NEW n \in 0..13,
         RunInv(f, t, c, <<>>, n)
  PROVE  /\ n = 0 => Planned(c) = {}
         /\ n <= 1 => Planned(c) \subseteq {"signature"}
         /\ n <= 2 => Planned(c) \subseteq {"signature", "base"}
         /\ n <= 3 => Planned(c) \subseteq {"signature", "base", "flags"}
         /\ n <= 4 => Planned(c) \subseteq {"signature", "base", "flags", "super"}
         /\ n <= 5 => Planned(c) \subseteq {"signature", "base", "flags", "super", "element"}
         /\ n <= 6 => "header" \notin Planned(c)
         /\ n <= 8 => Planned(c) \cap {"sections", "fshd", "total", "bthd"} = {}
         /\ n <= 9 => Planned(c) \cap {"total", "bthd"} = {}
         /\ n <= 10 => "bthd" \notin Planned(c)
<1> DEFINE A == Planned(c)
<1>1. A \in SUBSET (Fields \cup Structures) /\ \A y \in A : Due[y] <= n
  BY Between
<1> HIDE DEF A
<1>2. /\ n = 0 => A = {}
      /\ n <= 1 => A \subseteq {"signature"}
      /\ n <= 2 => A \subseteq {"signature", "base"}
      /\ n <= 3 => A \subseteq {"signature", "base", "flags"}
      /\ n <= 4 => A \subseteq {"signature", "base", "flags", "super"}
      /\ n <= 5 => A \subseteq {"signature", "base", "flags", "super", "element"}
      /\ n <= 6 => "header" \notin A
      /\ n <= 8 => A \cap {"sections", "fshd", "total", "bthd"} = {}
      /\ n <= 9 => A \cap {"total", "bthd"} = {}
      /\ n <= 10 => "bthd" \notin A
  BY <1>1, Early
<1> QED BY <1>2 DEF A

\* The queue of a stage that collects at most one action.
LEMMA AtMostOne ==
  ASSUME NEW d, NEW A, NEW x,
         d = <<>> \/ \E a : /\ d = <<a>> /\ a.at = x
                            /\ x \in Structures => a.new \subseteq FieldsOf[x] \ A
  PROVE  Ordered(d) /\ NewBodies(d, A) /\ Planned(d) \subseteq {x}
<1>1. CASE d = <<>>
  BY <1>1, QueueNone, PlannedNone
<1>2. ASSUME NEW a, d = <<a>>, a.at = x, x \in Structures => a.new \subseteq FieldsOf[x] \ A
      PROVE  Ordered(d) /\ NewBodies(d, A) /\ Planned(d) \subseteq {x}
  <2>1. Ordered(<<a>>) /\ NewBodies(<<a>>, A)
    BY <1>2, QueueOne
  <2> QED BY <1>2, <2>1, PlannedOne
<1> QED BY <1>1, <1>2

LEMMA FieldQueue ==
  ASSUME NEW t \in Files, NEW x \in Fields, NEW cond \in BOOLEAN, NEW A
  PROVE  Ordered(Field(cond, t, x)) /\ NewBodies(Field(cond, t, x), A)
<1>1. x \notin Structures /\ SetField(t, x).at = x
  BY FieldsAre, SetFieldType
<1>2. \/ Field(cond, t, x) = <<>>
      \/ \E a : Field(cond, t, x) = <<a>> /\ a.at = x
  BY <1>1, FieldIs
<1> QED BY <1>1, <1>2, AtMostOne

LEMMA ResealQueue ==
  ASSUME NEW t \in Files, NEW s \in Structures, NEW body \in SUBSET Fields, NEW A,
         body \subseteq FieldsOf[s] \ A
  PROVE  Ordered(Reseal(t, s, body)) /\ NewBodies(Reseal(t, s, body), A)
<1> DEFINE a == [at |-> s, old |-> t.sum[s], new |-> body]
<1>1. a.at = s /\ a.new = body
  OBVIOUS
<1>2. Reseal(t, s, body) = <<>> \/ Reseal(t, s, body) = <<a>>
  BY ResealIs
<1> HIDE DEF a
<1> QED BY <1>1, <1>2, AtMostOne

\* The stages of the fields, which write what they collect.
LEMMA FieldExtends ==
  ASSUME NEW f \in Files, NEW t \in Files, NEW A, NEW x \in Fields, NEW cond \in BOOLEAN,
         NEW n \in {1, 2, 3, 10}, NEW d, d = Field(cond, t, x), x \notin A, Due[x] = n,
         \A y \in Made(f, t) : Rank[y] < Rank[x],
         cond /\ x \in t.bad => Reasons(f, t, A \cup {x}),
         Reasons(f, t, A),
         Sealing(t, A, {}, n - 1),
         \A s \in Structures : n >= SealedBy[s] => n - 1 >= SealedBy[s] /\ x \notin FieldsOf[s],
         Owed(f, A \cup Planned(d), n)
  PROVE  Extension(f, t, A, Planned(d), d, n)
<1> DEFINE B == Planned(d)
<1>1. B = (IF cond /\ x \in t.bad THEN {x} ELSE {}) /\ Ordered(d) /\ NewBodies(d, A \cup B)
  BY FieldIs, FieldQueue
<1>2. x \notin Structures
  BY FieldsAre
<1> HIDE DEF B
<1>3. B \cap A = {} /\ B \cap Fields \subseteq t.bad /\ B \subseteq {x}
  BY <1>1
<1>4. \A y \in B : Due[y] <= n
  BY <1>3
<1>5. AfterMade(f, t, B)
  BY <1>3 DEF AfterMade
<1>6. Reasons(f, t, A \cup B)
  <2>1. CASE B = {}
    BY <2>1
  <2>2. CASE B # {}
    <3>1. cond /\ x \in t.bad /\ B = {x}
      BY <1>1, <2>2
    <3> QED BY <3>1
  <2> QED BY <2>1, <2>2
<1>7. Sealing(t, A \cup B, B, n)
  <2> SUFFICES ASSUME NEW s \in Structures, (A \cup B) \cap FieldsOf[s] # {}, n >= SealedBy[s]
               PROVE  t.sum[s] \subseteq FieldsOf[s] \ (A \cup B)
    BY DEF Sealing
  <2>1. x \notin FieldsOf[s] /\ n - 1 >= SealedBy[s]
    OBVIOUS
  <2>2. A \cap FieldsOf[s] # {}
    BY <1>3, <2>1
  <2>3. t.sum[s] \subseteq FieldsOf[s] \ A
    BY <2>1, <2>2 DEF Sealing
  <2> QED BY <1>3, <2>1, <2>3
<1>8. n \notin {5, 6, 7}
  OBVIOUS
<1> QED BY <1>1, <1>3, <1>4, <1>5, <1>6, <1>7, <1>8 DEF Extension, B

LEMMA SealTimes ==
  \A n \in {1, 2, 3, 10} : \A s \in Structures :
    n >= SealedBy[s] => n - 1 >= SealedBy[s] /\ n = 10 /\ s # "bthd"
  BY NumbersOf DEF Structures

LEMMA StageSignature ==
  ASSUME NEW f \in Files, NEW t \in Files, NEW c \in Seq(Action), RunInv(f, t, c, <<>>, 0)
  PROVE  Extension(f, t, Planned(c), Planned(Signature(t, f)), Signature(t, f), 1)
<1> DEFINE A == Planned(c)  d == Signature(t, f)  cond == "base" \notin t.bad
<1>0. 0 \in 0..13 /\ 1 - 1 = 0
  OBVIOUS
<1>1. /\ Made(f, t) \subseteq A /\ Reasons(f, t, A) /\ Sealing(t, A, {}, 0)
      /\ A \in SUBSET (Fields \cup Structures) /\ \A y \in A : Due[y] <= 0
  BY <1>0, Between
<1>2. A = {} /\ t = f
  BY <1>0, EarlyActions, Settled
<1>3. d = Field(cond, t, "signature")
  BY DEF Signature
<1>4. "signature" \in Fields /\ cond \in BOOLEAN /\ Due["signature"] = 1
  BY FieldsAre, NumbersOf
<1>5. cond => Reasons(f, t, A \cup {"signature"})
  BY <1>1, <1>2, FieldsAre DEF Reasons, Locatable
<1>6. Owed(f, A \cup Planned(d), 1)
  BY DEF Owed
<1>7. \A y \in Made(f, t) : Rank[y] < Rank["signature"]
  BY <1>1, <1>2
<1> HIDE DEF d, A, cond
<1>8. \A s \in Structures : 1 >= SealedBy[s] => 1 - 1 >= SealedBy[s] /\ "signature" \notin FieldsOf[s]
  BY SealTimes
<1>9. "signature" \notin A /\ Sealing(t, A, {}, 1 - 1) /\ 1 \in {1, 2, 3, 10}
  BY <1>0, <1>1, <1>2
<1>10. Extension(f, t, A, Planned(d), d, 1)
  BY <1>1, <1>3, <1>4, <1>5, <1>6, <1>7, <1>8, <1>9, FieldExtends
<1> QED BY <1>10 DEF A, d

LEMMA StageBase ==
  ASSUME NEW f \in Files, NEW t \in Files, NEW c \in Seq(Action), RunInv(f, t, c, <<>>, 1)
  PROVE  Extension(f, t, Planned(c), Planned(SuperBase(t, f)), SuperBase(t, f), 2)
<1> DEFINE A == Planned(c)  d == SuperBase(t, f)
           cond == SuperReadable(t, f) /\ "signature" \notin f.bad
<1>0. 1 \in 0..13 /\ 2 - 1 = 1
  OBVIOUS
<1>1. /\ Made(f, t) \subseteq A /\ Reasons(f, t, A) /\ Sealing(t, A, {}, 1)
      /\ A \in SUBSET (Fields \cup Structures) /\ \A y \in A : Due[y] <= 1
  BY <1>0, Between
<1>2. A \subseteq {"signature"}
  BY <1>0, EarlyActions
<1>3. d = Field(cond, t, "base")
  BY DEF SuperBase
<1>4. "base" \in Fields /\ cond \in BOOLEAN /\ Due["base"] = 2
  BY FieldsAre, NumbersOf DEF SuperReadable, Locatable
<1>5. cond => Reasons(f, t, A \cup {"base"})
  BY <1>1, <1>2, FieldsAre DEF Reasons, SuperReadable
<1>6. Owed(f, A \cup Planned(d), 2)
  BY DEF Owed
<1>7. \A y \in Made(f, t) : Rank[y] < Rank["base"]
  BY <1>1, <1>2, NumbersOf
<1>8. "base" \notin A
  BY <1>2
<1> HIDE DEF d, A, cond
<1>9. \A s \in Structures : 2 >= SealedBy[s] => 2 - 1 >= SealedBy[s] /\ "base" \notin FieldsOf[s]
  BY SealTimes
<1>10. Sealing(t, A, {}, 2 - 1) /\ 2 \in {1, 2, 3, 10}
  BY <1>0, <1>1
<1>11. Extension(f, t, A, Planned(d), d, 2)
  BY <1>1, <1>3, <1>4, <1>5, <1>6, <1>7, <1>8, <1>9, <1>10, FieldExtends
<1> QED BY <1>11 DEF A, d

LEMMA StageFlags ==
  ASSUME NEW f \in Files, NEW t \in Files, NEW c \in Seq(Action), RunInv(f, t, c, <<>>, 2)
  PROVE  Extension(f, t, Planned(c), Planned(SuperFlags(t, f)), SuperFlags(t, f), 3)
<1> DEFINE A == Planned(c)  d == SuperFlags(t, f)  cond == SuperReadable(t, f)
<1>0. 2 \in 0..13 /\ 3 - 1 = 2
  OBVIOUS
<1>1. /\ Made(f, t) \subseteq A /\ Reasons(f, t, A) /\ Sealing(t, A, {}, 2)
      /\ A \in SUBSET (Fields \cup Structures) /\ \A y \in A : Due[y] <= 2
  BY <1>0, Between
<1>2. A \subseteq {"signature", "base"}
  BY <1>0, EarlyActions
<1>3. d = Field(cond, t, "flags")
  BY DEF SuperFlags
<1>4. "flags" \in Fields /\ cond \in BOOLEAN /\ Due["flags"] = 3
  BY FieldsAre, NumbersOf DEF SuperReadable, Locatable
<1>5. cond => Reasons(f, t, A \cup {"flags"})
  BY <1>1, <1>2, FieldsAre DEF Reasons, SuperReadable
<1>8. "flags" \notin A
  BY <1>2
<1>6. Owed(f, A \cup Planned(d), 3)
  <2> SUFFICES ASSUME Reachable(f), "flags" \in f.bad PROVE "flags" \in Planned(d)
    BY DEF Owed
  <2>1. "flags" \in t.bad /\ t.bad \subseteq f.bad
    BY <1>0, <1>4, <1>8, Settled
  <2>2. cond
    BY <2>1 DEF SuperReadable, Locatable, Reachable
  <2>3. Planned(Field(cond, t, "flags")) = {"flags"}
    BY <1>4, <2>1, <2>2, FieldIs
  <2> QED BY <1>3, <2>3
<1>7. \A y \in Made(f, t) : Rank[y] < Rank["flags"]
  BY <1>1, <1>2, NumbersOf
<1> HIDE DEF d, A, cond
<1>9. \A s \in Structures : 3 >= SealedBy[s] => 3 - 1 >= SealedBy[s] /\ "flags" \notin FieldsOf[s]
  BY SealTimes
<1>10. Sealing(t, A, {}, 3 - 1) /\ 3 \in {1, 2, 3, 10}
  BY <1>0, <1>1
<1>11. Extension(f, t, A, Planned(d), d, 3)
  BY <1>1, <1>3, <1>4, <1>5, <1>6, <1>7, <1>8, <1>9, <1>10, FieldExtends
<1> QED BY <1>11 DEF A, d

LEMMA StageTotal ==
  ASSUME NEW f \in Files, NEW t \in Files, NEW c \in Seq(Action), RunInv(f, t, c, <<>>, 9)
  PROVE  Extension(f, t, Planned(c), Planned(TreeTotal(t, f)), TreeTotal(t, f), 10)
<1> DEFINE A == Planned(c)  d == TreeTotal(t, f)  cond == Reachable(f)
<1>0. 9 \in 0..13 /\ 10 - 1 = 9
  OBVIOUS
<1>1. /\ Made(f, t) \subseteq A /\ Reasons(f, t, A) /\ Sealing(t, A, {}, 9) /\ Owed(f, A, 9)
      /\ A \in SUBSET (Fields \cup Structures) /\ \A y \in A : Due[y] <= 9
  BY <1>0, Between
<1>2. "total" \notin A /\ "bthd" \notin A
  BY <1>0, EarlyActions
<1>3. d = Field(cond, t, "total")
  BY DEF TreeTotal
<1>4. "total" \in Fields /\ cond \in BOOLEAN /\ Due["total"] = 10
  BY FieldsAre, NumbersOf DEF Reachable
<1>5. cond => Reasons(f, t, A \cup {"total"})
  BY <1>1, <1>2, FieldsAre DEF Reasons
<1>6. Owed(f, A \cup Planned(d), 10)
  BY <1>1 DEF Owed
<1>7. \A y \in Made(f, t) : Rank[y] < Rank["total"]
  <2>1. \A y \in A : y \in {"signature", "base", "flags", "super", "element", "filter", "header",
                            "sections", "fshd"}
    BY <1>1, <1>2, FieldsAre DEF Structures
  <2> QED BY <1>1, <2>1, NumbersOf
<1>8. \A s \in Structures : 10 >= SealedBy[s] => 10 - 1 >= SealedBy[s] /\ "total" \notin FieldsOf[s]
  BY SealTimes, FieldsAre, NumbersOf DEF Structures
<1> HIDE DEF d, A, cond
<1>10. Sealing(t, A, {}, 10 - 1) /\ 10 \in {1, 2, 3, 10} /\ "total" \notin A
  BY <1>0, <1>1, <1>2
<1>11. Extension(f, t, A, Planned(d), d, 10)
  BY <1>1, <1>3, <1>4, <1>5, <1>6, <1>7, <1>8, <1>10, FieldExtends
<1> QED BY <1>11 DEF A, d

LEMMA ReasonsWith ==
  ASSUME NEW f, NEW t, NEW A, NEW B \in SUBSET Structures, Reasons(f, t, A)
  PROVE  Reasons(f, t, A \cup B)
  BY FieldsAre DEF Reasons, Structures

LEMMA SealingWith ==
  ASSUME NEW t, NEW A, NEW B \in SUBSET Structures, NEW Q, NEW n, Sealing(t, A, Q, n)
  PROVE  Sealing(t, A \cup B, Q, n)
<1>1. \A s \in Structures : B \cap FieldsOf[s] = {}
  BY FieldsAre
<1> QED BY <1>1 DEF Sealing

\* The stages of the checksums.
LEMMA SealExtends ==
  ASSUME NEW f \in Files, NEW t \in Files, NEW A, NEW s \in Structures, NEW body \in SUBSET Fields,
         NEW n \in {4, 8, 11, 12, 13}, NEW d,
         d = <<>> \/ (d = Reseal(t, s, body) /\ s \notin A),
         body \subseteq FieldsOf[s] \ A, Due[s] <= n,
         Reasons(f, t, A), Sealing(t, A, Planned(d), n), Owed(f, A, n)
  PROVE  Extension(f, t, A, Planned(d), d, n)
<1> DEFINE B == Planned(d)
<1>0. B \subseteq {s} /\ Ordered(d) /\ NewBodies(d, A \cup B) /\ B \cap A = {}
  <2>1. CASE d = <<>>
    BY <2>1, PlannedNone, QueueNone
  <2>2. CASE d = Reseal(t, s, body) /\ s \notin A
    <3>1. B \subseteq {s}
      BY <2>2, ResealIs
    <3>2. s \notin FieldsOf[s]
      BY FieldsAre
    <3> HIDE DEF B
    <3>3. body \subseteq FieldsOf[s] \ (A \cup B)
      BY <3>1, <3>2
    <3>4. Ordered(d) /\ NewBodies(d, A \cup B)
      BY <2>2, <3>3, ResealQueue
    <3> QED BY <2>2, <3>1, <3>4
  <2> QED BY <2>1, <2>2
<1>1. s \notin Fields /\ B \in SUBSET Structures
  BY <1>0, FieldsAre
<1> HIDE DEF B
<1>2. B \cap Fields \subseteq t.bad /\ \A y \in B : Due[y] <= n
  BY <1>0, <1>1
<1>3. AfterMade(f, t, B)
  BY <1>0, <1>1 DEF AfterMade
<1>4. Reasons(f, t, A \cup B)
  BY <1>1, ReasonsWith
<1>5. Sealing(t, A \cup B, B, n)
  BY <1>1, SealingWith DEF B
<1>6. Owed(f, A \cup B, n)
  BY DEF Owed
<1>7. n \notin {5, 6, 7}
  OBVIOUS
<1> QED BY <1>0, <1>2, <1>3, <1>4, <1>5, <1>6, <1>7 DEF Extension, B

LEMMA Clean ==
  ASSUME NEW f \in Files, NEW t \in Files, NEW c \in Seq(Action), NEW n \in 0..13,
         n \notin {5, 6}, RunInv(f, t, c, <<>>, n), NEW s \in Structures
  PROVE  Body(t, s) \in SUBSET Fields /\ Body(t, s) \subseteq FieldsOf[s] \ Planned(c)
<1>1. t.bad = f.bad \ Planned(c)
  BY Settled
<1> QED BY <1>1, BodyType DEF Body

LEMMA StageSuper ==
  ASSUME NEW f \in Files, NEW t \in Files, NEW c \in Seq(Action), RunInv(f, t, c, <<>>, 3)
  PROVE  LET d == SuperChecksum(t, f, c, TRUE)
         IN Extension(f, t, Planned(c), Planned(d), d, 4)
<1> DEFINE A == Planned(c)  d == SuperChecksum(t, f, c, TRUE)  body == Body(t, "super")
<1>0. 3 \in 0..13 /\ 3 \notin {5, 6} /\ 4 \in {4, 8, 11, 12, 13}
  OBVIOUS
<1>s. "super" \in Structures /\ Due["super"] <= 4
  BY NumbersOf DEF Structures
<1>1. Reasons(f, t, A) /\ Owed(f, A, 3)
  BY <1>0, Between
<1>2. "super" \notin A
  BY <1>0, EarlyActions
<1>3. t.bad = f.bad \ A
  BY <1>0, Settled
<1>4. body \in SUBSET Fields /\ body \subseteq FieldsOf["super"] \ A
  BY <1>0, <1>s, Clean
<1>5. d = IF SuperReadable(t, f) THEN Reseal(t, "super", body) ELSE <<>>
  BY DEF SuperChecksum, BodyAfter
<1> HIDE DEF d, A, body
<1>6. Sealing(t, A, Planned(d), 4)
  <2> SUFFICES ASSUME NEW s \in Structures, A \cap FieldsOf[s] # {}, 4 >= SealedBy[s],
                      s \notin Planned(d)
               PROVE  t.sum[s] \subseteq FieldsOf[s] \ A
    BY DEF Sealing
  <2>1. s = "super"
    BY NumbersOf DEF Structures
  <2>2. SuperReadable(t, f)
    BY <1>1, <1>3, <2>1, FieldsAre DEF Reasons, SuperReadable
  <2>3. t.sum["super"] = body
    BY <1>4, <1>5, <1>s, <2>1, <2>2, ResealIs
  <2> QED BY <1>4, <2>1, <2>3
<1>7. Owed(f, A, 4)
  BY <1>1 DEF Owed
<1>8. d = <<>> \/ (d = Reseal(t, "super", body) /\ "super" \notin A)
  BY <1>2, <1>5
<1>9. Extension(f, t, A, Planned(d), d, 4)
  BY <1>0, <1>1, <1>4, <1>6, <1>7, <1>8, <1>s, SealExtends
<1> QED BY <1>9 DEF A, d

LEMMA StageHeader ==
  ASSUME NEW f \in Files, NEW t \in Files, NEW c \in Seq(Action), RunInv(f, t, c, <<>>, 7)
  PROVE  LET d == HeaderChecksum(t, f, c)
         IN Extension(f, t, Planned(c), Planned(d), d, 8)
<1> DEFINE A == Planned(c)  d == HeaderChecksum(t, f, c)  body == Body(t, "header")
<1>0. 7 \in 0..13 /\ 7 \notin {5, 6} /\ 8 \in {4, 8, 11, 12, 13}
  OBVIOUS
<1>s. "header" \in Structures /\ Due["header"] <= 8
  BY NumbersOf DEF Structures
<1>1. Reasons(f, t, A) /\ Owed(f, A, 7) /\ Sealing(t, A, {}, 7)
  BY <1>0, Between
<1>4. body \in SUBSET Fields /\ body \subseteq FieldsOf["header"] \ A
  BY <1>0, <1>s, Clean
<1>8. d = <<>> \/ (d = Reseal(t, "header", body) /\ "header" \notin A)
  BY DEF HeaderChecksum
<1> HIDE DEF d, A, body
<1>6. Sealing(t, A, Planned(d), 8)
  <2>1. \A s \in Structures : 8 >= SealedBy[s] => 7 >= SealedBy[s]
    BY NumbersOf DEF Structures
  <2> QED BY <1>1, <2>1 DEF Sealing
<1>7. Owed(f, A, 8)
  BY <1>1 DEF Owed
<1>9. Extension(f, t, A, Planned(d), d, 8)
  BY <1>0, <1>1, <1>4, <1>6, <1>7, <1>8, <1>s, SealExtends
<1> QED BY <1>9 DEF A, d

LEMMA StageTreeChecksum ==
  ASSUME NEW f \in Files, NEW t \in Files, NEW c \in Seq(Action), RunInv(f, t, c, <<>>, 10)
  PROVE  LET d == TreeChecksum(t, f, c, TRUE)
         IN Extension(f, t, Planned(c), Planned(d), d, 11)
<1> DEFINE A == Planned(c)  d == TreeChecksum(t, f, c, TRUE)  body == Body(t, "bthd")
<1>0. 10 \in 0..13 /\ 10 \notin {5, 6} /\ 11 \in {4, 8, 11, 12, 13}
  OBVIOUS
<1>s. "bthd" \in Structures /\ Due["bthd"] <= 11
  BY NumbersOf DEF Structures
<1>1. Reasons(f, t, A) /\ Owed(f, A, 10) /\ Sealing(t, A, {}, 10)
  BY <1>0, Between
<1>2. "bthd" \notin A
  BY <1>0, EarlyActions
<1>4. body \in SUBSET Fields /\ body \subseteq FieldsOf["bthd"] \ A
  BY <1>0, <1>s, Clean
<1>5. d = IF Reachable(f) THEN Reseal(t, "bthd", body) ELSE <<>>
  BY DEF TreeChecksum, BodyAfter
<1> HIDE DEF d, A, body
<1>6. Sealing(t, A, Planned(d), 11)
  <2> SUFFICES ASSUME NEW s \in Structures, A \cap FieldsOf[s] # {}, 11 >= SealedBy[s],
                      s \notin Planned(d)
               PROVE  t.sum[s] \subseteq FieldsOf[s] \ A
    BY DEF Sealing
  <2>1. s = "bthd" \/ 10 >= SealedBy[s]
    BY NumbersOf DEF Structures
  <2>2. CASE s = "bthd"
    <3>1. Reachable(f)
      BY <1>1, <2>2, FieldsAre DEF Reasons
    <3>2. t.sum["bthd"] = body
      BY <1>4, <1>5, <1>s, <2>2, <3>1, ResealIs
    <3> QED BY <1>4, <2>2, <3>2
  <2>3. CASE 10 >= SealedBy[s]
    BY <1>1, <2>3 DEF Sealing
  <2> QED BY <2>1, <2>2, <2>3
<1>7. Owed(f, A, 11)
  BY <1>1 DEF Owed
<1>8. d = <<>> \/ (d = Reseal(t, "bthd", body) /\ "bthd" \notin A)
  BY <1>2, <1>5
<1>9. Extension(f, t, A, Planned(d), d, 11)
  BY <1>0, <1>1, <1>4, <1>6, <1>7, <1>8, <1>s, SealExtends
<1> QED BY <1>9 DEF A, d

LEMMA StageReached ==
  ASSUME NEW f \in Files, NEW t \in Files, NEW c \in Seq(Action), NEW n \in {12, 13},
         RunInv(f, t, c, <<>>, n - 1), NEW s \in {"fshd", "bthd"}
  PROVE  LET d == ReachedChecksum(t, f, c, s)
         IN Extension(f, t, Planned(c), Planned(d), d, n)
<1> DEFINE A == Planned(c)  d == ReachedChecksum(t, f, c, s)  body == Body(t, s)  m == n - 1
<1>0. m \in 0..13 /\ m \notin {5, 6} /\ n \in {4, 8, 11, 12, 13} /\ m >= 11 /\ RunInv(f, t, c, <<>>, m)
  OBVIOUS
<1> HIDE DEF m
<1>s. s \in Structures /\ Due[s] <= n
  BY NumbersOf DEF Structures
<1>1. Reasons(f, t, A) /\ Owed(f, A, m) /\ Sealing(t, A, {}, m)
  BY <1>0, Between
<1>4. body \in SUBSET Fields /\ body \subseteq FieldsOf[s] \ A
  BY <1>0, <1>s, Clean
<1>8. d = <<>> \/ (d = Reseal(t, s, body) /\ s \notin A)
  BY DEF ReachedChecksum
<1> HIDE DEF d, A, body
<1>6. Sealing(t, A, Planned(d), n)
  <2>1. \A r \in Structures : m >= SealedBy[r]
    BY <1>0, NumbersOf DEF Structures
  <2> QED BY <1>1, <2>1 DEF Sealing
<1>7. Owed(f, A, n)
  BY <1>0, <1>1 DEF Owed
<1>9. Extension(f, t, A, Planned(d), d, n)
  BY <1>0, <1>1, <1>4, <1>6, <1>7, <1>8, <1>s, SealExtends
<1> QED BY <1>9 DEF A, d

\* The stages that only collect.
LEMMA QuietExtends ==
  ASSUME NEW f \in Files, NEW t \in Files, NEW A, NEW x \in {"element", "filter"},
         NEW cond \in BOOLEAN, NEW n \in {5, 6}, NEW d, d = Field(cond, t, x), x \notin A,
         Due[x] = n, Reasons(f, t, A), x = "filter" /\ cond => Sealed(f, "header"),
         Sealing(t, A, {}, n - 1), Owed(f, A \cup Planned(d), n)
  PROVE  Extension(f, t, A, Planned(d), <<>>, n)
<1> DEFINE B == Planned(d)
<1>0. x \in Fields
  BY FieldsAre
<1>1. B = (IF cond /\ x \in t.bad THEN {x} ELSE {})
  BY <1>0, FieldIs
<1> HIDE DEF B
<1>2. /\ B \cap A = {} /\ B \cap Fields \subseteq t.bad /\ B \subseteq {x}
      /\ \A y \in B : Due[y] <= n
  BY <1>1
<1>3. Ordered(<<>>) /\ NewBodies(<<>>, A \cup B) /\ Planned(<<>>) = {} /\ AfterMade(f, t, {})
  BY QueueNone, PlannedNone DEF AfterMade
<1>4. Reasons(f, t, A \cup B)
  BY <1>1, <1>2, FieldsAre DEF Reasons
<1>5. Sealing(t, A \cup B, {}, n)
  <2> SUFFICES ASSUME NEW s \in Structures, (A \cup B) \cap FieldsOf[s] # {}, n >= SealedBy[s]
               PROVE  t.sum[s] \subseteq FieldsOf[s] \ (A \cup B)
    BY DEF Sealing
  <2>1. s = "super" /\ n - 1 >= SealedBy[s]
    BY NumbersOf DEF Structures
  <2>2. B \cap FieldsOf[s] = {}
    BY <1>2, <2>1, FieldsAre
  <2>3. t.sum[s] \subseteq FieldsOf[s] \ A
    BY <2>1, <2>2 DEF Sealing
  <2> QED BY <2>2, <2>3
<1>6. n \notin {7} /\ (n \notin {5, 6, 7} => FALSE) /\ B \subseteq {"element", "filter"}
  BY <1>2
<1> QED BY <1>2, <1>3, <1>4, <1>5, <1>6 DEF Extension, B

LEMMA StageElement ==
  ASSUME NEW f \in Files, NEW t \in Files, NEW c \in Seq(Action), RunInv(f, t, c, <<>>, 4)
  PROVE  LET d == ChunkLayout(t, f)
         IN Extension(f, t, Planned(c), Planned(d), <<>>, 5)
<1> DEFINE A == Planned(c)  d == ChunkLayout(t, f)
           cond == Reachable(f) /\ f.walked # 0 /\ t.simple
<1>0. 4 \in 0..13 /\ 5 - 1 = 4 /\ 5 \in {5, 6}
  OBVIOUS
<1>1. Reasons(f, t, A) /\ Sealing(t, A, {}, 4) /\ Owed(f, A, 4)
  BY <1>0, Between
<1>2. "element" \notin A
  BY <1>0, EarlyActions
<1>3. d = Field(cond, t, "element")
  BY DEF ChunkLayout
<1>4. "element" \in Fields /\ cond \in BOOLEAN /\ Due["element"] = 5
  BY FieldsAre, NumbersOf DEF Reachable, Files
<1>5. Owed(f, A \cup Planned(d), 5)
  <2>1. ASSUME Reachable(f), f.simple, f.walked # 0, "element" \in f.bad
        PROVE  "element" \in Planned(d)
    <3>1. "element" \in t.bad /\ t.simple = f.simple
      <4>1. t.simple = f.simple /\ \A x \in Fields : x \notin A => (x \in t.bad <=> x \in f.bad)
        BY <1>0, Settled
      <4> QED BY <1>2, <1>4, <2>1, <4>1
    <3>2. Planned(Field(cond, t, "element")) = {"element"}
      BY <1>4, <2>1, <3>1, FieldIs
    <3> QED BY <1>3, <3>2
  <2> QED BY <1>1, <2>1 DEF Owed
<1> HIDE DEF d, A, cond
<1>6. Sealing(t, A, {}, 5 - 1)
  BY <1>0, <1>1
<1>7. Extension(f, t, A, Planned(d), <<>>, 5)
  BY <1>0, <1>1, <1>2, <1>3, <1>4, <1>5, <1>6, QuietExtends
<1> QED BY <1>7 DEF A, d

LEMMA StageFilter ==
  ASSUME NEW f \in Files, NEW t \in Files, NEW c \in Seq(Action), RunInv(f, t, c, <<>>, 5)
  PROVE  LET d == FilterParameters(t, f)
         IN Extension(f, t, Planned(c), Planned(d), <<>>, 6)
<1> DEFINE A == Planned(c)  d == FilterParameters(t, f)
           cond == Reachable(f) /\ Complete(f) /\ Sealed(t, "header") /\ "filter" \in f.bad
<1>0. 5 \in 0..13 /\ 6 - 1 = 5 /\ 6 \in {5, 6} /\ 5 <= 6
  OBVIOUS
<1>1. Reasons(f, t, A) /\ Sealing(t, A, {}, 5) /\ Owed(f, A, 5) /\ Counted(f, t, A, {}, 5)
  BY <1>0, Between
<1>2. "filter" \notin A /\ "header" \notin A
  BY <1>0, EarlyActions
<1>3. d = Field(cond, t, "filter")
  BY DEF FilterParameters
<1>4. "filter" \in Fields /\ cond \in BOOLEAN /\ Due["filter"] = 6
  BY FieldsAre, NumbersOf DEF Reachable, Complete, Files, Sealed
<1>5. Owed(f, A \cup Planned(d), 6)
  BY <1>1 DEF Owed
<1>6. cond => Sealed(f, "header")
  <2>1. t.sum["header"] = f.sum["header"]
    BY <1>0, <1>2, Settled DEF Structures
  <2>2. Body(t, "header") = Body(f, "header")
    BY <1>0, <1>1 DEF Counted
  <2> QED BY <2>1, <2>2 DEF Sealed
<1> HIDE DEF d, A, cond
<1>7. Sealing(t, A, {}, 6 - 1)
  BY <1>0, <1>1
<1>8. Extension(f, t, A, Planned(d), <<>>, 6)
  BY <1>0, <1>1, <1>2, <1>3, <1>4, <1>5, <1>6, <1>7, QuietExtends
<1> QED BY <1>8 DEF A, d

LEMMA SemanticQueue ==
  ASSUME NEW c \in Seq(Action), NEW A
  PROVE  Ordered(Semantic(c)) /\ NewBodies(Semantic(c), A)
<1> DEFINE e == ActionOn(c, "element")  p == ActionOn(c, "filter")
<1>0. "element" \notin Structures /\ "filter" \notin Structures
  BY DEF Structures
<1>1. e \in Seq(Action) /\ p \in Seq(Action)
  BY ActionOnIs
<1>2. /\ e = <<>> \/ \E a : e = <<a>> /\ a.at = "element"
      /\ p = <<>> \/ \E a : p = <<a>> /\ a.at = "filter"
  BY ActionOnIs
<1>3. Semantic(c) = e \o p
  BY DEF Semantic
<1> HIDE DEF e, p
<1>4. /\ Ordered(e) /\ NewBodies(e, A) /\ Planned(e) \subseteq {"element"}
      /\ Ordered(p) /\ NewBodies(p, A) /\ Planned(p) \subseteq {"filter"}
  BY <1>0, <1>2, AtMostOne
<1>5. \A x \in Planned(e), y \in Planned(p) : Rank[x] < Rank[y]
  BY <1>4, NumbersOf
<1>6. Ordered(e \o p) /\ NewBodies(e \o p, A)
  BY <1>1, <1>4, <1>5, QueueJoin
<1> QED BY <1>3, <1>6

LEMMA StageFinalize ==
  ASSUME NEW f \in Files, NEW t \in Files, NEW c \in Seq(Action), RunInv(f, t, c, <<>>, 6)
  PROVE  LET d == FinalizeSemantic(t, c)
         IN Extension(f, t, Planned(c), Planned(d), Semantic(c) \o d, 7)
<1> DEFINE A == Planned(c)  d == FinalizeSemantic(t, c)  body == Body(t, "header") \ A
           e == Semantic(c)  q == e \o d  B == Planned(d)  E == A \cap {"element", "filter"}
<1>0. 6 \in 0..13 /\ 6 <= 6 /\ 7 \notin {5, 6}
  OBVIOUS
<1>s. "header" \in Structures /\ Due["header"] = 7
  BY NumbersOf DEF Structures
<1>1. /\ Reasons(f, t, A) /\ Owed(f, A, 6) /\ Sealing(t, A, {}, 6) /\ Counted(f, t, A, {}, 6)
      /\ Made(f, t) \subseteq A /\ A \in SUBSET (Fields \cup Structures)
      /\ \A y \in A : Due[y] <= 6
  BY <1>0, Between
<1>2. "header" \notin A
  BY <1>0, EarlyActions
<1>3. body \in SUBSET Fields /\ body \subseteq FieldsOf["header"] \ A
  BY <1>s, BodyType
<1>4. e \in Seq(Action) /\ Planned(e) = E /\ (e = <<>> <=> E = {})
  BY SemanticIs
<1>5. d = IF e = <<>> THEN <<>> ELSE Reseal(t, "header", body)
  BY DEF FinalizeSemantic, BodyAfter
<1>6. Ordered(e) /\ \A X : NewBodies(e, X)
  BY SemanticQueue
<1> HIDE DEF A, d, body, e
<1>7. /\ d \in Seq(Action) /\ B \subseteq {"header"}
      /\ E = {} => d = <<>>
      /\ E # {} /\ "header" \notin B => t.sum["header"] = body
  <2>1. CASE e = <<>>
    BY <1>4, <1>5, <2>1, PlannedNone
  <2>2. CASE e # <<>>
    <3>1. d = Reseal(t, "header", body)
      BY <1>5, <2>2
    <3>2. d \in Seq(Action) /\ Planned(d) \subseteq {"header"}
      BY <1>3, <1>s, <3>1, ResealIs
    <3>3. "header" \notin B => t.sum["header"] = body
      BY <1>3, <1>s, <3>1, ResealIs
    <3> QED BY <1>4, <2>2, <3>2, <3>3
  <2> QED BY <2>1, <2>2
<1>8. "header" \notin Fields /\ B \in SUBSET Structures
  BY <1>7, <1>s, FieldsAre
<1>9. body \subseteq FieldsOf["header"] \ (A \cup B)
  BY <1>3, <1>7, <1>8, <1>s, FieldsAre
<1>10. Ordered(d) /\ NewBodies(d, A \cup B)
  BY <1>3, <1>5, <1>9, <1>s, ResealQueue, QueueNone
<1>11. Planned(q) = E \cup B
  BY <1>4, <1>7, PlannedConcat
<1> HIDE DEF B
<1>12. \A x \in Planned(e), y \in Planned(d) : Rank[x] < Rank[y]
  BY <1>4, <1>7, NumbersOf DEF B
<1>13. Ordered(q) /\ NewBodies(q, A \cup B)
  BY <1>4, <1>6, <1>7, <1>10, <1>12, QueueJoin
<1> HIDE DEF q
<1>14. AfterMade(f, t, Planned(q))
  <2>1. Made(f, t) \subseteq {"signature", "base", "flags", "super"}
    <3>1. "element" \notin Made(f, t) /\ "filter" \notin Made(f, t)
      <4>1. \A x \in {"element", "filter"} : x \in FieldsOf["header"] /\ x \notin Structures
        BY FieldsAre DEF Structures
      <4>2. Body(t, "header") = Body(f, "header")
        BY <1>0, <1>1 DEF Counted
      <4> QED BY <4>1, <4>2 DEF Made, Body
    <3>2. A \subseteq {"signature", "base", "flags", "super", "element", "filter"}
      <4>1. \A x \in A : x \in {"signature", "base", "flags", "super", "element", "filter",
                                "header", "sections", "fshd", "total", "bthd"}
        BY <1>1, FieldsAre DEF Structures
      <4>2. A \cap {"sections", "fshd", "total", "bthd"} = {}
        BY <1>0, EarlyActions DEF A
      <4> QED BY <1>2, <4>1, <4>2
    <3> QED BY <1>1, <3>1, <3>2
  <2>2. Planned(q) \cap Fields \subseteq {"element", "filter"}
    BY <1>7, <1>8, <1>11
  <2> QED BY <2>1, <2>2, NumbersOf DEF AfterMade
<1>15. Reasons(f, t, A \cup B)
  BY <1>1, <1>8, ReasonsWith
<1>16. Sealing(t, A, Planned(q), 7)
  <2> SUFFICES ASSUME NEW s \in Structures, A \cap FieldsOf[s] # {}, 7 >= SealedBy[s],
                      s \notin Planned(q)
               PROVE  t.sum[s] \subseteq FieldsOf[s] \ A
    BY DEF Sealing
  <2>1. s = "header" \/ 6 >= SealedBy[s]
    BY NumbersOf DEF Structures
  <2>2. CASE s = "header"
    <3>1. E # {} /\ "header" \notin B
      BY <1>11, <2>2, FieldsAre
    <3> QED BY <1>3, <1>7, <2>2, <3>1
  <2>3. CASE 6 >= SealedBy[s]
    BY <1>1, <2>3 DEF Sealing
  <2> QED BY <2>1, <2>2, <2>3
<1>17. Sealing(t, A \cup B, Planned(q), 7)
  BY <1>8, <1>16, SealingWith
<1>18. Owed(f, A \cup B, 7)
  BY <1>1 DEF Owed
<1>19. B \cap A = {} /\ B \cap Fields \subseteq t.bad /\ \A y \in B : Due[y] <= 7
  <2>1. B \cap A = {} /\ B \cap Fields \subseteq t.bad
    BY <1>2, <1>7, <1>8
  <2>2. Due["header"] <= 7
    BY <1>s
  <2> QED BY <1>7, <2>1, <2>2
<1> HIDE DEF E
<1>20. Extension(f, t, A, B, q, 7)
  BY <1>0, <1>11, <1>13, <1>14, <1>15, <1>17, <1>18, <1>19 DEF Extension, E
<1> QED BY <1>20 DEF A, B, q, d, e

LEMMA StageFreeSpace ==
  ASSUME NEW f \in Files, NEW t \in Files, NEW c \in Seq(Action), RunInv(f, t, c, <<>>, 8)
  PROVE  LET d == FreeSpaceCount(t, f)
         IN Extension(f, t, Planned(c), Planned(d), d, 9)
<1> DEFINE A == Planned(c)  d == FreeSpaceCount(t, f)  B == Planned(d)
           a == SetField(t, "sections")  r == Reseal(t, "fshd", {})
<1>0. 8 \in 0..13 /\ 8 \notin {5, 6} /\ 9 \notin {5, 6, 7}
  OBVIOUS
<1>s. /\ "fshd" \in Structures /\ "fshd" \notin Fields /\ "sections" \in Fields
      /\ Due["fshd"] = 9 /\ Due["sections"] = 9
      /\ FieldsOf["fshd"] = {"sections"}
  BY NumbersOf, FieldsAre DEF Structures
<1>1. /\ Reasons(f, t, A) /\ Owed(f, A, 8) /\ Sealing(t, A, {}, 8)
      /\ Made(f, t) \subseteq A /\ A \in SUBSET (Fields \cup Structures)
  BY <1>0, Between
<1>2. A \cap {"sections", "fshd", "total", "bthd"} = {}
  BY <1>0, EarlyActions
<1>3. a \in Action /\ a.at = "sections" /\ Planned(<<a>>) = {"sections"} /\ <<a>> \in Seq(Action)
  BY <1>s, SetFieldType, PlannedOne
<1>4. r \in Seq(Action) /\ (t.sum["fshd"] # {} => Planned(r) = {"fshd"})
  BY <1>s, ResealIs
<1>5. \/ d = <<>>
      \/ d = <<a>> \o r /\ "sections" \in t.bad /\ t.sum["fshd"] = Body(t, "fshd")
  BY DEF FreeSpaceCount, Sealed
<1> HIDE DEF A, d, a, r
<1>6. CASE d = <<>>
  <2>1. B = {}
    BY <1>6, PlannedNone
  <2>2. /\ Ordered(d) /\ NewBodies(d, A) /\ AfterMade(f, t, {}) /\ Owed(f, A, 9)
    BY <1>1, <1>6, QueueNone DEF AfterMade, Owed
  <2>3. Sealing(t, A, {}, 9)
    <3> SUFFICES ASSUME NEW s \in Structures, A \cap FieldsOf[s] # {}, 9 >= SealedBy[s]
                 PROVE  t.sum[s] \subseteq FieldsOf[s] \ A
      BY DEF Sealing
    <3>1. s # "fshd"
      BY <1>2, <1>s
    <3>2. 8 >= SealedBy[s]
      BY <3>1, NumbersOf DEF Structures
    <3> QED BY <1>1, <3>2 DEF Sealing
  <2> HIDE DEF B
  <2>4. A \cup B = A
    BY <2>1
  <2>5. Extension(f, t, A, B, d, 9)
    BY <1>0, <1>1, <2>1, <2>2, <2>3, <2>4 DEF Extension, B
  <2> QED BY <2>5 DEF A, B, d
<1>7. CASE d = <<a>> \o r /\ "sections" \in t.bad /\ t.sum["fshd"] = Body(t, "fshd")
  <2>1. t.sum["fshd"] # {}
    BY <1>7, <1>s DEF Body
  <2>2. B = {"sections", "fshd"}
    <3> DEFINE v == <<a>>
    <3>0. v \in Seq(Action) /\ r \in Seq(Action)
      BY <1>3, <1>4
    <3> HIDE DEF v
    <3>v. Planned(v \o r) = Planned(v) \cup Planned(r)
      BY <3>0, PlannedConcat
    <3>1. Planned(<<a>> \o r) = Planned(<<a>>) \cup Planned(r)
      BY <3>v DEF v
    <3>2. Planned(r) = {"fshd"}
      BY <1>4, <2>1
    <3>3. Planned(d) = {"sections"} \cup {"fshd"}
      BY <1>3, <1>7, <3>1, <3>2
    <3> QED BY <3>3
  <2>3. /\ Ordered(r) /\ NewBodies(r, A \cup B) /\ Ordered(<<a>>) /\ NewBodies(<<a>>, A \cup B)
    <3>1. Ordered(r) /\ NewBodies(r, A \cup B)
      <4>1. {} \in SUBSET Fields /\ {} \subseteq FieldsOf["fshd"] \ (A \cup B)
        OBVIOUS
      <4> HIDE DEF B
      <4> QED BY <1>s, <4>1, ResealQueue DEF r
    <3>2. "sections" \notin Structures
      BY DEF Structures
    <3> HIDE DEF B
    <3>3. Ordered(<<a>>) /\ NewBodies(<<a>>, A \cup B)
      BY <1>3, <3>2, QueueOne
    <3> QED BY <3>1, <3>3
  <2>4. \A x \in Planned(<<a>>), y \in Planned(r) : Rank[x] < Rank[y]
    BY <1>3, <1>4, <2>1, NumbersOf
  <2> HIDE DEF B
  <2>5. Ordered(d) /\ NewBodies(d, A \cup B)
    BY <1>3, <1>4, <1>7, <2>3, <2>4, QueueJoin
  <2>6. AfterMade(f, t, B)
    <3>1. \A y \in A : y \in {"signature", "base", "flags", "super", "element", "filter", "header"}
      BY <1>1, <1>2, FieldsAre DEF Structures
    <3>2. B \cap Fields = {"sections"}
      BY <1>s, <2>2
    <3>3. \A y \in A : Rank[y] < Rank["sections"]
      BY <3>1, NumbersOf
    <3> QED BY <1>1, <3>2, <3>3 DEF AfterMade
  <2>7. Reasons(f, t, A \cup B)
    BY <1>1, <2>2, FieldsAre DEF Reasons
  <2>8. Sealing(t, A \cup B, B, 9)
    <3> SUFFICES ASSUME NEW s \in Structures, (A \cup B) \cap FieldsOf[s] # {}, 9 >= SealedBy[s],
                        s \notin B
                 PROVE  t.sum[s] \subseteq FieldsOf[s] \ (A \cup B)
      BY DEF Sealing
    <3>1. s \in {"super", "header"} /\ 8 >= SealedBy[s]
      BY <2>2, NumbersOf DEF Structures
    <3>2. B \cap FieldsOf[s] = {}
      BY <2>2, <3>1, FieldsAre
    <3>3. t.sum[s] \subseteq FieldsOf[s] \ A
      BY <1>1, <3>1, <3>2 DEF Sealing
    <3> QED BY <3>2, <3>3
  <2>9. Owed(f, A \cup B, 9)
    BY <1>1 DEF Owed
  <2>10. B \cap A = {} /\ B \cap Fields \subseteq t.bad /\ \A y \in B : Due[y] <= 9
    BY <1>2, <1>7, <1>s, <2>2
  <2>11. Extension(f, t, A, B, d, 9)
    BY <1>0, <2>5, <2>6, <2>7, <2>8, <2>9, <2>10 DEF Extension, B
  <2> QED BY <2>11 DEF A, B, d
<1> QED BY <1>5, <1>6, <1>7

\* Any stage.
LEMMA StageRuns ==
  ASSUME NEW f \in Files, NEW t \in Files, NEW c \in Seq(Action), NEW n \in 1..13,
         RunInv(f, t, c, <<>>, n - 1)
  PROVE  LET d == Stage(Stages[n], t, f, c, TRUE)
         IN RunInv(f, t, c \o d, Writes(Stages[n], d, c), n)
<1> DEFINE d == Stage(Stages[n], t, f, c, TRUE)  q == Writes(Stages[n], d, c)
<1>1. d \in Seq(Action) /\ q \in Seq(Action)
  BY StageType, SemanticWritesType
<1>2. Extension(f, t, Planned(c), Planned(d), q, n)
  <2>1. CASE n = 1
    <3>0. n - 1 = 0
      BY <2>1
    <3>a. RunInv(f, t, c, <<>>, 0)
      BY <3>0
    <3>1. d = Signature(t, f) /\ q = d
      BY <2>1, StagesAre DEF Stage, Writes
    <3>2. Extension(f, t, Planned(c), Planned(Signature(t, f)), Signature(t, f), 1)
      BY <3>a, StageSignature
    <3> HIDE DEF d, q
    <3> QED BY <2>1, <3>1, <3>2
  <2>2. CASE n = 2
    <3>0. n - 1 = 1
      BY <2>2
    <3>a. RunInv(f, t, c, <<>>, 1)
      BY <3>0
    <3>1. d = SuperBase(t, f) /\ q = d
      BY <2>2, StagesAre DEF Stage, Writes
    <3>2. Extension(f, t, Planned(c), Planned(SuperBase(t, f)), SuperBase(t, f), 2)
      BY <3>a, StageBase
    <3> HIDE DEF d, q
    <3> QED BY <2>2, <3>1, <3>2
  <2>3. CASE n = 3
    <3>0. n - 1 = 2
      BY <2>3
    <3>a. RunInv(f, t, c, <<>>, 2)
      BY <3>0
    <3>1. d = SuperFlags(t, f) /\ q = d
      BY <2>3, StagesAre DEF Stage, Writes
    <3>2. Extension(f, t, Planned(c), Planned(SuperFlags(t, f)), SuperFlags(t, f), 3)
      BY <3>a, StageFlags
    <3> HIDE DEF d, q
    <3> QED BY <2>3, <3>1, <3>2
  <2>4. CASE n = 4
    <3>0. n - 1 = 3
      BY <2>4
    <3>a. RunInv(f, t, c, <<>>, 3)
      BY <3>0
    <3>1. d = SuperChecksum(t, f, c, TRUE) /\ q = d
      BY <2>4, StagesAre DEF Stage, Writes
    <3>2. Extension(f, t, Planned(c), Planned(SuperChecksum(t, f, c, TRUE)), SuperChecksum(t, f, c, TRUE), 4)
      BY <3>a, StageSuper
    <3> HIDE DEF d, q
    <3> QED BY <2>4, <3>1, <3>2
  <2>5. CASE n = 5
    <3>0. n - 1 = 4
      BY <2>5
    <3>a. RunInv(f, t, c, <<>>, 4)
      BY <3>0
    <3>1. d = ChunkLayout(t, f) /\ q = <<>>
      BY <2>5, StagesAre DEF Stage, Writes
    <3>2. Extension(f, t, Planned(c), Planned(ChunkLayout(t, f)), <<>>, 5)
      BY <3>a, StageElement
    <3> HIDE DEF d, q
    <3> QED BY <2>5, <3>1, <3>2
  <2>6. CASE n = 6
    <3>0. n - 1 = 5
      BY <2>6
    <3>a. RunInv(f, t, c, <<>>, 5)
      BY <3>0
    <3>1. d = FilterParameters(t, f) /\ q = <<>>
      BY <2>6, StagesAre DEF Stage, Writes
    <3>2. Extension(f, t, Planned(c), Planned(FilterParameters(t, f)), <<>>, 6)
      BY <3>a, StageFilter
    <3> HIDE DEF d, q
    <3> QED BY <2>6, <3>1, <3>2
  <2>7. CASE n = 7
    <3>0. n - 1 = 6
      BY <2>7
    <3>a. RunInv(f, t, c, <<>>, 6)
      BY <3>0
    <3>1. d = FinalizeSemantic(t, c) /\ q = Semantic(c) \o d
      BY <2>7, StagesAre DEF Stage, Writes
    <3>2. Extension(f, t, Planned(c), Planned(FinalizeSemantic(t, c)), Semantic(c) \o FinalizeSemantic(t, c), 7)
      BY <3>a, StageFinalize
    <3> HIDE DEF d, q
    <3> QED BY <2>7, <3>1, <3>2
  <2>8. CASE n = 8
    <3>0. n - 1 = 7
      BY <2>8
    <3>a. RunInv(f, t, c, <<>>, 7)
      BY <3>0
    <3>1. d = HeaderChecksum(t, f, c) /\ q = d
      BY <2>8, StagesAre DEF Stage, Writes
    <3>2. Extension(f, t, Planned(c), Planned(HeaderChecksum(t, f, c)), HeaderChecksum(t, f, c), 8)
      BY <3>a, StageHeader
    <3> HIDE DEF d, q
    <3> QED BY <2>8, <3>1, <3>2
  <2>9. CASE n = 9
    <3>0. n - 1 = 8
      BY <2>9
    <3>a. RunInv(f, t, c, <<>>, 8)
      BY <3>0
    <3>1. d = FreeSpaceCount(t, f) /\ q = d
      BY <2>9, StagesAre DEF Stage, Writes
    <3>2. Extension(f, t, Planned(c), Planned(FreeSpaceCount(t, f)), FreeSpaceCount(t, f), 9)
      BY <3>a, StageFreeSpace
    <3> HIDE DEF d, q
    <3> QED BY <2>9, <3>1, <3>2
  <2>10. CASE n = 10
    <3>0. n - 1 = 9
      BY <2>10
    <3>a. RunInv(f, t, c, <<>>, 9)
      BY <3>0
    <3>1. d = TreeTotal(t, f) /\ q = d
      BY <2>10, StagesAre DEF Stage, Writes
    <3>2. Extension(f, t, Planned(c), Planned(TreeTotal(t, f)), TreeTotal(t, f), 10)
      BY <3>a, StageTotal
    <3> HIDE DEF d, q
    <3> QED BY <2>10, <3>1, <3>2
  <2>11. CASE n = 11
    <3>0. n - 1 = 10
      BY <2>11
    <3>a. RunInv(f, t, c, <<>>, 10)
      BY <3>0
    <3>1. d = TreeChecksum(t, f, c, TRUE) /\ q = d
      BY <2>11, StagesAre DEF Stage, Writes
    <3>2. Extension(f, t, Planned(c), Planned(TreeChecksum(t, f, c, TRUE)), TreeChecksum(t, f, c, TRUE), 11)
      BY <3>a, StageTreeChecksum
    <3> HIDE DEF d, q
    <3> QED BY <2>11, <3>1, <3>2
  <2>12. CASE n = 12
    <3>1. n \in {12, 13} /\ d = ReachedChecksum(t, f, c, "fshd") /\ q = d
      BY <2>12, StagesAre DEF Stage, Writes
    <3>2. Extension(f, t, Planned(c), Planned(ReachedChecksum(t, f, c, "fshd")), ReachedChecksum(t, f, c, "fshd"), n)
      BY <3>1, StageReached
    <3> HIDE DEF d, q
    <3> QED BY <3>1, <3>2
  <2>13. CASE n = 13
    <3>1. n \in {12, 13} /\ d = ReachedChecksum(t, f, c, "bthd") /\ q = d
      BY <2>13, StagesAre DEF Stage, Writes
    <3>2. Extension(f, t, Planned(c), Planned(ReachedChecksum(t, f, c, "bthd")), ReachedChecksum(t, f, c, "bthd"), n)
      BY <3>1, StageReached
    <3> HIDE DEF d, q
    <3> QED BY <3>1, <3>2
  <2>14. \/ n = 1 \/ n = 2 \/ n = 3 \/ n = 4 \/ n = 5 \/ n = 6 \/ n = 7 \/ n = 8 \/ n = 9
         \/ n = 10 \/ n = 11 \/ n = 12 \/ n = 13
    OBVIOUS
  <2> QED BY <2>1, <2>2, <2>3, <2>4, <2>5, <2>6, <2>7, <2>8, <2>9, <2>10, <2>11, <2>12, <2>13,
             <2>14
<1> HIDE DEF d, q
<1>3. RunInv(f, t, c \o d, q, n)
  BY <1>1, <1>2, ExtensionRuns
<1> QED BY <1>3 DEF d, q

-----------------------------------------------------------------------------
(* h5patch: every state of a command. *)

\* During the writes a checksum that matches is the one that was found, or its body has
\* nothing left to repair but the flags.
LEMMA NoSealTooEarly ==
  ASSUME NEW f \in Files, NEW t \in Files, NEW c \in Seq(Action), NEW q \in Seq(Action),
         NEW n \in 0..13, RunInv(f, t, c, q, n), NEW s \in Structures, Sealed(t, s)
  PROVE  \/ t.sum[s] = f.sum[s] /\ Body(t, s) = Body(f, s)
         \/ Planned(c) \cap FieldsOf[s] \cap t.bad \subseteq {"flags"}
<1> DEFINE A == Planned(c)  Q == Planned(q)
<1>1. /\ Kept(f, t) /\ Counted(f, t, A, Q, n) /\ AfterMade(f, t, Q) /\ Reasons(f, t, A)
      /\ A \in SUBSET (Fields \cup Structures)
      /\ Made(f, t) \subseteq A /\ \A x \in A : Due[x] <= n
  BY PlannedType DEF RunInv, Counted
<1>2. n <= 6 => "header" \notin A
  BY <1>1, Early
<1> HIDE DEF A, Q
<1> SUFFICES ASSUME NEW x \in A \cap FieldsOf[s] \cap t.bad, x # "flags"
             PROVE  t.sum[s] = f.sum[s] /\ Body(t, s) = Body(f, s)
  BY DEF A
<1>3. x \in Fields /\ FieldsOf[s] \subseteq Fields
  BY FieldsAre
<1>4. CASE x \notin Q
  <2>1. x \in {"element", "filter"} /\ n \in {5, 6}
    BY <1>1, <1>4 DEF Counted
  <2>2. s = "header"
    BY <2>1, FieldsAre DEF Structures
  <2>3. "header" \notin Made(f, t) /\ Body(t, "header") = Body(f, "header")
    BY <1>1, <1>2, <2>1 DEF Counted
  <2> QED BY <2>2, <2>3 DEF Made
<1>5. CASE x \in Q
  <2>1. \A y \in Made(f, t) : Rank[y] < Rank[x]
    BY <1>1, <1>3, <1>5 DEF AfterMade
  <2>2. Rank[x] < Rank[s] /\ Rank[x] \in Nat /\ Rank[s] \in Nat
    <3>1. s = "super" => Rank[x] < Rank[s]
      <4>1. s = "super" => x = "signature" \/ x = "base" \/ x = "flags"
        BY FieldsAre
      <4> QED BY <4>1, NumbersOf
    <3>2. s = "header" => Rank[x] < Rank[s]
      BY NumbersOf, FieldsAre
    <3>3. s = "fshd" \/ s = "bthd" => Rank[x] < Rank[s]
      BY NumbersOf, FieldsAre
    <3>4. Rank[x] \in Nat /\ Rank[s] \in Nat
      BY <1>3, NumberTypesOf
    <3> QED BY <3>1, <3>2, <3>3, <3>4 DEF Structures
  <2>3. s \notin Made(f, t)
    BY <2>1, <2>2
  <2>4. t.sum[s] = f.sum[s]
    BY <2>3 DEF Made
  <2>5. CASE s = "header"
    <3>1. x = "element" \/ x = "filter"
      BY <2>5, FieldsAre
    <3>2. CASE x = "filter"
      BY <1>1, <2>4, <2>5, <3>2 DEF Reasons, Sealed
    <3>3. CASE x = "element"
      <4>1. "filter" \notin Made(f, t) /\ "element" \notin Made(f, t)
        BY <2>1, <3>3, NumbersOf
      <4>2. \A y \in FieldsOf["header"] : y \in t.bad <=> y \in f.bad
        BY <1>1, <4>1, FieldsAre DEF Kept, Made
      <4> QED BY <2>4, <2>5, <4>2 DEF Body
    <3> QED BY <3>1, <3>2, <3>3
  <2>6. CASE s = "super"
    <3>1. x = "signature" \/ x = "base"
      BY <2>6, FieldsAre
    <3>2. "signature" \in Made(f, t) => "signature" \in f.bad
      BY DEF Made, Structures
    <3>3. "signature" \notin Made(f, t)
      BY <1>1, <2>1, <3>1, <3>2, NumbersOf DEF Reasons
    <3>4. "base" \notin Made(f, t) /\ "flags" \notin Made(f, t)
      BY <2>1, <3>1, NumbersOf
    <3>5. \A y \in FieldsOf["super"] : y \in t.bad <=> y \in f.bad
      BY <1>1, <3>3, <3>4, FieldsAre DEF Kept, Made
    <3> QED BY <2>4, <2>6, <3>5 DEF Body
  <2>7. CASE s \in {"fshd", "bthd"}
    <3>1. FieldsOf[s] = {x}
      BY <2>7, FieldsAre
    <3>2. x \in f.bad
      BY <1>1 DEF Kept
    <3> QED BY <2>4, <3>1, <3>2 DEF Body
  <2> QED BY <2>5, <2>6, <2>7 DEF Structures
<1> QED BY <1>4, <1>5

\* What holds of the file once the run is over, unless somebody else has changed it since.
EndInv(f, t, A) ==
  /\ t.bad \subseteq f.bad \ A /\ t.simple = f.simple

\* The file t with as much of it analysed as the run's own analysis saw.
AsSeen(t, f) ==
  [bad |-> t.bad, sum |-> t.sum, simple |-> t.simple, complete |-> f.complete,
   walked |-> f.walked]

ApplyInv ==
  /\ pc \in {"matched", "copy", "copying", "open"} =>
       acts = <<>> /\ queue = <<>> /\ written = <<>> /\ stage = 0
  /\ pc = "applying" => RunInv(seen, AsSeen(disk[Target], seen), acts, queue, stage)
  /\ pc = "verify" => Sealing(disk[Target], Planned(acts), {}, 13)
  /\ pc = "verify" \/ Finished =>
       /\ Owed(seen, Planned(acts), 13)
       /\ touches = 0 => EndInv(seen, disk[Target], Planned(acts))
       /\ Finished /\ outcome.status = 0 /\ touches = 0 => Accepted(disk[Target])

LEMMA AsSeenIs ==
  ASSUME NEW t \in Files, NEW f \in Files
  PROVE  /\ AsSeen(t, f) \in Files
         /\ AsSeen(t, f).bad = t.bad /\ AsSeen(t, f).sum = t.sum
         /\ AsSeen(t, f).simple = t.simple
         /\ AsSeen(t, f).complete = f.complete /\ AsSeen(t, f).walked = f.walked
         /\ \A s : Body(AsSeen(t, f), s) = Body(t, s)
         /\ \A s : Sealed(AsSeen(t, f), s) <=> Sealed(t, s)
<1>1. /\ t.bad \in SUBSET Fields /\ t.sum \in [Structures -> (SUBSET Fields) \cup {Junk}]
      /\ t.simple \in BOOLEAN
      /\ t = [bad |-> t.bad, sum |-> t.sum, simple |-> t.simple, complete |-> t.complete,
              walked |-> t.walked]
  BY DEF Files
<1>2. f.complete \in BOOLEAN /\ f.walked \in 0..2 /\ (f.complete => f.walked = 2)
  BY DEF Files
<1>3. AsSeen(t, f) = [bad |-> t.bad, sum |-> t.sum, simple |-> t.simple,
                      complete |-> f.complete, walked |-> f.walked]
  BY DEF AsSeen
<1>4. AsSeen(t, f) \in Files
  BY <1>1, <1>2, <1>3 DEF Files
<1>5. /\ AsSeen(t, f).bad = t.bad /\ AsSeen(t, f).sum = t.sum
      /\ AsSeen(t, f).simple = t.simple
      /\ AsSeen(t, f).complete = f.complete /\ AsSeen(t, f).walked = f.walked
  BY <1>3
<1>6. \A s : Body(AsSeen(t, f), s) = Body(t, s)
  BY <1>5 DEF Body
<1>7. \A s : Sealed(AsSeen(t, f), s) <=> Sealed(t, s)
  BY <1>5, <1>6 DEF Sealed
<1> QED BY <1>4, <1>5, <1>6, <1>7

\* The analysis of a file sees the file, or as much of it as there was time for.
LEMMA AsAnalysed ==
  ASSUME NEW t \in Files, NEW f \in {t} \cup CutsOf(t)
  PROVE  f \in Files /\ AsSeen(t, f) = f
<1>1. f \in Files /\ f.bad = t.bad /\ f.sum = t.sum /\ f.simple = t.simple
  BY ViewIs
<1>2. /\ f = [bad |-> f.bad, sum |-> f.sum, simple |-> f.simple, complete |-> f.complete,
              walked |-> f.walked]
      /\ t = [bad |-> t.bad, sum |-> t.sum, simple |-> t.simple, complete |-> t.complete,
              walked |-> t.walked]
  BY <1>1 DEF Files
<1>3. AsSeen(t, f) = [bad |-> t.bad, sum |-> t.sum, simple |-> t.simple,
                      complete |-> f.complete, walked |-> f.walked]
  BY <1>2 DEF AsSeen
<1> QED BY <1>1, <1>2, <1>3

LEMMA AsSeenWritten ==
  ASSUME NEW t \in Files, NEW f \in Files, NEW a \in Action
  PROVE  AsSeen(Write(t, a), f) = Write(AsSeen(t, f), a)
<1>1. t = [bad |-> t.bad, sum |-> t.sum, simple |-> t.simple, complete |-> t.complete,
           walked |-> t.walked]
  BY DEF Files
<1> QED BY <1>1 DEF AsSeen, Write

\* A stage reads of the file as it is now its bytes only.
LEMMA AsSeenStage ==
  ASSUME NEW t \in Files, NEW f \in Files, NEW n \in 1..13, NEW c
  PROVE  Stage(Stages[n], AsSeen(t, f), f, c, TRUE) = Stage(Stages[n], t, f, c, TRUE)
<1> DEFINE u == AsSeen(t, f)
<1>1. /\ u.bad = t.bad /\ u.sum = t.sum /\ u.simple = t.simple
      /\ \A s : Body(u, s) = Body(t, s)
      /\ \A s : Sealed(u, s) <=> Sealed(t, s)
  BY AsSeenIs
<1> HIDE DEF u
<1>3. \A s, b : Reseal(u, s, b) = Reseal(t, s, b)
  BY <1>1 DEF Reseal
<1>4. \A s : BodyAfter(u, s, c, TRUE) = BodyAfter(t, s, c, TRUE)
  BY <1>1 DEF BodyAfter
<1>5. \A s : BodyAfter(u, s, c, FALSE) = BodyAfter(t, s, c, FALSE)
  BY <1>1 DEF BodyAfter
<1>6. SuperReadable(u, f) <=> SuperReadable(t, f)
  BY <1>1 DEF SuperReadable
<1>7. \A x : SetField(u, x) = SetField(t, x)
  BY <1>1 DEF SetField
<1>8. /\ Signature(u, f) = Signature(t, f) /\ SuperBase(u, f) = SuperBase(t, f)
      /\ SuperFlags(u, f) = SuperFlags(t, f) /\ TreeTotal(u, f) = TreeTotal(t, f)
  BY <1>1, <1>6, <1>7 DEF Signature, SuperBase, SuperFlags, TreeTotal, Field
<1>9. /\ SuperChecksum(u, f, c, TRUE) = SuperChecksum(t, f, c, TRUE)
      /\ TreeChecksum(u, f, c, TRUE) = TreeChecksum(t, f, c, TRUE)
      /\ FinalizeSemantic(u, c) = FinalizeSemantic(t, c)
  BY <1>3, <1>4, <1>5, <1>6 DEF SuperChecksum, TreeChecksum, FinalizeSemantic
<1>10. ChunkLayout(u, f) = ChunkLayout(t, f)
  BY <1>1, <1>7 DEF ChunkLayout, Field
<1>11. FilterParameters(u, f) = FilterParameters(t, f)
  BY <1>1, <1>7 DEF FilterParameters, Field
<1>12. HeaderChecksum(u, f, c) = HeaderChecksum(t, f, c)
  BY <1>1, <1>3 DEF HeaderChecksum
<1>13. FreeSpaceCount(u, f) = FreeSpaceCount(t, f)
  BY <1>1, <1>3, <1>7 DEF FreeSpaceCount
<1>14. \A s : ReachedChecksum(u, f, c, s) = ReachedChecksum(t, f, c, s)
  BY <1>1, <1>3 DEF ReachedChecksum
<1> QED BY <1>8, <1>9, <1>10, <1>11, <1>12, <1>13, <1>14 DEF Stage, u

LEMMA ApplyStep == PatchTypes /\ ApplyInv /\ [PatchNext]_patchVars => ApplyInv'
<1> SUFFICES ASSUME PatchTypes, ApplyInv, [PatchNext]_patchVars PROVE ApplyInv'
  OBVIOUS
<1>0. /\ disk \in [Names -> Files] /\ seen \in Files /\ Target \in Names /\ disk[Target] \in Files
      /\ acts \in Seq(Action) /\ queue \in Seq(Action) /\ stage \in 0..13 /\ touches \in Nat
      /\ "input" \in Names /\ "output" \in Names
  <2>1. Target \in Names
    BY ModeIs DEF PatchTypes, Command, Target
  <2> QED BY <2>1 DEF PatchTypes, FileTypes, ListTypes, CountTypes, Names
<1>1. CASE MakePlan
  BY <1>1 DEF MakePlan, ApplyInv, Finished
<1>2. CASE Compare
  BY <1>2 DEF Compare, ApplyInv, Finished, EndApply
<1>3. CASE ChooseTarget
  BY <1>3 DEF ChooseTarget, ApplyInv, Finished, EndApply, run
<1>4. CASE BeginCopy
  BY <1>4 DEF BeginCopy, ApplyInv, Finished, run
<1>5. CASE EndCopy
  BY <1>5 DEF EndCopy, ApplyInv, Finished, run
<1>6. CASE Analyse
  <2>1. pc' = "applying" /\ disk'[Target'] = disk[Target]
        /\ acts' = <<>> /\ queue' = <<>> /\ stage' = 0
        /\ seen' \in {disk[Target]} \cup CutsOf(disk[Target])
    BY <1>6 DEF Analyse, ApplyInv, Target
  <2>3. seen' \in Files /\ AsSeen(disk'[Target'], seen') = seen'
    BY <1>0, <2>1, AsAnalysed
  <2>2. RunInv(seen', AsSeen(disk'[Target'], seen'), acts', queue', stage')
    BY <1>0, <2>1, <2>3, RunBegins
  <2> QED BY <2>1, <2>2 DEF ApplyInv, Finished
<1>7. CASE Collect
  <2> DEFINE n == stage + 1  d == Stage(Stages[n], disk[Target], seen, acts, TRUE)
             q == Writes(Stages[n], d, acts)  u == AsSeen(disk[Target], seen)
  <2>1. /\ pc = "applying" /\ pc' = pc /\ queue = <<>> /\ stage < 13 /\ stage' = n
        /\ acts' = acts \o d /\ queue' = q /\ UNCHANGED <<disk, seen, options>>
    BY <1>7, StagesAre DEF Collect
  <2>2. n \in 1..13 /\ n - 1 = stage
    BY <1>0, <2>1
  <2>3. RunInv(seen, u, acts, <<>>, n - 1)
    BY <2>1, <2>2 DEF ApplyInv
  <2> HIDE DEF n
  <2>6. u \in Files
    BY <1>0, AsSeenIs
  <2>7. d = Stage(Stages[n], u, seen, acts, TRUE)
    BY <1>0, <2>2, AsSeenStage
  <2> HIDE DEF u
  <2>4. RunInv(seen, u, acts \o d, q, n)
    <3> HIDE DEF d
    <3> QED BY <1>0, <2>2, <2>3, <2>6, <2>7, StageRuns
  <2>5. RunInv(seen', AsSeen(disk'[Target'], seen'), acts', queue', stage')
    BY <2>1, <2>4 DEF Target, u
  <2> HIDE DEF d, q
  <2> QED BY <2>1, <2>5 DEF ApplyInv, Finished
<1>8. CASE WriteNext
  <2>1. /\ pc = "applying" /\ pc' = pc /\ queue # <<>> /\ queue' = Tail(queue)
        /\ disk' = [disk EXCEPT ![Target] = Write(@, Head(queue))]
        /\ UNCHANGED <<seen, options, acts, stage>>
    BY <1>8 DEF WriteNext
  <2>2. disk'[Target'] = Write(disk[Target], Head(queue))
    BY <1>0, <2>1 DEF Target
  <2>3. RunInv(seen, AsSeen(disk[Target], seen), acts, queue, stage)
    BY <2>1 DEF ApplyInv
  <2>5. AsSeen(disk[Target], seen) \in Files
    BY <1>0, AsSeenIs
  <2>4. RunInv(seen, Write(AsSeen(disk[Target], seen), Head(queue)), acts, Tail(queue), stage)
    BY <1>0, <2>1, <2>3, <2>5, WriteRuns
  <2>6. Head(queue) \in Action
    BY <1>0, <2>1, PlannedHead
  <2>7. AsSeen(disk'[Target'], seen') = Write(AsSeen(disk[Target], seen), Head(queue))
    BY <1>0, <2>1, <2>2, <2>6, AsSeenWritten
  <2> QED BY <2>1, <2>4, <2>7 DEF ApplyInv, Finished
<1>9. CASE Close
  <2>1. /\ pc = "applying" /\ queue = <<>> /\ stage = 13 /\ pc' = "verify"
        /\ UNCHANGED <<disk, options, seen, acts, queue, stage, written, touches>>
    BY <1>9, StagesAre DEF Close, run
  <2> DEFINE u == AsSeen(disk[Target], seen)
  <2>2. RunInv(seen, u, acts, <<>>, 13)
    BY <2>1 DEF ApplyInv
  <2>5. u \in Files /\ u.bad = disk[Target].bad /\ u.sum = disk[Target].sum
        /\ u.simple = disk[Target].simple
    BY <1>0, AsSeenIs
  <2> HIDE DEF u
  <2>3. 13 \in 0..13 /\ 13 \notin {5, 6}
    OBVIOUS
  <2>6. /\ Sealing(u, Planned(acts), {}, 13) /\ Owed(seen, Planned(acts), 13)
        /\ u.bad = seen.bad \ Planned(acts) /\ u.simple = seen.simple
    BY <1>0, <2>2, <2>3, <2>5, Between, Settled
  <2>4. /\ Sealing(disk[Target], Planned(acts), {}, 13) /\ Owed(seen, Planned(acts), 13)
        /\ disk[Target].bad = seen.bad \ Planned(acts) /\ disk[Target].simple = seen.simple
    BY <2>5, <2>6 DEF Sealing
  <2> QED BY <2>1, <2>4 DEF ApplyInv, EndInv, Finished, Target
<1>10. CASE Verify
  <2>1. PICK verified \in {Accepted(disk[Target]), FALSE} :
          EndApply(IF verified THEN 0 ELSE 4, verified)
    BY <1>10 DEF Verify
  <2>2. /\ pc = "verify" /\ pc' = "done"
        /\ UNCHANGED <<disk, options, seen, acts, queue, stage, written, touches>>
    BY <1>10, <2>1 DEF Verify, EndApply, run
  <2>3. outcome'.status = 0 => Accepted(disk[Target])
    <3>1. outcome'.status = IF verified THEN 0 ELSE 4
      BY <2>1 DEF EndApply
    <3>2. verified = Accepted(disk[Target]) \/ verified = FALSE
      BY <2>1
    <3>3. CASE verified = FALSE
      <4>1. outcome'.status = 4
        BY <3>1, <3>3
      <4> QED BY <4>1
    <3>4. CASE verified = Accepted(disk[Target])
      <4>1. CASE Accepted(disk[Target])
        BY <4>1
      <4>2. CASE ~Accepted(disk[Target])
        <5>1. ~verified
          BY <3>4, <4>2
        <5>2. outcome'.status = 4
          BY <3>1, <5>1
        <5> QED BY <5>2
      <4> QED BY <4>1, <4>2
    <3> QED BY <3>2, <3>3, <3>4
  <2> QED BY <2>2, <2>3 DEF ApplyInv, Finished, Target
<1>11. CASE KillApply
  BY <1>11 DEF KillApply, ApplyInv, Finished
<1>12. CASE Touch
  <2>1. /\ touches' = touches + 1 /\ ~(pc = "applying" /\ options.inPlace)
        /\ UNCHANGED <<pc, options, acts, queue, seen, stage, written, outcome>>
    BY <1>12 DEF Touch, run
  <2>2. PICK x \in Touchable :
          disk' = [disk EXCEPT !["input"].bad = IF x \in @ THEN @ \ {x} ELSE @ \cup {x}]
    BY <1>12 DEF Touch
  <2>3. \A n \in Names : disk'[n].sum = disk[n].sum
    BY <1>0, <2>2 DEF Files
  <2>4. disk'["output"] = disk["output"]
    BY <1>0, <2>2
  <2>5. pc = "applying" => Target = "output"
    BY <2>1 DEF PatchTypes, Command, Target
  <2>6. pc = "applying" => RunInv(seen', AsSeen(disk'[Target'], seen'), acts', queue', stage')
    BY <2>1, <2>4, <2>5 DEF ApplyInv, Target
  <2>7. pc = "verify" => Sealing(disk'[Target'], Planned(acts'), {}, 13)
    BY <1>0, <2>1, <2>3 DEF ApplyInv, Sealing, Target
  <2>8. touches' # 0
    BY <1>0, <2>1
  <2> QED BY <2>1, <2>6, <2>7, <2>8 DEF ApplyInv, Finished
<1>13. CASE Again
  BY <1>13 DEF Again, ApplyInv, Finished
<1>14. CASE LeaveIt \/ UNCHANGED patchVars
  BY <1>14 DEF LeaveIt, patchVars, ApplyInv, Finished, Target
<1> QED BY <1>1, <1>2, <1>3, <1>4, <1>5, <1>6, <1>7, <1>8, <1>9, <1>10, <1>11, <1>12, <1>13,
           <1>14 DEF PatchNext

LEMMA ApplyCorrect == PatchSpec => [](PatchTypes /\ ApplyInv)
<1>1. PatchInit => ApplyInv
  BY DEF PatchInit, ApplyInv, Finished
<1> QED BY <1>1, ApplyStep, PatchTypesCorrect, PTL DEF PatchSpec

\* No state of the target that a kill could leave behind has a checksum that matches, when
\* it did not before, over a field that the run means to repair.
THEOREM NoFalseSealCorrect == PatchSpec => []NoFalseSeal
<1>1. PatchTypes /\ ApplyInv => NoFalseSeal
  <2> SUFFICES ASSUME PatchTypes, ApplyInv, pc \in {"applying", "verify"},
                      NEW s \in Structures, Sealed(disk[Target], s)
               PROVE  \/ /\ disk[Target].sum[s] = seen.sum[s]
                         /\ Body(disk[Target], s) = Body(seen, s)
                      \/ Planned(acts) \cap FieldsOf[s] \cap disk[Target].bad \subseteq {"flags"}
    BY DEF NoFalseSeal
  <2>0. /\ seen \in Files /\ disk[Target] \in Files /\ acts \in Seq(Action)
        /\ queue \in Seq(Action) /\ stage \in 0..13
    <3>1. Target \in Names
      BY ModeIs DEF PatchTypes, Command, Target
    <3> QED BY <3>1 DEF PatchTypes, FileTypes, ListTypes, CountTypes, Names
  <2>1. CASE pc = "applying"
    <3> DEFINE u == AsSeen(disk[Target], seen)
    <3>1. RunInv(seen, u, acts, queue, stage)
      BY <2>1 DEF ApplyInv
    <3>2. /\ u \in Files /\ u.bad = disk[Target].bad /\ u.sum = disk[Target].sum
          /\ Body(u, s) = Body(disk[Target], s) /\ Sealed(u, s)
      BY <2>0, AsSeenIs
    <3> HIDE DEF u
    <3>3. \/ u.sum[s] = seen.sum[s] /\ Body(u, s) = Body(seen, s)
          \/ Planned(acts) \cap FieldsOf[s] \cap u.bad \subseteq {"flags"}
      BY <2>0, <3>1, <3>2, NoSealTooEarly
    <3> QED BY <3>2, <3>3
  <2>2. CASE pc = "verify"
    <3>1. Sealing(disk[Target], Planned(acts), {}, 13)
      BY <2>2 DEF ApplyInv
    <3>2. 13 >= SealedBy[s]
      BY NumbersOf DEF Structures
    <3>3. CASE Planned(acts) \cap FieldsOf[s] = {}
      BY <3>3
    <3>4. CASE Planned(acts) \cap FieldsOf[s] # {}
      <4>1. disk[Target].sum[s] \subseteq FieldsOf[s] \ Planned(acts)
        BY <3>1, <3>2, <3>4 DEF Sealing
      <4>2. Body(disk[Target], s) \cap Planned(acts) = {}
        BY <4>1 DEF Sealed
      <4> QED BY <4>2 DEF Body
    <3> QED BY <3>3, <3>4
  <2> QED BY <2>1, <2>2
<1> QED BY <1>1, ApplyCorrect, PTL

\* Exit status 0 is given only to a file with nothing of the catalog left to repair, when
\* its structures could be reached as it was found.
THEOREM VerifiedIsRepairedCorrect == PatchSpec => []VerifiedIsRepaired
<1>1. PatchTypes /\ ApplyInv => VerifiedIsRepaired
  <2> DEFINE t == disk[Target]  A == Planned(acts)
  <2> SUFFICES ASSUME PatchTypes, ApplyInv, pc = "done", outcome.status = 0, touches = 0,
                      t.simple, Reachable(seen), seen.walked # 0
               PROVE  Sound(t)
    BY DEF VerifiedIsRepaired
  <2>0. t \in Files
    <3>1. Target \in Names
      BY ModeIs DEF PatchTypes, Command, Target
    <3> QED BY <3>1 DEF PatchTypes, FileTypes
  <2>1. Owed(seen, A, 13) /\ EndInv(seen, t, A) /\ Accepted(t)
    BY DEF ApplyInv, Finished
  <2> HIDE DEF t, A
  <2>2. \A s \in Structures : Sealed(t, s)
    BY <2>1 DEF Accepted
  <2>3. {"signature", "base", "filter", "sections", "total"} \cap t.bad = {}
    BY <2>1 DEF Accepted, Reachable
  <2>4. t.bad \subseteq seen.bad \ A /\ seen.simple
    BY <2>1 DEF EndInv
  <2>5. "flags" \in seen.bad => "flags" \in A
    <3>1. 13 >= 3
      OBVIOUS
    <3> QED BY <2>1, <3>1 DEF Owed
  <2>6. "element" \in seen.bad => "element" \in A
    <3>1. 13 >= 5
      OBVIOUS
    <3> QED BY <2>1, <2>4, <3>1 DEF Owed
  <2>7. t.bad = {}
    <3>1. t.bad \subseteq Fields
      BY <2>0 DEF Files
    <3> QED BY <2>3, <2>4, <2>5, <2>6, <3>1, FieldsAre
  <2> QED BY <2>2, <2>7 DEF Sound
<1> QED BY <1>1, ApplyCorrect, PTL

-----------------------------------------------------------------------------
(* h5patch: a run that writes collects the reviewed plan. *)

LEMMA SameSetField ==
  ASSUME NEW f, NEW t, NEW x, x \in t.bad <=> x \in f.bad
  PROVE  SetField(t, x) = SetField(f, x)
<1>1. {x} \cap t.bad = {x} \cap f.bad
  OBVIOUS
<1> QED BY <1>1 DEF SetField

LEMMA SameReseal ==
  ASSUME NEW f, NEW t, NEW s, NEW body, t.sum[s] = f.sum[s]
  PROVE  Reseal(t, s, body) = Reseal(f, s, body)
  BY DEF Reseal

\* Outside the two stages that only collect, the body as it is now is the body that a plan
\* computes hypothetically.
LEMMA SameBody ==
  ASSUME NEW f \in Files, NEW t \in Files, NEW c \in Seq(Action), NEW n \in 0..13,
         n \notin {5, 6}, RunInv(f, t, c, <<>>, n), NEW s \in Structures
  PROVE  Body(t, s) = Body(f, s) \ Planned(c)
<1>1. t.bad = f.bad \ Planned(c)
  BY Settled
<1> QED BY <1>1 DEF Body

\* A B-tree total is not repaired alone: true when its checksum was not already the right one.
TotalSealed(c, n) == n >= 11 /\ "total" \in Planned(c) => "bthd" \in Planned(c)

\* What a stage adds with earlier repairs written is what it adds to a plan.
LEMMA SameStage ==
  ASSUME NEW f \in Files, NEW t \in Files, NEW c \in Seq(Action), NEW n \in 1..13,
         RunInv(f, t, c, <<>>, n - 1), SignatureIntact(f), TotalSealed(c, n - 1)
  PROVE  Stage(Stages[n], t, f, c, TRUE) = Stage(Stages[n], f, f, c, FALSE)
<1> DEFINE A == Planned(c)  m == n - 1
<1>0. m \in 0..13 /\ RunInv(f, t, c, <<>>, m) /\ n = m + 1
  OBVIOUS
<1> HIDE DEF m
<1>1. /\ \A s \in Structures : s \notin A => t.sum[s] = f.sum[s]
      /\ \A x \in Fields : x \notin A => (x \in t.bad <=> x \in f.bad)
      /\ t.bad \subseteq f.bad /\ t.simple = f.simple
      /\ m = 0 => t = f
  BY <1>0, Settled
<1>2. /\ m <= 1 => A \subseteq {"signature"}
      /\ m <= 2 => A \subseteq {"signature", "base"}
      /\ m <= 3 => A \subseteq {"signature", "base", "flags"}
      /\ m <= 4 => A \subseteq {"signature", "base", "flags", "super"}
      /\ m <= 5 => A \subseteq {"signature", "base", "flags", "super", "element"}
      /\ m <= 6 => "header" \notin A
      /\ m <= 8 => A \cap {"sections", "fshd", "total", "bthd"} = {}
      /\ m <= 9 => A \cap {"total", "bthd"} = {}
      /\ m <= 10 => "bthd" \notin A
  BY <1>0, EarlyActions
<1>3. Counted(f, t, A, {}, m) /\ Reasons(f, t, A)
  BY <1>0, Between
<1>4. ASSUME m \notin {5, 6}, NEW s \in Structures
      PROVE  /\ Body(t, s) = Body(f, s) \ A
             /\ A \cap FieldsOf[s] = {} => Body(t, s) = Body(f, s)
  <2>1. Body(t, s) = Body(f, s) \ A
    BY <1>0, <1>4, SameBody
  <2> QED BY <2>1 DEF Body
<1>5. SuperReadable(t, f) <=> SuperReadable(f, f)
  BY <1>1 DEF SuperReadable, SignatureIntact, Locatable
<1>6. /\ "signature" \in Fields /\ "base" \in Fields /\ "flags" \in Fields /\ "element" \in Fields
      /\ "filter" \in Fields /\ "sections" \in Fields /\ "total" \in Fields
      /\ "super" \in Structures /\ "header" \in Structures /\ "fshd" \in Structures
      /\ "bthd" \in Structures
      /\ FieldsOf["header"] = {"element", "filter"} /\ FieldsOf["fshd"] = {"sections"}
      /\ FieldsOf["bthd"] = {"total"}
      /\ f.simple \in BOOLEAN /\ f.complete \in BOOLEAN /\ Reachable(f) \in BOOLEAN
  BY FieldsAre DEF Structures, Files, Reachable
<1> HIDE DEF A
<1>h. m <= 6 => /\ t.sum["header"] = f.sum["header"] /\ Body(t, "header") = Body(f, "header")
                /\ (Sealed(t, "header") <=> Sealed(f, "header"))
  BY <1>1, <1>2, <1>3, <1>6 DEF Counted, Sealed
<1>11. CASE n = 1
  <2>1. t = f
    BY <1>0, <1>1, <1>11
  <2> QED BY <1>11, <2>1, StagesAre DEF Stage
<1>12. CASE n = 2
  <2>1. "base" \in t.bad <=> "base" \in f.bad
    BY <1>0, <1>1, <1>2, <1>6, <1>12
  <2>2. SuperBase(t, f) = SuperBase(f, f)
    BY <1>5, <2>1, SameSetField DEF SuperBase, Field
  <2> QED BY <1>12, <2>2, StagesAre DEF Stage
<1>13. CASE n = 3
  <2>1. "flags" \in t.bad <=> "flags" \in f.bad
    BY <1>0, <1>1, <1>2, <1>6, <1>13
  <2>2. SuperFlags(t, f) = SuperFlags(f, f)
    BY <1>5, <2>1, SameSetField DEF SuperFlags, Field
  <2> QED BY <1>13, <2>2, StagesAre DEF Stage
<1>14. CASE n = 4
  <2>1. t.sum["super"] = f.sum["super"]
    BY <1>0, <1>1, <1>2, <1>6, <1>14
  <2>m. m = 3 /\ m \notin {5, 6}
    BY <1>0, <1>14
  <2>2. BodyAfter(t, "super", c, TRUE) = BodyAfter(f, "super", c, FALSE)
    BY <1>4, <1>6, <2>m DEF BodyAfter, A
  <2> DEFINE x == BodyAfter(t, "super", c, TRUE)  y == BodyAfter(f, "super", c, FALSE)
  <2>a. SuperChecksum(t, f, c, TRUE) = IF SuperReadable(t, f) THEN Reseal(t, "super", x) ELSE <<>>
    BY DEF SuperChecksum
  <2>b. SuperChecksum(f, f, c, FALSE) = IF SuperReadable(f, f) THEN Reseal(f, "super", y) ELSE <<>>
    BY DEF SuperChecksum
  <2>c. x = y
    BY <2>2
  <2> HIDE DEF x, y
  <2>d. Reseal(t, "super", x) = Reseal(f, "super", y)
    BY <2>1, <2>c, SameReseal
  <2>3. SuperChecksum(t, f, c, TRUE) = SuperChecksum(f, f, c, FALSE)
    <3>1. CASE SuperReadable(f, f)
      <4>1. SuperChecksum(t, f, c, TRUE) = Reseal(t, "super", x)
        BY <1>5, <2>a, <3>1
      <4>2. SuperChecksum(f, f, c, FALSE) = Reseal(f, "super", y)
        BY <2>b, <3>1
      <4> QED BY <2>d, <4>1, <4>2
    <3>2. CASE ~SuperReadable(f, f)
      <4>1. SuperChecksum(t, f, c, TRUE) = <<>>
        BY <1>5, <2>a, <3>2
      <4>2. SuperChecksum(f, f, c, FALSE) = <<>>
        BY <2>b, <3>2
      <4> QED BY <4>1, <4>2
    <3> QED BY <3>1, <3>2
  <2> QED BY <1>14, <2>3, StagesAre DEF Stage
<1>15. CASE n = 5
  <2>1. "element" \in t.bad <=> "element" \in f.bad
    BY <1>0, <1>1, <1>2, <1>6, <1>15
  <2>2. ChunkLayout(t, f) = ChunkLayout(f, f)
    BY <1>1, <2>1, SameSetField DEF ChunkLayout, Field
  <2> QED BY <1>15, <2>2, StagesAre DEF Stage
<1>16. CASE n = 6
  <2>1. "filter" \in t.bad <=> "filter" \in f.bad
    BY <1>0, <1>1, <1>2, <1>6, <1>16
  <2>2. Sealed(t, "header") <=> Sealed(f, "header")
    BY <1>0, <1>h, <1>16 DEF Sealed
  <2>3. FilterParameters(t, f) = FilterParameters(f, f)
    BY <2>1, <2>2, SameSetField DEF FilterParameters, Field
  <2> QED BY <1>16, <2>3, StagesAre DEF Stage
<1>17. CASE n = 7
  <2>1. t.sum["header"] = f.sum["header"] /\ Body(t, "header") = Body(f, "header")
    BY <1>0, <1>h, <1>17
  <2> DEFINE x == BodyAfter(t, "header", c, FALSE)  y == BodyAfter(f, "header", c, FALSE)
  <2>a. FinalizeSemantic(t, c) = IF Semantic(c) = <<>> THEN <<>> ELSE Reseal(t, "header", x)
    BY DEF FinalizeSemantic
  <2>b. FinalizeSemantic(f, c) = IF Semantic(c) = <<>> THEN <<>> ELSE Reseal(f, "header", y)
    BY DEF FinalizeSemantic
  <2>c. x = y
    BY <2>1 DEF BodyAfter
  <2> HIDE DEF x, y
  <2>d. Reseal(t, "header", x) = Reseal(f, "header", y)
    BY <2>1, <2>c, SameReseal
  <2>2. FinalizeSemantic(t, c) = FinalizeSemantic(f, c)
    BY <2>a, <2>b, <2>d
  <2> QED BY <1>17, <2>2, StagesAre DEF Stage
<1>18. CASE n = 8
  <2>1. ASSUME Semantic(c) = <<>>, "header" \notin A
        PROVE  Reseal(t, "header", Body(t, "header")) = Reseal(f, "header", Body(f, "header"))
    <3>1. A \cap {"element", "filter"} = {}
      BY <2>1, SemanticIs DEF A
    <3>m. m = 7 /\ m \notin {5, 6}
      BY <1>0, <1>18
    <3>2. Body(t, "header") = Body(f, "header")
      BY <1>4, <1>6, <3>1, <3>m
    <3>3. t.sum["header"] = f.sum["header"]
      BY <1>1, <1>6, <2>1
    <3> QED BY <3>2, <3>3, SameReseal
  <2>2. HeaderChecksum(t, f, c) = HeaderChecksum(f, f, c)
    BY <2>1 DEF HeaderChecksum, A
  <2> QED BY <1>18, <2>2, StagesAre DEF Stage
<1>19. CASE n = 9
  <2>1. "sections" \notin A /\ "fshd" \notin A
    BY <1>0, <1>2, <1>19
  <2>m. m = 8 /\ m \notin {5, 6}
    BY <1>0, <1>19
  <2>2. /\ "sections" \in t.bad <=> "sections" \in f.bad
        /\ t.sum["fshd"] = f.sum["fshd"] /\ Body(t, "fshd") = Body(f, "fshd")
    <3>1. "sections" \in t.bad <=> "sections" \in f.bad
      BY <1>1, <1>6, <2>1
    <3>2. t.sum["fshd"] = f.sum["fshd"]
      BY <1>1, <1>6, <2>1
    <3>3. Body(t, "fshd") = Body(f, "fshd")
      BY <1>4, <1>6, <2>1, <2>m
    <3> QED BY <3>1, <3>2, <3>3
  <2>3. /\ SetField(t, "sections") = SetField(f, "sections")
        /\ Reseal(t, "fshd", {}) = Reseal(f, "fshd", {})
    BY <2>2, SameReseal, SameSetField
  <2>4. Sealed(t, "fshd") <=> Sealed(f, "fshd")
    BY <2>2 DEF Sealed
  <2>5. FreeSpaceCount(t, f) = FreeSpaceCount(f, f)
    BY <2>2, <2>3, <2>4 DEF FreeSpaceCount
  <2> QED BY <1>19, <2>5, StagesAre DEF Stage
<1>20. CASE n = 10
  <2>1. "total" \in t.bad <=> "total" \in f.bad
    BY <1>0, <1>1, <1>2, <1>6, <1>20
  <2>2. TreeTotal(t, f) = TreeTotal(f, f)
    BY <2>1, SameSetField DEF TreeTotal, Field
  <2> QED BY <1>20, <2>2, StagesAre DEF Stage
<1>21. CASE n = 11
  <2>1. t.sum["bthd"] = f.sum["bthd"]
    BY <1>0, <1>1, <1>2, <1>6, <1>21
  <2>m. m = 10 /\ m \notin {5, 6}
    BY <1>0, <1>21
  <2>2. BodyAfter(t, "bthd", c, TRUE) = BodyAfter(f, "bthd", c, FALSE)
    BY <1>4, <1>6, <2>m DEF BodyAfter, A
  <2> DEFINE x == BodyAfter(t, "bthd", c, TRUE)  y == BodyAfter(f, "bthd", c, FALSE)
  <2>a. TreeChecksum(t, f, c, TRUE) = IF Reachable(f) THEN Reseal(t, "bthd", x) ELSE <<>>
    BY DEF TreeChecksum
  <2>b. TreeChecksum(f, f, c, FALSE) = IF Reachable(f) THEN Reseal(f, "bthd", y) ELSE <<>>
    BY DEF TreeChecksum
  <2>c. x = y
    BY <2>2
  <2> HIDE DEF x, y
  <2>d. Reseal(t, "bthd", x) = Reseal(f, "bthd", y)
    BY <2>1, <2>c, SameReseal
  <2>3. TreeChecksum(t, f, c, TRUE) = TreeChecksum(f, f, c, FALSE)
    <3>1. CASE Reachable(f)
      <4>1. TreeChecksum(t, f, c, TRUE) = Reseal(t, "bthd", x)
        BY <2>a, <3>1
      <4>2. TreeChecksum(f, f, c, FALSE) = Reseal(f, "bthd", y)
        BY <2>b, <3>1
      <4> QED BY <2>d, <4>1, <4>2
    <3>2. CASE ~Reachable(f)
      <4>1. TreeChecksum(t, f, c, TRUE) = <<>>
        BY <2>a, <3>2
      <4>2. TreeChecksum(f, f, c, FALSE) = <<>>
        BY <2>b, <3>2
      <4> QED BY <4>1, <4>2
    <3> QED BY <3>1, <3>2
  <2> QED BY <1>21, <2>3, StagesAre DEF Stage
<1>r. ASSUME m \in {11, 12}, NEW s \in {"fshd", "bthd"}
      PROVE  ReachedChecksum(t, f, c, s) = ReachedChecksum(f, f, c, s)
  <2>1. ASSUME s \notin A
        PROVE  t.sum[s] = f.sum[s] /\ Body(t, s) = Body(f, s)
    <3>1. A \cap FieldsOf[s] = {}
      <4>1. "sections" \in A => "fshd" \in A
        BY <1>3 DEF Reasons
      <4>2. "total" \in A => "bthd" \in A
        BY <1>0, <1>r DEF TotalSealed, A, m
      <4> QED BY <1>6, <2>1, <4>1, <4>2
    <3>2. m \notin {5, 6} /\ s \in Structures
      BY <1>r, <1>6
    <3> QED BY <1>1, <1>4, <2>1, <3>1, <3>2
  <2>2. CASE s \in A
    BY <2>2 DEF ReachedChecksum, A
  <2>3. CASE s \notin A
    BY <2>1, <2>3, SameReseal DEF ReachedChecksum
  <2> QED BY <2>2, <2>3
<1>22. CASE n = 12
  <2>1. m \in {11, 12}
    BY <1>0, <1>22
  <2>2. ReachedChecksum(t, f, c, "fshd") = ReachedChecksum(f, f, c, "fshd")
    BY <1>r, <2>1
  <2> QED BY <1>22, <2>2, StagesAre DEF Stage
<1>23. CASE n = 13
  <2>1. m \in {11, 12}
    BY <1>0, <1>23
  <2>2. ReachedChecksum(t, f, c, "bthd") = ReachedChecksum(f, f, c, "bthd")
    BY <1>r, <2>1
  <2> QED BY <1>23, <2>2, StagesAre DEF Stage
<1>24. \/ n = 1 \/ n = 2 \/ n = 3 \/ n = 4 \/ n = 5 \/ n = 6 \/ n = 7 \/ n = 8 \/ n = 9
       \/ n = 10 \/ n = 11 \/ n = 12 \/ n = 13
  OBVIOUS
<1> QED BY <1>11, <1>12, <1>13, <1>14, <1>15, <1>16, <1>17, <1>18, <1>19, <1>20, <1>21, <1>22,
           <1>23, <1>24

LEMMA TotalSealedOn ==
  ASSUME NEW f \in Files, NEW t \in Files, NEW c \in Seq(Action), NEW n \in 1..13,
         RunInv(f, t, c, <<>>, n - 1), ~StaleTotal(f), TotalSealed(c, n - 1)
  PROVE  TotalSealed(c \o Stage(Stages[n], t, f, c, TRUE), n)
<1> DEFINE A == Planned(c)  d == Stage(Stages[n], t, f, c, TRUE)  B == Planned(d)  m == n - 1
<1>0. m \in 0..13 /\ RunInv(f, t, c, <<>>, m) /\ n = m + 1
  OBVIOUS
<1> HIDE DEF m
<1>1. d \in Seq(Action)
  BY StageType
<1>2. Planned(c \o d) = A \cup B
  BY <1>1, PlannedConcat
<1>s. "fshd" \in Structures /\ "bthd" \in Structures /\ "total" \in Fields /\ "total" \notin Structures
  BY FieldsAre DEF Structures
<1>3. CASE n < 11
  BY <1>3 DEF TotalSealed
<1>4. CASE n = 11
  <2> SUFFICES ASSUME "total" \in A \cup B PROVE "bthd" \in A \cup B
    BY <1>2 DEF TotalSealed
  <2>0. m = 10 /\ m \notin {5, 6}
    BY <1>0, <1>4
  <2>1. d = TreeChecksum(t, f, c, TRUE)
    BY <1>4, StagesAre DEF Stage
  <2>2. Body(t, "bthd") \in SUBSET Fields
    BY <1>s, BodyType
  <2>3. d = (IF Reachable(f) THEN Reseal(t, "bthd", Body(t, "bthd")) ELSE <<>>)
    BY <2>1 DEF TreeChecksum, BodyAfter
  <2> HIDE DEF d
  <2>4. B \subseteq {"bthd"}
    BY <1>s, <2>2, <2>3, ResealIs, PlannedNone
  <2>5. "total" \in A
    BY <2>4
  <2>6. Reasons(f, t, A) /\ Counted(f, t, A, {}, m)
    BY <1>0, Between
  <2>7. Reachable(f) /\ "total" \in f.bad
    BY <1>s, <2>5, <2>6 DEF Reasons, Counted
  <2>8. "total" \notin t.bad
    BY <1>0, <2>0, <2>5, Settled
  <2>9. Body(t, "bthd") = {}
    BY <2>8, FieldsAre DEF Body
  <2>10. CASE "bthd" \in A
    BY <2>10
  <2>11. CASE "bthd" \notin A
    <3>1. t.sum["bthd"] = f.sum["bthd"]
      BY <1>0, <1>s, <2>11, Settled
    <3>2. t.sum["bthd"] # {}
      BY <2>7, <3>1 DEF StaleTotal
    <3>3. B = {"bthd"}
      BY <1>s, <2>2, <2>3, <2>7, <2>9, <3>2, ResealIs
    <3> QED BY <3>3
  <2> QED BY <2>10, <2>11
<1>5. CASE n = 12 \/ n = 13
  <2>1. \E s \in {"fshd", "bthd"} : d = ReachedChecksum(t, f, c, s)
    BY <1>5, StagesAre DEF Stage
  <2>2. PICK s \in {"fshd", "bthd"} : d = ReachedChecksum(t, f, c, s)
    BY <2>1
  <2>3. Body(t, s) \in SUBSET Fields
    BY <1>s, BodyType
  <2>4. d = <<>> \/ d = Reseal(t, s, Body(t, s))
    BY <2>2 DEF ReachedChecksum
  <2> HIDE DEF d
  <2>5. B \subseteq {s}
    BY <1>s, <2>3, <2>4, ResealIs, PlannedNone
  <2>6. "total" \in A => "bthd" \in A
    <3>1. m >= 11
      BY <1>0, <1>5
    <3> QED BY <3>1 DEF TotalSealed, m
  <2>7. "total" \notin B
    BY <2>5
  <2>8. "total" \in A \cup B => "bthd" \in A \cup B
    BY <2>6, <2>7
  <2> QED BY <1>2, <2>8 DEF TotalSealed, d
<1>6. n < 11 \/ n = 11 \/ n = 12 \/ n = 13
  OBVIOUS
<1> QED BY <1>3, <1>4, <1>5, <1>6

\* The first four stages repair the superblock only.
LEMMA SuperFirst ==
  ASSUME NEW f \in Files, NEW c \in Seq(Action), NEW n \in 1..4
  PROVE  Planned(Stage(Stages[n], f, f, c, FALSE)) \subseteq {"signature", "base", "flags", "super"}
<1>1. /\ "signature" \in Fields /\ "base" \in Fields /\ "flags" \in Fields
      /\ "super" \in Structures
  BY FieldsAre DEF Structures
<1>2. ASSUME NEW cond \in BOOLEAN, NEW x \in {"signature", "base", "flags"}
      PROVE  Planned(Field(cond, f, x)) \subseteq {x}
  BY <1>1, <1>2, FieldIs
<1>3. CASE n = 1
  <2>1. Planned(Signature(f, f)) \subseteq {"signature"}
    BY <1>2 DEF Signature
  <2> QED BY <1>3, <2>1, StagesAre DEF Stage
<1>4. CASE n = 2
  <2>1. Planned(SuperBase(f, f)) \subseteq {"base"}
    BY <1>2 DEF SuperBase
  <2> QED BY <1>4, <2>1, StagesAre DEF Stage
<1>5. CASE n = 3
  <2>1. Planned(SuperFlags(f, f)) \subseteq {"flags"}
    BY <1>2 DEF SuperFlags, SuperReadable
  <2> QED BY <1>5, <2>1, StagesAre DEF Stage
<1>6. CASE n = 4
  <2> DEFINE b == BodyAfter(f, "super", c, FALSE)
  <2>1. b \in SUBSET Fields
    BY <1>1, BodyType DEF BodyAfter
  <2>2. SuperChecksum(f, f, c, FALSE) = Reseal(f, "super", b) \/ SuperChecksum(f, f, c, FALSE) = <<>>
    BY DEF SuperChecksum
  <2> HIDE DEF b
  <2>3. Planned(Reseal(f, "super", b)) \subseteq {"super"}
    BY <1>1, <2>1, ResealIs
  <2>4. Planned(SuperChecksum(f, f, c, FALSE)) \subseteq {"super"}
    BY <2>2, <2>3, PlannedNone
  <2> QED BY <1>6, <2>4, StagesAre DEF Stage
<1>7. n = 1 \/ n = 2 \/ n = 3 \/ n = 4
  OBVIOUS
<1> QED BY <1>3, <1>4, <1>5, <1>6, <1>7

LEMMA ChainOfSuper ==
  ASSUME NEW f \in Files
  PROVE  Planned(Chain(f)[4]) \cap {"element", "filter"} = {}
<1> DEFINE h == Chain(f)  P(n) == Planned(h[n]) \cap {"element", "filter"} = {}
<1>1. /\ h[0] = <<>>
      /\ \A n \in 1..13 : h[n] = h[n - 1] \o Stage(Stages[n], f, f, h[n - 1], FALSE)
      /\ \A n \in 0..13 : h[n] \in Seq(Action)
  BY ChainIs, ChainType
<1> HIDE DEF h
<1>2. ASSUME NEW n \in 1..4, NEW k \in 0..3, k = n - 1, P(k) PROVE P(n)
  <2> DEFINE d == Stage(Stages[n], f, f, h[k], FALSE)
  <2>0. n \in 1..13 /\ n - 1 = k /\ k \in 0..13
    BY <1>2
  <2>1. h[k] \in Seq(Action) /\ h[n] = h[k] \o d
    BY <1>1, <2>0
  <2>2. d \in Seq(Action)
    <3>1. n \in 1..13
      OBVIOUS
    <3> QED BY <2>1, <3>1, StageType
  <2>3. Planned(d) \subseteq {"signature", "base", "flags", "super"}
    BY <2>1, SuperFirst
  <2> HIDE DEF d
  <2>4. Planned(h[n]) = Planned(h[k]) \cup Planned(d)
    BY <2>1, <2>2, PlannedConcat
  <2> QED BY <1>2, <2>3, <2>4
<1>3. P(0)
  BY <1>1, PlannedNone
<1> HIDE DEF P
<1>4. P(1)
  BY <1>2, <1>3
<1>5. P(2)
  BY <1>2, <1>4
<1>6. P(3)
  BY <1>2, <1>5
<1>7. P(4)
  BY <1>2, <1>6
<1> QED BY <1>7 DEF P, h

\* The one action at x, wherever it stands.
LEMMA ActionOnOnly ==
  ASSUME NEW c \in Seq(Action), NEW k \in DOMAIN c, NEW x, c[k].at = x,
         \A i \in DOMAIN c : c[i].at = x => i = k
  PROVE  ActionOn(c, x) = <<c[k]>>
<1>1. x \in Planned(c)
  BY DEF Planned
<1>2. (CHOOSE i \in DOMAIN c : c[i].at = x) = k
  OBVIOUS
<1> QED BY <1>1, <1>2 DEF ActionOn

LEMMA ActionOnBetween ==
  ASSUME NEW u \in Seq(Action), NEW a \in Action, NEW w \in Seq(Action),
         a.at \notin Planned(u), a.at \notin Planned(w)
  PROVE  ActionOn((u \o <<a>>) \o w, a.at) = <<a>>
<1> DEFINE c == (u \o <<a>>) \o w  k == Len(u) + 1
<1>1. /\ c \in Seq(Action) /\ Len(c) = Len(u) + 1 + Len(w) /\ Len(u) \in Nat /\ Len(w) \in Nat
      /\ c[k] = a
      /\ \A i \in 1..Len(c) : /\ i < k => i \in DOMAIN u /\ c[i] = u[i]
                              /\ i > k => (i - k) \in DOMAIN w /\ c[i] = w[i - k]
  OBVIOUS
<1>2. DOMAIN c = 1..Len(c) /\ k \in DOMAIN c
  BY <1>1
<1>3. \A i \in DOMAIN c : c[i].at = a.at => i = k
  BY <1>1, <1>2 DEF Planned
<1> HIDE DEF c, k
<1>4. ActionOn(c, a.at) = <<c[k]>>
  BY <1>1, <1>2, <1>3, ActionOnOnly
<1> QED BY <1>1, <1>4 DEF c

\* What two stages collected is what the finalizing stage finds.
LEMMA SemanticOf ==
  ASSUME NEW u \in Seq(Action), NEW e \in Seq(Action), NEW p \in Seq(Action),
         Planned(u) \cap {"element", "filter"} = {},
         e = <<>> \/ \E a \in Action : a.at = "element" /\ e = <<a>>,
         p = <<>> \/ \E a \in Action : a.at = "filter" /\ p = <<a>>
  PROVE  Semantic((u \o e) \o p) = e \o p
<1> DEFINE c == (u \o e) \o p
<1>0. <<>> \in Seq(Action) /\ (u \o e) \in Seq(Action) /\ c \in Seq(Action)
  OBVIOUS
<1>1. Planned(e) \subseteq {"element"} /\ Planned(p) \subseteq {"filter"}
  <2>1. ASSUME NEW a, NEW x, a.at = x PROVE Planned(<<a>>) \subseteq {x}
    BY <2>1, PlannedOne
  <2> QED BY <2>1, PlannedNone
<1>2. Planned(u \o e) = Planned(u) \cup Planned(e) /\ Planned(c) = Planned(u \o e) \cup Planned(p)
  <2>1. Planned(u \o e) = Planned(u) \cup Planned(e)
    BY PlannedConcat
  <2> DEFINE v == u \o e
  <2>2. v \in Seq(Action)
    OBVIOUS
  <2> HIDE DEF v
  <2>3. Planned(v \o p) = Planned(v) \cup Planned(p)
    BY <2>2, PlannedConcat
  <2> QED BY <2>1, <2>3 DEF v
<1>3. ActionOn(c, "element") = e
  <2>1. CASE e = <<>>
    <3>1. "element" \notin Planned(c)
      BY <1>1, <1>2, <2>1, PlannedNone
    <3> HIDE DEF c
    <3> QED BY <1>0, <2>1, <3>1, ActionOnIs
  <2>2. ASSUME NEW a \in Action, a.at = "element", e = <<a>> PROVE ActionOn(c, "element") = e
    <3>1. a.at \notin Planned(u) /\ a.at \notin Planned(p)
      BY <1>1, <2>2
    <3>2. ActionOn((u \o <<a>>) \o p, a.at) = <<a>>
      BY <3>1, ActionOnBetween
    <3> QED BY <2>2, <3>2
  <2> QED BY <2>1, <2>2
<1>4. ActionOn(c, "filter") = p
  <2>1. CASE p = <<>>
    <3>1. "filter" \notin Planned(c)
      BY <1>1, <1>2, <2>1, PlannedNone
    <3> HIDE DEF c
    <3> QED BY <1>0, <2>1, <3>1, ActionOnIs
  <2>2. ASSUME NEW a \in Action, a.at = "filter", p = <<a>> PROVE ActionOn(c, "filter") = p
    <3> DEFINE v == u \o e
    <3>1. a.at \notin Planned(v) /\ a.at \notin Planned(<<>>) /\ v \in Seq(Action)
      BY <1>0, <1>1, <1>2, <2>2, PlannedNone
    <3> HIDE DEF v
    <3>2. ActionOn((v \o <<a>>) \o <<>>, a.at) = <<a>>
      BY <1>0, <3>1, ActionOnBetween
    <3>3. (v \o <<a>>) \o <<>> = v \o <<a>>
      BY <3>1
    <3> QED BY <2>2, <3>2, <3>3 DEF v
  <2> QED BY <2>1, <2>2
<1> HIDE DEF c
<1>5. Semantic(c) = e \o p
  BY <1>3, <1>4 DEF Semantic
<1> QED BY <1>5 DEF c

LEMMA ConcatAssoc ==
  ASSUME NEW S, NEW u \in Seq(S), NEW v \in Seq(S), NEW w \in Seq(S)
  PROVE  (u \o v) \o w = u \o (v \o w)
  OBVIOUS

LEMMA ConcatNone ==
  ASSUME NEW S, NEW u \in Seq(S)
  PROVE  u \o <<>> = u /\ <<>> \o u = u
  OBVIOUS

LEMMA HeadMoves ==
  ASSUME NEW S, NEW u \in Seq(S), NEW q \in Seq(S), q # <<>>
  PROVE  Append(u, Head(q)) \o Tail(q) = u \o q
  OBVIOUS

\* The writes that the finalizing stage queues complete what the stages collected.
LEMMA FinalizeWrites ==
  ASSUME NEW f \in Files
  PROVE  LET h == Chain(f)  d == Stage(Stages[7], f, f, h[6], FALSE)
         IN h[4] \o (Semantic(h[6]) \o d) = h[7]
<1> DEFINE h == Chain(f)
           e == Stage(Stages[5], f, f, h[4], FALSE)  p == Stage(Stages[6], f, f, h[5], FALSE)
           d == Stage(Stages[7], f, f, h[6], FALSE)
<1>1. /\ \A n \in 1..13 : h[n] = h[n - 1] \o Stage(Stages[n], f, f, h[n - 1], FALSE)
      /\ \A n \in 0..13 : h[n] \in Seq(Action)
      /\ Planned(h[4]) \cap {"element", "filter"} = {}
  BY ChainIs, ChainType, ChainOfSuper
<1> HIDE DEF h
<1>2. h[5] = h[4] \o e /\ h[6] = h[5] \o p /\ h[7] = h[6] \o d
  <2>1. 5 - 1 = 4 /\ 6 - 1 = 5 /\ 7 - 1 = 6 /\ 5 \in 1..13 /\ 6 \in 1..13 /\ 7 \in 1..13
    OBVIOUS
  <2> QED BY <1>1, <2>1
<1>3. h[4] \in Seq(Action) /\ h[5] \in Seq(Action) /\ h[6] \in Seq(Action)
  BY <1>1
<1>4. e \in Seq(Action) /\ p \in Seq(Action) /\ d \in Seq(Action)
  <2>1. 5 \in 1..13 /\ 6 \in 1..13 /\ 7 \in 1..13 /\ FALSE \in BOOLEAN
    OBVIOUS
  <2>2. e \in Seq(Action)
    BY <1>3, <2>1, StageType
  <2>3. p \in Seq(Action)
    BY <1>3, <2>1, StageType
  <2>4. d \in Seq(Action)
    BY <1>3, <2>1, StageType
  <2> QED BY <2>2, <2>3, <2>4
<1>5. "element" \in Fields /\ "filter" \in Fields
  BY FieldsAre
<1>6. ASSUME NEW x \in {"element", "filter"}
      PROVE  SetField(f, x) \in Action /\ SetField(f, x).at = x
  BY <1>5, <1>6, SetFieldType
<1>7. e = <<>> \/ \E a \in Action : a.at = "element" /\ e = <<a>>
  <2>1. e = <<>> \/ e = <<SetField(f, "element")>>
    BY StagesAre DEF Stage, ChunkLayout, Field
  <2> HIDE DEF e
  <2> QED BY <1>6, <2>1
<1>8. p = <<>> \/ \E a \in Action : a.at = "filter" /\ p = <<a>>
  <2>1. p = <<>> \/ p = <<SetField(f, "filter")>>
    BY StagesAre DEF Stage, FilterParameters, Field
  <2> HIDE DEF p
  <2> QED BY <1>6, <2>1
<1> DEFINE u == h[4]  s == Semantic(h[6])
<1> HIDE DEF e, p, d
<1>9. s = e \o p
  <2>1. u \in Seq(Action) /\ Planned(u) \cap {"element", "filter"} = {}
    BY <1>1, <1>3
  <2>2. h[6] = (u \o e) \o p
    BY <1>2
  <2> HIDE DEF u
  <2> QED BY <1>4, <1>7, <1>8, <2>1, <2>2, SemanticOf
<1>10. u \in Seq(Action)
  BY <1>3
<1>11. h[7] = ((u \o e) \o p) \o d
  BY <1>2
<1> HIDE DEF u, s
<1>12. ((u \o e) \o p) \o d = u \o ((e \o p) \o d)
  BY <1>4, <1>10
<1> QED BY <1>9, <1>11, <1>12 DEF u, s, d, h

\* The writes queued once n stages are over: the two stages that only collect queue none.
Sent(f, n) == Chain(f)[IF n \in {5, 6} THEN 4 ELSE n]

\* The run collects the reviewed plan, and the writes made and about to be made are its
\* actions so far, those of the header's fields once the finalizing stage has queued them.
Follows ==
  seen = approved /\ SignatureIntact(seen) /\ ~StaleTotal(seen) =>
    /\ pc = "applying" =>
         /\ acts = Chain(seen)[stage]
         /\ written \o queue = Sent(seen, stage)
         /\ TotalSealed(acts, stage)
    /\ pc = "verify" \/ Finished => written = plan /\ acts = plan

\* The run c of a file f has got as far as k stages, with the writes w queued.
OnCourse(f, c, w, k) ==
  /\ SignatureIntact(f) /\ ~StaleTotal(f)
  /\ c = Chain(f)[k] /\ w = Sent(f, k) /\ TotalSealed(c, k)

LEMMA CollectFollows ==
  ASSUME NEW f \in Files, NEW t \in Files, NEW w \in Seq(Action), NEW n \in 1..13,
         NEW k \in 0..12, n = k + 1, NEW c, RunInv(f, t, c, <<>>, k), OnCourse(f, c, w, k),
         NEW d, d = Stage(Stages[n], t, f, c, TRUE), NEW q, q = Writes(Stages[n], d, c)
  PROVE  OnCourse(f, c \o d, w \o q, n)
<1> DEFINE h == Chain(f)
<1>0. /\ k \in 0..12 /\ n = k + 1 /\ k = n - 1 /\ c = h[k] /\ c \in Seq(Action)
      /\ RunInv(f, t, c, <<>>, k) /\ TotalSealed(c, k)
      /\ w = h[IF k \in {5, 6} THEN 4 ELSE k] /\ SignatureIntact(f) /\ ~StaleTotal(f)
  <2>1. k = n - 1 /\ k \in 0..13
    OBVIOUS
  <2>2. h[k] \in Seq(Action)
    BY <2>1, ChainType
  <2> QED BY <2>1, <2>2 DEF Sent, OnCourse
<1>1. d = Stage(Stages[n], f, f, c, FALSE)
  BY <1>0, SameStage
<1>2. c \o d = h[n]
  <2>1. h[n] = h[n - 1] \o Stage(Stages[n], f, f, h[n - 1], FALSE)
    BY ChainIs
  <2> QED BY <1>0, <1>1, <2>1
<1>3. TotalSealed(c \o d, n)
  BY <1>0, TotalSealedOn
<1>4. w \o q = h[IF n \in {5, 6} THEN 4 ELSE n]
  <2>1. CASE n \in {5, 6}
    <3>1. Stages[n] \in {"element", "filter"}
      BY <2>1, StagesAre
    <3>2. q = <<>>
      BY <3>1 DEF Writes
    <3>3. w = h[4]
      <4>1. (n = 5 /\ k = 4) \/ (n = 6 /\ k = 5)
        BY <1>0, <2>1
      <4> HIDE DEF h
      <4> QED BY <1>0, <4>1
    <3> HIDE DEF h
    <3> QED BY <2>1, <3>2, <3>3, ConcatNone
  <2>2. CASE n = 7
    <3>1. k = 6
      BY <1>0, <2>2
    <3>2. c = h[6] /\ w = h[4]
      <4> HIDE DEF h
      <4> QED BY <1>0, <3>1
    <3>3. q = Semantic(h[6]) \o d
      <4>1. Stages[n] = "finalize"
        BY <2>2, StagesAre
      <4> HIDE DEF h
      <4> QED BY <3>2, <4>1 DEF Writes
    <3>4. d = Stage(Stages[7], f, f, h[6], FALSE)
      <4> HIDE DEF h
      <4> QED BY <1>1, <2>2, <3>2
    <3>5. h[4] \o (Semantic(h[6]) \o Stage(Stages[7], f, f, h[6], FALSE)) = h[7]
      BY FinalizeWrites
    <3> HIDE DEF h
    <3>6. h[4] \o (Semantic(h[6]) \o d) = h[7]
      BY <3>4, <3>5
    <3>7. w \o q = h[7]
      BY <3>2, <3>3, <3>6
    <3>8. (IF n \in {5, 6} THEN 4 ELSE n) = 7
      BY <2>2
    <3> QED BY <3>7, <3>8
  <2>3. CASE n \notin {5, 6, 7}
    <3>1. Stages[n] \notin {"element", "filter", "finalize"}
      <4>1. \/ n = 1 \/ n = 2 \/ n = 3 \/ n = 4 \/ n = 8 \/ n = 9 \/ n = 10 \/ n = 11 \/ n = 12
            \/ n = 13
        BY <2>3
      <4> QED BY <4>1, StagesAre
    <3>2. q = d
      BY <3>1 DEF Writes
    <3>3. k \notin {5, 6}
      BY <1>0, <2>3
    <3> HIDE DEF h
    <3>4. w = c
      BY <1>0, <3>3
    <3> QED BY <1>2, <2>3, <3>2, <3>4
  <2> QED BY <2>1, <2>2, <2>3
<1> QED BY <1>0, <1>2, <1>3, <1>4 DEF Sent, OnCourse

LEMMA FollowStep ==
  PatchTypes /\ ApplyInv /\ Follows /\ [PatchNext]_patchVars => Follows'
<1> SUFFICES ASSUME PatchTypes, ApplyInv, Follows, [PatchNext]_patchVars PROVE Follows'
  OBVIOUS
<1>0. /\ seen \in Files /\ disk[Target] \in Files /\ acts \in Seq(Action)
      /\ queue \in Seq(Action) /\ written \in Seq(Action) /\ stage \in 0..13
  <2>1. Target \in Names
    BY ModeIs DEF PatchTypes, Command, Target
  <2> QED BY <2>1 DEF PatchTypes, FileTypes, ListTypes, CountTypes, Names
<1>1. CASE MakePlan
  BY <1>1 DEF MakePlan, Follows, Finished
<1>2. CASE Compare
  BY <1>2 DEF Compare, Follows, Finished, EndApply
<1>3. CASE ChooseTarget
  BY <1>3 DEF ChooseTarget, Follows, Finished, EndApply, run
<1>4. CASE BeginCopy
  BY <1>4 DEF BeginCopy, Follows, Finished, run
<1>5. CASE EndCopy
  BY <1>5 DEF EndCopy, Follows, Finished, run
<1>6. CASE Analyse
  <2>1. /\ pc' = "applying" /\ acts' = <<>> /\ written' = <<>> /\ queue' = <<>> /\ stage' = 0
    BY <1>6 DEF Analyse, ApplyInv
  <2>2. Chain(seen')[0] = <<>>
    BY ChainIs
  <2>3. written' \o queue' = <<>> /\ ~(0 >= 11) /\ 0 \notin {5, 6}
    BY <2>1
  <2>4. written' \o queue' = Sent(seen', stage')
    BY <2>1, <2>2, <2>3 DEF Sent
  <2>5. TotalSealed(acts', stage')
    BY <2>1, <2>3 DEF TotalSealed
  <2> QED BY <2>1, <2>2, <2>4, <2>5 DEF Follows, Finished
<1>7. CASE Collect
  <2> DEFINE n == stage + 1  d == Stage(Stages[n], disk[Target], seen, acts, TRUE)
             q == Writes(Stages[n], d, acts)
  <2>1. /\ pc = "applying" /\ pc' = pc /\ queue = <<>> /\ stage < 13 /\ stage' = n
        /\ acts' = acts \o d /\ queue' = q
        /\ UNCHANGED <<disk, seen, options, approved, written, plan>>
    BY <1>7, StagesAre DEF Collect
  <2>2. n \in 1..13 /\ stage \in 0..12 /\ n = stage + 1
    BY <1>0, <2>1
  <2>3. RunInv(seen, AsSeen(disk[Target], seen), acts, <<>>, stage)
    BY <2>1 DEF ApplyInv
  <2>8. d = Stage(Stages[n], AsSeen(disk[Target], seen), seen, acts, TRUE)
    <3> HIDE DEF n
    <3> QED BY <1>0, <2>2, AsSeenStage
  <2> SUFFICES ASSUME seen = approved, SignatureIntact(seen), ~StaleTotal(seen)
               PROVE  OnCourse(seen, acts', written \o queue', n)
    BY <2>1 DEF Follows, Finished, OnCourse
  <2>4. OnCourse(seen, acts, written, stage)
    <3>1. written \o queue = written
      BY <1>0, <2>1, ConcatNone
    <3> QED BY <2>1, <3>1 DEF Follows, OnCourse
  <2> HIDE DEF n
  <2> DEFINE t == AsSeen(disk[Target], seen)
  <2>5. t \in Files /\ d = Stage(Stages[n], t, seen, acts, TRUE) /\ q = Writes(Stages[n], d, acts)
    <3>1. t \in Files
      BY <1>0, AsSeenIs
    <3> QED BY <2>8, <3>1
  <2>6. RunInv(seen, t, acts, <<>>, stage)
    BY <2>3
  <2> HIDE DEF t, d, q
  <2>7. OnCourse(seen, acts \o d, written \o q, n)
    BY <1>0, <2>2, <2>4, <2>5, <2>6, CollectFollows
  <2> QED BY <2>1, <2>7
<1>8. CASE WriteNext
  <2>1. /\ pc = "applying" /\ pc' = pc /\ queue # <<>> /\ queue' = Tail(queue)
        /\ written' = Append(written, Head(queue))
        /\ UNCHANGED <<seen, approved, options, acts, stage, plan>>
    BY <1>8 DEF WriteNext
  <2>2. written' \o queue' = written \o queue
    BY <1>0, <2>1, HeadMoves
  <2> QED BY <2>1, <2>2 DEF Follows, Finished
<1>9. CASE Close
  <2>1. /\ pc = "applying" /\ queue = <<>> /\ stage = 13 /\ pc' = "verify"
        /\ UNCHANGED <<seen, approved, acts, queue, stage, written, plan>>
    BY <1>9, StagesAre DEF Close, run
  <2>2. written \o queue = written /\ 13 \notin {5, 6}
    BY <1>0, <2>1, ConcatNone
  <2>3. plan = Plan(approved)
    BY <2>1 DEF PatchTypes, Command
  <2>4. seen = approved => plan = Chain(seen)[13]
    BY <2>3, PlanIsChain
  <2> QED BY <2>1, <2>2, <2>4 DEF Follows, Finished, Sent
<1>10. CASE Verify
  BY <1>10 DEF Verify, Follows, Finished, EndApply, run
<1>11. CASE KillApply
  BY <1>11 DEF KillApply, Follows, Finished
<1>12. CASE Touch
  BY <1>12 DEF Touch, Follows, Finished, run
<1>13. CASE Again
  BY <1>13 DEF Again, Follows, Finished
<1>14. CASE LeaveIt \/ UNCHANGED patchVars
  BY <1>14 DEF LeaveIt, patchVars, Follows, Finished
<1> QED BY <1>1, <1>2, <1>3, <1>4, <1>5, <1>6, <1>7, <1>8, <1>9, <1>10, <1>11, <1>12, <1>13,
           <1>14 DEF PatchNext

LEMMA FollowsCorrect == PatchSpec => [](PatchTypes /\ ApplyInv /\ Follows)
<1>1. PatchInit => Follows
  BY DEF PatchInit, Follows, Finished
<1> QED BY <1>1, FollowStep, ApplyCorrect, PTL DEF PatchSpec

\* With the signature in place and no stale B-tree total, apply makes exactly the reviewed
\* writes in the reviewed order: what one mode hashes after real writes is what the other
\* hashes over hypothetical bytes.
THEOREM AppliesThePlanCorrect == PatchSpec => []AppliesThePlan
<1>1. PatchTypes /\ ApplyInv /\ Follows => AppliesThePlan
  <2> SUFFICES ASSUME PatchTypes, Follows, Writing, seen = approved, SignatureIntact(approved),
                      ~StaleTotal(approved)
               PROVE  IsPrefix(written, plan) /\ (Finished => written = plan /\ acts = plan)
    BY DEF AppliesThePlan, Undisturbed
  <2>0. /\ seen \in Files /\ queue \in Seq(Action) /\ written \in Seq(Action)
        /\ plan \in Seq(Action) /\ stage \in 0..13
    BY DEF PatchTypes, FileTypes, ListTypes, CountTypes
  <2>1. CASE pc = "applying"
    <3> DEFINE m == IF stage \in {5, 6} THEN 4 ELSE stage
    <3>1. m \in 0..13
      BY <2>0
    <3>2. written \o queue = Chain(seen)[m]
      BY <2>1 DEF Follows, Sent
    <3>3. plan = Chain(seen)[13]
      BY <2>1, PlanIsChain DEF PatchTypes, Command
    <3> HIDE DEF m
    <3>4. PICK r \in Seq(Action) : Chain(seen)[13] = Chain(seen)[m] \o r
      BY <2>0, <3>1, ChainBegins
    <3>5. plan = (written \o queue) \o r
      BY <3>2, <3>3, <3>4
    <3>6. plan = written \o (queue \o r) /\ queue \o r \in Seq(Action)
      BY <2>0, <3>5, ConcatAssoc
    <3>7. IsPrefix(written, plan)
      BY <2>0, <3>6, ConcatIsPrefix
    <3> QED BY <2>1, <3>7 DEF Finished
  <2>2. CASE pc = "verify" \/ Finished
    <3>1. written = plan /\ acts = plan
      BY <2>2 DEF Follows
    <3>2. <<>> \in Seq(Action) /\ written \o <<>> = written
      BY <2>0, ConcatNone
    <3>3. IsPrefix(written, written)
      BY <2>0, <3>2, ConcatIsPrefix
    <3> QED BY <3>1, <3>3
  <2> QED BY <2>1, <2>2 DEF Writing
<1> QED BY <1>1, FollowsCorrect, PTL

-----------------------------------------------------------------------------
(* h5patch: rounds of plan and apply. *)

\* The checksum of s is, or is about to be, that of its body with the writes at Q made.
SumDone(t, Q, s) == s \in Q \/ t.sum[s] = Body(t, s) \ Q
Exact(t, q) ==
  \A i \in DOMAIN q : q[i].at \in Structures => q[i].new = Body(t, q[i].at) \ Planned(q)

\* What is found in f is repaired, as soon as the stage for it is over.
RepairsSignature(f, A) == Locatable(f) /\ "signature" \in f.bad => "signature" \in A
RepairsBase(f, A) == Locatable(f) /\ "base" \in f.bad => "base" \in A
RepairsFlags(f, A) == Locatable(f) /\ "flags" \in f.bad => "flags" \in A
RepairsFilter(f, A) ==
  Reachable(f) /\ f.complete /\ Sealed(f, "header") /\ "filter" \in f.bad => "filter" \in A
RepairsCount(f, A) ==
  Reachable(f) /\ f.complete /\ Sealed(f, "fshd") /\ "sections" \in f.bad => "sections" \in A
RepairsTotal(f, A) == Reachable(f) /\ "total" \in f.bad => "total" \in A
Repairs(f, A, n) ==
  /\ ~Locatable(f) => A = {}
  /\ n >= 1 => RepairsSignature(f, A)
  /\ n >= 2 => RepairsBase(f, A)
  /\ n >= 3 => RepairsFlags(f, A)
  /\ n >= 6 => RepairsFilter(f, A)
  /\ n >= 9 => RepairsCount(f, A)
  /\ n >= 10 => RepairsTotal(f, A)

\* What could be reached in f is sealed, and so is what was repaired.
SealsSuper(f, t, Q) == Locatable(f) => SumDone(t, Q, "super")
SealsHeader(f, t, Q) == Reachable(f) /\ f.walked = 2 => SumDone(t, Q, "header")
SealsTree(f, t, Q) == Reachable(f) => SumDone(t, Q, "bthd")
SealsSpace(f, t, Q) == Reachable(f) /\ f.complete => SumDone(t, Q, "fshd")
SealsMessages(t, A, Q) == A \cap {"element", "filter", "header"} # {} => SumDone(t, Q, "header")
SealsCount(t, A, Q) == A \cap {"sections", "fshd"} # {} => SumDone(t, Q, "fshd")
Seals(f, t, A, Q, n) ==
  /\ n >= 4 => SealsSuper(f, t, Q)
  /\ n >= 7 => SealsMessages(t, A, Q)
  /\ n >= 8 => SealsHeader(f, t, Q)
  /\ n >= 9 => SealsCount(t, A, Q)
  /\ n >= 11 => SealsTree(f, t, Q)
  /\ n >= 12 => SealsSpace(f, t, Q)

\* f is the file as it was analysed, t as it is now, c the actions collected in n stages,
\* q those about to be written.
Progress(f, t, c, q, n) ==
  Repairs(f, Planned(c), n) /\ Exact(t, q) /\ Seals(f, t, Planned(c), Planned(q), n)

LEMMA ProgressBegins ==
  ASSUME NEW f \in Files
  PROVE  Progress(f, f, <<>>, <<>>, 0)
<1>1. Planned(<<>>) = {} /\ DOMAIN <<>> = {}
  BY PlannedNone
<1>2. Repairs(f, {}, 0)
  BY DEF Repairs
<1>3. Seals(f, f, {}, {}, 0)
  BY DEF Seals
<1>4. Exact(f, <<>>)
  BY <1>1 DEF Exact
<1> QED BY <1>1, <1>2, <1>3, <1>4 DEF Progress

\* A write changes the body to what it was going to be.
LEMMA BodyWritten ==
  ASSUME NEW t \in Files, NEW q \in Seq(Action), q # <<>>, NEW s \in Structures
  PROVE  Body(Write(t, Head(q)), s) \ Planned(Tail(q)) = Body(t, s) \ Planned(q)
<1> DEFINE a == Head(q)  u == Write(t, a)
<1>1. a \in Action /\ Planned(q) = {a.at} \cup Planned(Tail(q))
  BY PlannedHead
<1>2. Body(t, s) \subseteq Fields /\ Fields \cap Structures = {}
  BY BodyType, FieldsAre
<1>3. /\ a.at \in Structures => u.bad = t.bad
      /\ a.at \notin Structures => u.bad = t.bad \ {a.at}
  BY <1>1, WriteType
<1> HIDE DEF a, u
<1>4. CASE a.at \in Structures
  <2>1. Body(u, s) = Body(t, s) /\ a.at \notin Body(t, s)
    BY <1>2, <1>3, <1>4 DEF Body
  <2> QED BY <2>1, <1>1 DEF a, u
<1>5. CASE a.at \notin Structures
  <2>1. Body(u, s) = Body(t, s) \ {a.at}
    BY <1>3, <1>5 DEF Body
  <2> QED BY <2>1, <1>1 DEF a, u
<1> QED BY <1>4, <1>5

LEMMA ExactWritten ==
  ASSUME NEW t \in Files, NEW q \in Seq(Action), q # <<>>, Exact(t, q)
  PROVE  Exact(Write(t, Head(q)), Tail(q))
<1> DEFINE u == Write(t, Head(q))  r == Tail(q)
<1>1. \A i \in DOMAIN r : (i + 1) \in DOMAIN q /\ r[i] = q[i + 1]
  BY PlannedHead
<1>2. \A s \in Structures : Body(u, s) \ Planned(r) = Body(t, s) \ Planned(q)
  BY BodyWritten
<1> HIDE DEF u, r
<1>3. \A i \in DOMAIN r : r[i].at \in Structures => r[i].new = Body(u, r[i].at) \ Planned(r)
  <2> SUFFICES ASSUME NEW i \in DOMAIN r, r[i].at \in Structures
               PROVE  r[i].new = Body(u, r[i].at) \ Planned(r)
    OBVIOUS
  <2> DEFINE j == i + 1
  <2>1. j \in DOMAIN q /\ r[i] = q[j]
    BY <1>1
  <2> HIDE DEF j
  <2>2. q[j].new = Body(t, q[j].at) \ Planned(q)
    BY <2>1 DEF Exact
  <2> QED BY <2>1, <2>2, <1>2
<1>4. Exact(u, r)
  BY <1>3 DEF Exact
<1> QED BY <1>4 DEF u, r

LEMMA DoneWritten ==
  ASSUME NEW t \in Files, NEW q \in Seq(Action), q # <<>>, Exact(t, q),
         NEW s \in Structures, SumDone(t, Planned(q), s)
  PROVE  SumDone(Write(t, Head(q)), Planned(Tail(q)), s)
<1> DEFINE a == Head(q)  u == Write(t, a)  r == Tail(q)
<1>1. /\ a \in Action /\ Planned(q) = {a.at} \cup Planned(r)
      /\ 1 \in DOMAIN q /\ a = q[1]
  BY PlannedHead
<1>2. Body(u, s) \ Planned(r) = Body(t, s) \ Planned(q)
  BY BodyWritten
<1>3. /\ a.at = s => u.sum[s] = a.new
      /\ a.at # s => u.sum[s] = t.sum[s]
  BY <1>1, WriteType
<1> HIDE DEF a, u, r
<1>4. CASE s \in Planned(r)
  BY <1>4 DEF SumDone, u, a, r
<1>5. CASE a.at = s
  <2>1. a.new = Body(t, s) \ Planned(q)
    BY <1>1, <1>5 DEF Exact
  <2>2. u.sum[s] = Body(u, s) \ Planned(r)
    BY <2>1, <1>2, <1>3, <1>5
  <2> QED BY <2>2 DEF SumDone, u, a, r
<1>6. CASE a.at # s /\ s \notin Planned(r)
  <2>1. t.sum[s] = Body(t, s) \ Planned(q)
    BY <1>1, <1>6 DEF SumDone
  <2>2. u.sum[s] = Body(u, s) \ Planned(r)
    BY <2>1, <1>2, <1>3, <1>6
  <2> QED BY <2>2 DEF SumDone, u, a, r
<1> QED BY <1>4, <1>5, <1>6

LEMMA ProgressWritten ==
  ASSUME NEW f \in Files, NEW t \in Files, NEW c, NEW q \in Seq(Action), q # <<>>,
         NEW n \in 0..13, Progress(f, t, c, q, n)
  PROVE  Progress(f, Write(t, Head(q)), c, Tail(q), n)
<1> DEFINE u == Write(t, Head(q))  r == Tail(q)  A == Planned(c)  Q == Planned(q)  R == Planned(r)
<1>1. Repairs(f, A, n) /\ Exact(t, q) /\ Seals(f, t, A, Q, n)
  BY DEF Progress
<1>2. Exact(u, r)
  BY <1>1, ExactWritten
<1>3. \A s \in Structures : SumDone(t, Q, s) => SumDone(u, R, s)
  BY <1>1, DoneWritten
<1>4. {"super", "header", "fshd", "bthd"} = Structures
  BY DEF Structures
<1> HIDE DEF u, r, A, Q, R
<1>5. /\ SealsSuper(f, t, Q) => SealsSuper(f, u, R)
      /\ SealsMessages(t, A, Q) => SealsMessages(u, A, R)
      /\ SealsHeader(f, t, Q) => SealsHeader(f, u, R)
      /\ SealsCount(t, A, Q) => SealsCount(u, A, R)
      /\ SealsTree(f, t, Q) => SealsTree(f, u, R)
      /\ SealsSpace(f, t, Q) => SealsSpace(f, u, R)
  BY <1>3, <1>4 DEF SealsSuper, SealsMessages, SealsHeader, SealsCount, SealsTree, SealsSpace
<1>6. Seals(f, u, A, R, n)
  BY <1>1, <1>5 DEF Seals
<1> QED BY <1>1, <1>2, <1>6 DEF Progress, u, r, A, Q, R

\* Stage n of a run that has got k stages far: the actions d that it adds, the writes q.
Collecting(f, t, c, k, n, d, q) ==
  /\ RunInv(f, t, c, <<>>, k) /\ Progress(f, t, c, <<>>, k)
  /\ d = Stage(Stages[n], t, f, c, TRUE) /\ q = Writes(Stages[n], d, c)

Queues(c, n, d, q) ==
  /\ n = 7 => q = Semantic(c) \o d
  /\ n \in {5, 6} => q = <<>>
  /\ n \notin {5, 6, 7} => q = d
Adds(f, t, c, n, d, q) ==
  /\ n = 1 => d = Signature(t, f)
  /\ n = 2 => d = SuperBase(t, f)
  /\ n = 3 => d = SuperFlags(t, f)
  /\ n = 4 => d = SuperChecksum(t, f, c, TRUE)
  /\ n = 5 => d = ChunkLayout(t, f)
  /\ n = 6 => d = FilterParameters(t, f)
  /\ n = 7 => d = FinalizeSemantic(t, c)
  /\ n = 8 => d = HeaderChecksum(t, f, c)
  /\ n = 9 => d = FreeSpaceCount(t, f)
  /\ n = 10 => d = TreeTotal(t, f)
  /\ n = 11 => d = TreeChecksum(t, f, c, TRUE)
  /\ n = 12 => d = ReachedChecksum(t, f, c, "fshd")
  /\ n = 13 => d = ReachedChecksum(t, f, c, "bthd")
  /\ Queues(c, n, d, q)

LEMMA StageIs ==
  ASSUME NEW f, NEW t, NEW c, NEW k, NEW n \in 1..13, NEW d, NEW q, Collecting(f, t, c, k, n, d, q)
  PROVE  Adds(f, t, c, n, d, q)
<1>1. d = Stage(Stages[n], t, f, c, TRUE) /\ q = Writes(Stages[n], d, c)
  BY DEF Collecting
<1>2. n = 1 => d = Signature(t, f) /\ q = d
  BY <1>1, StagesAre DEF Stage, Writes
<1>3. n = 2 => d = SuperBase(t, f) /\ q = d
  BY <1>1, StagesAre DEF Stage, Writes
<1>4. n = 3 => d = SuperFlags(t, f) /\ q = d
  BY <1>1, StagesAre DEF Stage, Writes
<1>5. n = 4 => d = SuperChecksum(t, f, c, TRUE) /\ q = d
  BY <1>1, StagesAre DEF Stage, Writes
<1>6. n = 5 => d = ChunkLayout(t, f) /\ q = <<>>
  BY <1>1, StagesAre DEF Stage, Writes
<1>7. n = 6 => d = FilterParameters(t, f) /\ q = <<>>
  BY <1>1, StagesAre DEF Stage, Writes
<1>8. n = 7 => d = FinalizeSemantic(t, c) /\ q = Semantic(c) \o d
  BY <1>1, StagesAre DEF Stage, Writes
<1>9. n = 8 => d = HeaderChecksum(t, f, c) /\ q = d
  BY <1>1, StagesAre DEF Stage, Writes
<1>10. n = 9 => d = FreeSpaceCount(t, f) /\ q = d
  BY <1>1, StagesAre DEF Stage, Writes
<1>11. n = 10 => d = TreeTotal(t, f) /\ q = d
  BY <1>1, StagesAre DEF Stage, Writes
<1>12. n = 11 => d = TreeChecksum(t, f, c, TRUE) /\ q = d
  BY <1>1, StagesAre DEF Stage, Writes
<1>13. n = 12 => d = ReachedChecksum(t, f, c, "fshd") /\ q = d
  BY <1>1, StagesAre DEF Stage, Writes
<1>14. n = 13 => d = ReachedChecksum(t, f, c, "bthd") /\ q = d
  BY <1>1, StagesAre DEF Stage, Writes
<1>15. n \in {1, 2, 3, 4, 5, 6, 7, 8, 9, 10, 11, 12, 13}
  OBVIOUS
<1>16. n \in {5, 6} => q = <<>>
  BY <1>6, <1>7
<1>17. n \notin {5, 6, 7} => q = d
  BY <1>2, <1>3, <1>4, <1>5, <1>9, <1>10, <1>11, <1>12, <1>13, <1>14, <1>15
<1>18. Queues(c, n, d, q)
  BY <1>8, <1>16, <1>17 DEF Queues
<1>19. /\ n = 1 => d = Signature(t, f)
       /\ n = 2 => d = SuperBase(t, f)
       /\ n = 3 => d = SuperFlags(t, f)
       /\ n = 4 => d = SuperChecksum(t, f, c, TRUE)
       /\ n = 5 => d = ChunkLayout(t, f)
       /\ n = 6 => d = FilterParameters(t, f)
  BY <1>2, <1>3, <1>4, <1>5, <1>6, <1>7
<1> QED BY <1>19, <1>8, <1>9, <1>10, <1>11, <1>12, <1>13, <1>14, <1>18 DEF Adds

LEMMA FieldAt ==
  ASSUME NEW t, NEW x, NEW cond
  PROVE  Planned(Field(cond, t, x)) \subseteq {x}
<1>1. Field(cond, t, x) = <<>> \/ Field(cond, t, x) = <<SetField(t, x)>>
  BY DEF Field
<1>2. Planned(<<SetField(t, x)>>) = {x}
  <2>1. SetField(t, x).at = x
    BY DEF SetField
  <2> QED BY <2>1, PlannedOne
<1> QED BY <1>1, <1>2, PlannedNone

LEMMA ResealAt ==
  ASSUME NEW t, NEW s, NEW body
  PROVE  Planned(Reseal(t, s, body)) \subseteq {s}
<1> DEFINE a == [at |-> s, old |-> t.sum[s], new |-> body]
<1>1. Reseal(t, s, body) = <<>> \/ Reseal(t, s, body) = <<a>>
  BY DEF Reseal
<1>2. Planned(<<a>>) = {s}
  <2>1. a.at = s
    OBVIOUS
  <2> HIDE DEF a
  <2> QED BY <2>1, PlannedOne
<1> QED BY <1>1, <1>2, PlannedNone

\* Where a stage acts.
Places(n, d, q) ==
  /\ n = 1 => Planned(d) \subseteq {"signature"}
  /\ n = 2 => Planned(d) \subseteq {"base"}
  /\ n = 3 => Planned(d) \subseteq {"flags"}
  /\ n = 4 => Planned(d) \subseteq {"super"}
  /\ n = 5 => Planned(d) \subseteq {"element"}
  /\ n = 6 => Planned(d) \subseteq {"filter"}
  /\ n = 7 => Planned(d) \subseteq {"header"}
              /\ Planned(q) \subseteq {"element", "filter", "header"}
  /\ n = 8 => Planned(d) \subseteq {"header"}
  /\ n = 9 => Planned(d) \subseteq {"sections", "fshd"}
  /\ n = 10 => Planned(d) \subseteq {"total"}
  /\ n = 11 => Planned(d) \subseteq {"bthd"}
  /\ n = 12 => Planned(d) \subseteq {"fshd"}
  /\ n = 13 => Planned(d) \subseteq {"bthd"}
  /\ n \in {5, 6} => Planned(q) = {}
  /\ n \notin {5, 6, 7} => Planned(q) = Planned(d)

LEMMA StagePlaces ==
  ASSUME NEW f \in Files, NEW t \in Files, NEW c \in Seq(Action), NEW k, NEW n \in 1..13,
         NEW d, NEW q, Collecting(f, t, c, k, n, d, q)
  PROVE  Places(n, d, q)
<1>0. Adds(f, t, c, n, d, q)
  BY StageIs
<1>1. n = 1 => Planned(d) \subseteq {"signature"}
  BY <1>0, FieldAt DEF Adds, Queues, Signature
<1>2. n = 2 => Planned(d) \subseteq {"base"}
  BY <1>0, FieldAt DEF Adds, Queues, SuperBase
<1>3. n = 3 => Planned(d) \subseteq {"flags"}
  BY <1>0, FieldAt DEF Adds, Queues, SuperFlags
<1>4. n = 4 => Planned(d) \subseteq {"super"}
  BY <1>0, ResealAt, PlannedNone DEF Adds, Queues, SuperChecksum
<1>5. n = 5 => Planned(d) \subseteq {"element"}
  BY <1>0, FieldAt DEF Adds, Queues, ChunkLayout
<1>6. n = 6 => Planned(d) \subseteq {"filter"}
  BY <1>0, FieldAt DEF Adds, Queues, FilterParameters
<1>7. n = 7 => Planned(d) \subseteq {"header"}
  BY <1>0, ResealAt, PlannedNone DEF Adds, Queues, FinalizeSemantic
<1>8. n = 8 => Planned(d) \subseteq {"header"}
  BY <1>0, ResealAt, PlannedNone DEF Adds, Queues, HeaderChecksum
<1>9. n = 10 => Planned(d) \subseteq {"total"}
  BY <1>0, FieldAt DEF Adds, Queues, TreeTotal
<1>10. n = 11 => Planned(d) \subseteq {"bthd"}
  BY <1>0, ResealAt, PlannedNone DEF Adds, Queues, TreeChecksum
<1>11. n = 12 => Planned(d) \subseteq {"fshd"}
  BY <1>0, ResealAt, PlannedNone DEF Adds, Queues, ReachedChecksum
<1>12. n = 13 => Planned(d) \subseteq {"bthd"}
  BY <1>0, ResealAt, PlannedNone DEF Adds, Queues, ReachedChecksum
<1>13. d \in Seq(Action)
  BY StageType DEF Collecting
<1>14. n = 9 => Planned(d) \subseteq {"sections", "fshd"}
  <2> SUFFICES ASSUME n = 9 PROVE Planned(d) \subseteq {"sections", "fshd"}
    OBVIOUS
  <2> DEFINE p == <<SetField(t, "sections")>>  r == Reseal(t, "fshd", {})
  <2>1. d = <<>> \/ d = p \o r
    BY <1>0 DEF Adds, Queues, FreeSpaceCount
  <2>2. p \in Seq(Action) /\ r \in Seq(Action)
    BY FieldsAre, SetFieldType, ResealIs DEF Structures
  <2>3. Planned(p) = {"sections"}
    <3>1. SetField(t, "sections").at = "sections"
      BY DEF SetField
    <3> QED BY <3>1, PlannedOne
  <2>4. Planned(r) \subseteq {"fshd"}
    BY ResealAt
  <2> HIDE DEF p, r
  <2>5. Planned(p \o r) = Planned(p) \cup Planned(r)
    BY <2>2, PlannedConcat
  <2> QED BY <2>1, <2>3, <2>4, <2>5, PlannedNone
<1>15. n = 7 => Planned(q) \subseteq {"element", "filter", "header"}
  <2> SUFFICES ASSUME n = 7 PROVE Planned(q) \subseteq {"element", "filter", "header"}
    OBVIOUS
  <2>1. q = Semantic(c) \o d
    BY <1>0 DEF Adds, Queues
  <2>2. Semantic(c) \in Seq(Action) /\ Planned(Semantic(c)) = Planned(c) \cap {"element", "filter"}
    BY SemanticIs
  <2>3. Planned(q) = Planned(Semantic(c)) \cup Planned(d)
    BY <2>1, <2>2, <1>13, PlannedConcat
  <2> QED BY <2>2, <2>3, <1>7
<1>16. n \in {5, 6} => Planned(q) = {}
  BY <1>0, PlannedNone DEF Adds, Queues
<1>17. n \notin {5, 6, 7} => Planned(q) = Planned(d)
  BY <1>0 DEF Adds, Queues
<1> QED BY <1>1, <1>2, <1>3, <1>4, <1>5, <1>6, <1>7, <1>8, <1>9, <1>10, <1>11, <1>12, <1>14, <1>15,
           <1>16, <1>17 DEF Places

\* What stays sealed when fields of other structures are to be written.
LEMMA StillDone ==
  ASSUME NEW t, NEW s, NEW Q, SumDone(t, {}, s), Q \cap FieldsOf[s] = {}
  PROVE  SumDone(t, Q, s)
<1>1. t.sum[s] = Body(t, s)
  BY DEF SumDone
<1>2. Body(t, s) \ Q = Body(t, s)
  BY DEF Body
<1> QED BY <1>1, <1>2 DEF SumDone

\* A checksum queued behind the fields at p is exact.
LEMMA SealQueued ==
  ASSUME NEW t \in Files, NEW p \in Seq(Action), Planned(p) \subseteq Fields,
         NEW s \in Structures, NEW body, body = Body(t, s) \ Planned(p)
  PROVE  /\ Exact(t, p \o Reseal(t, s, body))
         /\ SumDone(t, Planned(p \o Reseal(t, s, body)), s)
<1> DEFINE r == Reseal(t, s, body)  q == p \o r
<1>1. body \in SUBSET Fields /\ body \subseteq Fields
  BY BodyType
<1>2. Fields \cap Structures = {} /\ Body(t, s) \subseteq Fields
  BY BodyType, FieldsAre
<1>3. /\ r \in Seq(Action)
      /\ t.sum[s] = body => r = <<>> /\ Planned(r) = {}
      /\ t.sum[s] # body => r = <<[at |-> s, old |-> t.sum[s], new |-> body]>> /\ Planned(r) = {s}
  BY <1>1, ResealIs
<1> HIDE DEF r
<1>4. Planned(q) = Planned(p) \cup Planned(r)
  BY <1>3, PlannedConcat
<1>5. Body(t, s) \ Planned(q) = body
  BY <1>2, <1>3, <1>4
<1>6. SumDone(t, Planned(q), s)
  <2> HIDE DEF q
  <2> QED BY <1>3, <1>4, <1>5 DEF SumDone
<1>7. ASSUME NEW i \in DOMAIN q, q[i].at \in Structures
      PROVE  q[i].new = Body(t, q[i].at) \ Planned(q)
  <2>1. i \in DOMAIN p \/ \E j \in DOMAIN r : q[i] = r[j]
    <3>1. i \in 1..(Len(p) + Len(r)) /\ Len(p) \in Nat /\ Len(r) \in Nat
      BY <1>3
    <3>2. CASE i <= Len(p)
      BY <3>1, <3>2
    <3>3. CASE i > Len(p)
      <4>1. i - Len(p) \in DOMAIN r /\ q[i] = r[i - Len(p)]
        BY <3>1, <3>3, <1>3
      <4> QED BY <4>1
    <3> QED BY <3>1, <3>2, <3>3
  <2>2. i \notin DOMAIN p
    <3>1. SUFFICES ASSUME i \in DOMAIN p PROVE FALSE
      OBVIOUS
    <3>2. q[i] = p[i]
      BY <3>1, <1>3
    <3>3. p[i].at \in Planned(p)
      BY <3>1 DEF Planned
    <3> QED BY <1>2, <1>7, <3>2, <3>3
  <2>3. PICK j \in DOMAIN r : q[i] = r[j]
    BY <2>1, <2>2
  <2>4. r = <<[at |-> s, old |-> t.sum[s], new |-> body]>>
    BY <1>3, <2>3
  <2>5. j = 1 /\ r[j].at = s /\ r[j].new = body
    BY <2>3, <2>4
  <2> QED BY <2>3, <2>5, <1>5
<1>8. Exact(t, q)
  BY <1>7 DEF Exact
<1> QED BY <1>6, <1>8 DEF q, r

LEMMA SealedNow ==
  ASSUME NEW t \in Files, NEW s \in Structures
  PROVE  LET r == Reseal(t, s, Body(t, s)) IN Exact(t, r) /\ SumDone(t, Planned(r), s)
<1> DEFINE r == Reseal(t, s, Body(t, s))
<1>1. <<>> \in Seq(Action) /\ Planned(<<>>) = {} /\ Body(t, s) = Body(t, s) \ Planned(<<>>)
  BY PlannedNone
<1>2. Exact(t, <<>> \o r) /\ SumDone(t, Planned(<<>> \o r), s)
  BY <1>1, SealQueued
<1>3. r \in Seq(Action)
  BY BodyType, ResealIs
<1>4. <<>> \o r = r
  <2> HIDE DEF r
  <2> QED BY <1>3, ConcatNone
<1> QED BY <1>2, <1>4

LEMMA FieldsExact ==
  ASSUME NEW t, NEW q, Planned(q) \subseteq Fields
  PROVE  Exact(t, q)
<1>1. \A i \in DOMAIN q : q[i].at \in Planned(q)
  BY DEF Planned
<1> QED BY <1>1, FieldsAre DEF Exact

LEMMA CollectingFacts ==
  ASSUME NEW f \in Files, NEW t \in Files, NEW c \in Seq(Action), NEW k \in 0..12,
         NEW n \in 1..13, n = k + 1, NEW d, NEW q, Collecting(f, t, c, k, n, d, q)
  PROVE  /\ d \in Seq(Action) /\ Planned(c \o d) = Planned(c) \cup Planned(d)
         /\ Repairs(f, Planned(c), k) /\ Seals(f, t, Planned(c), {}, k)
         /\ RunInv(f, t, c, <<>>, k)
<1>1. d \in Seq(Action)
  BY StageType DEF Collecting
<1>2. Progress(f, t, c, <<>>, k) /\ RunInv(f, t, c, <<>>, k)
  BY DEF Collecting
<1>3. Planned(c \o d) = Planned(c) \cup Planned(d)
  BY <1>1, PlannedConcat
<1>4. Repairs(f, Planned(c), k) /\ Seals(f, t, Planned(c), {}, k)
  BY <1>2, PlannedNone DEF Progress
<1> QED BY <1>1, <1>2, <1>3, <1>4

\* A stage that finds a field to repair repairs it.
LEMMA FieldRepaired ==
  ASSUME NEW t, NEW x, NEW cond, NEW d, d = Field(cond, t, x), cond, x \in t.bad
  PROVE  x \in Planned(d)
<1>1. d = <<SetField(t, x)>> /\ SetField(t, x).at = x
  BY DEF Field, SetField
<1> QED BY <1>1, PlannedOne

LEMMA SuperRepaired ==
  ASSUME NEW f \in Files, NEW t \in Files, NEW c \in Seq(Action), NEW k \in 0..12,
         NEW n \in 1..13, n = k + 1, NEW d, NEW q, Collecting(f, t, c, k, n, d, q)
  PROVE  /\ n = 1 => RepairsSignature(f, Planned(c \o d))
         /\ n = 2 => RepairsBase(f, Planned(c \o d))
         /\ n = 3 => RepairsFlags(f, Planned(c \o d))
<1> DEFINE A == Planned(c)  B == Planned(d)
<1>a. Planned(c \o d) = A \cup B /\ Repairs(f, A, k) /\ RunInv(f, t, c, <<>>, k)
  BY CollectingFacts
<1>b. Adds(f, t, c, n, d, q)
  BY StageIs
<1>0. /\ Planned(c \o d) = A \cup B /\ Repairs(f, A, k) /\ RunInv(f, t, c, <<>>, k)
      /\ Adds(f, t, c, n, d, q)
  BY <1>a, <1>b
<1>1. /\ \A x \in Fields : x \notin A => (x \in t.bad <=> x \in f.bad)
      /\ t.bad \subseteq f.bad
      /\ k \notin {5, 6} => t.bad = f.bad \ A
  BY <1>0, Settled
<1>2. "signature" \in Fields /\ "base" \in Fields /\ "flags" \in Fields
  BY FieldsAre
<1> HIDE DEF A, B
<1>3. ASSUME n = 1 PROVE RepairsSignature(f, A \cup B)
  <2> SUFFICES ASSUME Locatable(f), "signature" \in f.bad, "signature" \notin A
               PROVE  "signature" \in B
    BY DEF RepairsSignature
  <2>1. "base" \notin t.bad /\ "signature" \in t.bad
    BY <1>1, <1>2 DEF Locatable
  <2>2. d = Field("base" \notin t.bad, t, "signature")
    BY <1>0, <1>3 DEF Adds, Signature
  <2> QED BY <2>1, <2>2, FieldRepaired DEF B
<1>4. ASSUME n = 2 PROVE RepairsBase(f, A \cup B)
  <2> SUFFICES ASSUME Locatable(f), "base" \in f.bad, "base" \notin A
               PROVE  "base" \in B
    BY DEF RepairsBase
  <2>1. "signature" \notin f.bad /\ "signature" \notin t.bad /\ "base" \in t.bad
    BY <1>1, <1>2 DEF Locatable
  <2>2. SuperReadable(t, f)
    BY <2>1 DEF SuperReadable
  <2>3. d = Field(SuperReadable(t, f) /\ "signature" \notin f.bad, t, "base")
    BY <1>0, <1>4 DEF Adds, SuperBase
  <2> QED BY <2>1, <2>2, <2>3, FieldRepaired DEF B
<1>5. ASSUME n = 3 PROVE RepairsFlags(f, A \cup B)
  <2> SUFFICES ASSUME Locatable(f), "flags" \in f.bad, "flags" \notin A
               PROVE  "flags" \in B
    BY DEF RepairsFlags
  <2>0. k = 2
    BY <1>5
  <2>1. RepairsSignature(f, A) /\ t.bad = f.bad \ A
    BY <1>0, <1>1, <2>0 DEF Repairs
  <2>2. "signature" \notin t.bad /\ "flags" \in t.bad
    BY <1>1, <1>2, <2>1 DEF RepairsSignature
  <2>3. SuperReadable(t, f)
    BY <2>2 DEF SuperReadable
  <2>4. d = Field(SuperReadable(t, f), t, "flags")
    BY <1>0, <1>5 DEF Adds, SuperFlags
  <2> QED BY <2>2, <2>3, <2>4, FieldRepaired DEF B
<1> QED BY <1>0, <1>3, <1>4, <1>5

LEMMA OthersRepaired ==
  ASSUME NEW f \in Files, NEW t \in Files, NEW c \in Seq(Action), NEW k \in 0..12,
         NEW n \in 1..13, n = k + 1, NEW d, NEW q, Collecting(f, t, c, k, n, d, q)
  PROVE  /\ n = 6 => RepairsFilter(f, Planned(c \o d))
         /\ n = 9 => RepairsCount(f, Planned(c \o d))
         /\ n = 10 => RepairsTotal(f, Planned(c \o d))
<1> DEFINE A == Planned(c)  B == Planned(d)
<1>a. Planned(c \o d) = A \cup B /\ RunInv(f, t, c, <<>>, k)
  BY CollectingFacts
<1>b. Adds(f, t, c, n, d, q)
  BY StageIs
<1>0. /\ Planned(c \o d) = A \cup B /\ RunInv(f, t, c, <<>>, k)
      /\ Adds(f, t, c, n, d, q)
  BY <1>a, <1>b
<1>1. /\ \A x \in Fields : x \notin A => (x \in t.bad <=> x \in f.bad)
      /\ \A s \in Structures : s \notin A => t.sum[s] = f.sum[s]
      /\ t.bad \subseteq f.bad /\ t.complete = f.complete
  BY <1>0, Settled
<1>2. /\ "filter" \in Fields /\ "sections" \in Fields /\ "total" \in Fields
      /\ FieldsOf["fshd"] = {"sections"} /\ "fshd" \in Structures /\ "header" \in Structures
  BY FieldsAre DEF Structures
<1>3. ASSUME n = 6 PROVE RepairsFilter(f, A \cup B)
  <2> SUFFICES ASSUME Reachable(f), f.complete, Sealed(f, "header"), "filter" \in f.bad,
                      "filter" \notin A
               PROVE  "filter" \in B
    BY DEF RepairsFilter
  <2>1. k = 5 /\ "filter" \in t.bad
    BY <1>1, <1>2, <1>3
  <2>2. Body(t, "header") = Body(f, "header")
    <3>1. Counted(f, t, A, {}, k)
      BY <1>0, Between DEF A
    <3> QED BY <3>1, <2>1 DEF Counted
  <2>3. "header" \notin A
    BY <1>0, <2>1, EarlyActions DEF A
  <2>4. Sealed(t, "header")
    BY <1>1, <1>2, <2>2, <2>3 DEF Sealed
  <2>5. d = Field(/\ Reachable(f) /\ Complete(f) /\ Sealed(t, "header")
                  /\ "filter" \in f.bad, t, "filter")
    BY <1>0, <1>3 DEF Adds, FilterParameters
  <2>6. Complete(f)
    BY DEF Complete
  <2> QED BY <2>1, <2>4, <2>5, <2>6, FieldRepaired DEF B
<1>4. ASSUME n = 9 PROVE RepairsCount(f, A \cup B)
  <2> SUFFICES ASSUME Reachable(f), f.complete, Sealed(f, "fshd"), "sections" \in f.bad,
                      "sections" \notin A
               PROVE  "sections" \in B
    BY DEF RepairsCount
  <2>1. k = 8 /\ "sections" \in t.bad
    BY <1>1, <1>2, <1>4
  <2>2. A \cap {"sections", "fshd"} = {}
    BY <1>0, <2>1, EarlyActions DEF A
  <2>3. Body(t, "fshd") = Body(f, "fshd") /\ t.sum["fshd"] = f.sum["fshd"]
    BY <1>1, <1>2, <2>2, <2>1 DEF Body
  <2>4. Sealed(t, "fshd") /\ Complete(f)
    BY <2>3 DEF Sealed, Complete
  <2> DEFINE p == <<SetField(t, "sections")>>  r == Reseal(t, "fshd", {})
  <2>5. d = p \o r
    BY <1>0, <1>4, <2>1, <2>4 DEF Adds, FreeSpaceCount
  <2>6. p \in Seq(Action) /\ r \in Seq(Action)
    BY <1>2, SetFieldType, ResealIs
  <2>7. Planned(p) = {"sections"}
    <3>1. SetField(t, "sections").at = "sections"
      BY DEF SetField
    <3> QED BY <3>1, PlannedOne
  <2> HIDE DEF p, r
  <2> QED BY <2>5, <2>6, <2>7, PlannedConcat DEF B
<1>5. ASSUME n = 10 PROVE RepairsTotal(f, A \cup B)
  <2> SUFFICES ASSUME Reachable(f), "total" \in f.bad, "total" \notin A
               PROVE  "total" \in B
    BY DEF RepairsTotal
  <2>1. "total" \in t.bad
    BY <1>1, <1>2
  <2>2. d = Field(Reachable(f), t, "total")
    BY <1>0, <1>5 DEF Adds, TreeTotal
  <2> QED BY <2>1, <2>2, FieldRepaired DEF B
<1> HIDE DEF A, B
<1> QED BY <1>0, <1>3, <1>4, <1>5

\* Nothing is repaired in a file whose superblock cannot be found.
LEMMA NothingWithout ==
  ASSUME NEW f \in Files, NEW t \in Files, NEW c \in Seq(Action), NEW k \in 0..12,
         NEW n \in 1..13, n = k + 1, NEW d, NEW q, Collecting(f, t, c, k, n, d, q), ~Locatable(f)
  PROVE  Planned(c \o d) = {}
<1>0. /\ Planned(c \o d) = Planned(c) \cup Planned(d) /\ RunInv(f, t, c, <<>>, k)
      /\ Adds(f, t, c, n, d, q) /\ Planned(c) = {}
  BY CollectingFacts, StageIs DEF Repairs
<1>1. "signature" \in f.bad /\ "base" \in f.bad /\ "base" \in t.bad
  <2>1. "base" \in Fields
    BY FieldsAre
  <2> QED BY <1>0, <2>1, Settled DEF Locatable
<1>2. ~Reachable(f) /\ ~SuperReadable(t, f) /\ ~BadChecksum(f, "header")
      /\ ~BadChecksum(f, "fshd") /\ ~BadChecksum(f, "bthd")
  BY <1>1 DEF Reachable, SuperReadable, BadChecksum
<1>3. Semantic(c) = <<>>
  BY <1>0, SemanticIs
<1>4. d = <<>>
  <2>1. n = 1 => d = <<>>
    BY <1>0, <1>1 DEF Adds, Signature, Field
  <2>2. n = 2 => d = <<>>
    BY <1>0, <1>2 DEF Adds, SuperBase, Field
  <2>3. n = 3 => d = <<>>
    BY <1>0, <1>2 DEF Adds, SuperFlags, Field
  <2>4. n = 4 => d = <<>>
    BY <1>0, <1>2 DEF Adds, SuperChecksum
  <2>5. n = 5 => d = <<>>
    BY <1>0, <1>2 DEF Adds, ChunkLayout, Field
  <2>6. n = 6 => d = <<>>
    BY <1>0, <1>2 DEF Adds, FilterParameters, Field
  <2>7. n = 7 => d = <<>>
    BY <1>0, <1>3 DEF Adds, FinalizeSemantic
  <2>8. n = 8 => d = <<>>
    BY <1>0, <1>2 DEF Adds, HeaderChecksum
  <2>9. n = 9 => d = <<>>
    BY <1>0, <1>2 DEF Adds, FreeSpaceCount
  <2>10. n = 10 => d = <<>>
    BY <1>0, <1>2 DEF Adds, TreeTotal, Field
  <2>11. n = 11 => d = <<>>
    BY <1>0, <1>2 DEF Adds, TreeChecksum
  <2>12. n = 12 => d = <<>>
    BY <1>0, <1>2 DEF Adds, ReachedChecksum
  <2>13. n = 13 => d = <<>>
    BY <1>0, <1>2 DEF Adds, ReachedChecksum
  <2>14. n \in {1, 2, 3, 4, 5, 6, 7, 8, 9, 10, 11, 12, 13}
    OBVIOUS
  <2> QED BY <2>1, <2>2, <2>3, <2>4, <2>5, <2>6, <2>7, <2>8, <2>9, <2>10, <2>11, <2>12, <2>13,
             <2>14
<1> QED BY <1>0, <1>4, PlannedNone

LEMMA RepairsCollected ==
  ASSUME NEW f \in Files, NEW t \in Files, NEW c \in Seq(Action), NEW k \in 0..12,
         NEW n \in 1..13, n = k + 1, NEW d, NEW q, Collecting(f, t, c, k, n, d, q)
  PROVE  Repairs(f, Planned(c \o d), n)
<1> DEFINE A == Planned(c)  C == Planned(c \o d)
<1>1. A \subseteq C /\ Repairs(f, A, k)
  BY CollectingFacts
<1>2. ~Locatable(f) => C = {}
  BY NothingWithout
<1>3. /\ n = 1 => RepairsSignature(f, C)
      /\ n = 2 => RepairsBase(f, C)
      /\ n = 3 => RepairsFlags(f, C)
  BY SuperRepaired
<1>4. /\ n = 6 => RepairsFilter(f, C)
      /\ n = 9 => RepairsCount(f, C)
      /\ n = 10 => RepairsTotal(f, C)
  BY OthersRepaired
<1> HIDE DEF A, C
<1>5. /\ RepairsSignature(f, A) => RepairsSignature(f, C)
      /\ RepairsBase(f, A) => RepairsBase(f, C)
      /\ RepairsFlags(f, A) => RepairsFlags(f, C)
      /\ RepairsFilter(f, A) => RepairsFilter(f, C)
      /\ RepairsCount(f, A) => RepairsCount(f, C)
      /\ RepairsTotal(f, A) => RepairsTotal(f, C)
  BY <1>1 DEF RepairsSignature, RepairsBase, RepairsFlags, RepairsFilter, RepairsCount,
              RepairsTotal
<1>6. /\ n = 1 \/ ~(n >= 1) \/ k >= 1
      /\ n = 2 \/ ~(n >= 2) \/ k >= 2
      /\ n = 3 \/ ~(n >= 3) \/ k >= 3
      /\ n = 6 \/ ~(n >= 6) \/ k >= 6
      /\ n = 9 \/ ~(n >= 9) \/ k >= 9
      /\ n = 10 \/ ~(n >= 10) \/ k >= 10
  OBVIOUS
<1>7. /\ n >= 1 => RepairsSignature(f, C)
      /\ n >= 2 => RepairsBase(f, C)
      /\ n >= 3 => RepairsFlags(f, C)
      /\ n >= 6 => RepairsFilter(f, C)
      /\ n >= 9 => RepairsCount(f, C)
      /\ n >= 10 => RepairsTotal(f, C)
  BY <1>1, <1>3, <1>4, <1>5, <1>6 DEF Repairs
<1> QED BY <1>2, <1>7 DEF Repairs, C

\* A stage that seals s, or leaves it.
LEMMA SealedOrNot ==
  ASSUME NEW t \in Files, NEW s \in Structures, NEW d,
         d = <<>> \/ d = Reseal(t, s, Body(t, s))
  PROVE  /\ Exact(t, d)
         /\ SumDone(t, {}, s) \/ d = Reseal(t, s, Body(t, s)) => SumDone(t, Planned(d), s)
<1>1. CASE d = Reseal(t, s, Body(t, s))
  BY <1>1, SealedNow
<1>2. CASE d = <<>> /\ d # Reseal(t, s, Body(t, s))
  <2>1. Planned(d) = {}
    BY <1>2, PlannedNone
  <2>2. Exact(t, d)
    BY <2>1, FieldsExact
  <2> QED BY <1>2, <2>1, <2>2
<1> QED BY <1>1, <1>2

LEMMA SuperSealed ==
  ASSUME NEW f \in Files, NEW t \in Files, NEW c \in Seq(Action), NEW k \in 0..12,
         NEW n \in 1..13, n = k + 1, NEW d, NEW q, Collecting(f, t, c, k, n, d, q), n = 4
  PROVE  Exact(t, q) /\ SealsSuper(f, t, Planned(q))
<1>1. Repairs(f, Planned(c), k) /\ RunInv(f, t, c, <<>>, k)
  BY CollectingFacts
<1>a. Adds(f, t, c, n, d, q)
  BY StageIs
<1>2. q = d
  BY <1>a DEF Adds, Queues
<1>3. "super" \in Structures
  BY DEF Structures
<1>4. d = IF SuperReadable(t, f) THEN Reseal(t, "super", Body(t, "super")) ELSE <<>>
  BY <1>a DEF Adds, SuperChecksum, BodyAfter
<1>5. Exact(t, d)
  BY <1>3, <1>4, SealedOrNot
<1>6. ASSUME Locatable(f) PROVE SumDone(t, Planned(q), "super")
  <2>1. k = 3
    OBVIOUS
  <2>2. RepairsSignature(f, Planned(c))
    BY <1>1, <2>1 DEF Repairs
  <2>3. t.bad = f.bad \ Planned(c)
    BY <1>1, <2>1, Settled
  <2>4. SuperReadable(t, f)
    BY <1>6, <2>2, <2>3 DEF SuperReadable, RepairsSignature
  <2> QED BY <1>2, <1>3, <1>4, <2>4, SealedOrNot
<1> QED BY <1>2, <1>5, <1>6 DEF SealsSuper

LEMMA HeaderFinalized ==
  ASSUME NEW f \in Files, NEW t \in Files, NEW c \in Seq(Action), NEW k \in 0..12,
         NEW n \in 1..13, n = k + 1, NEW d, NEW q, Collecting(f, t, c, k, n, d, q), n = 7
  PROVE  Exact(t, q) /\ SealsMessages(t, Planned(c \o d), Planned(q))
<1> DEFINE A == Planned(c)  p == Semantic(c)
<1>1. /\ Planned(c \o d) = A \cup Planned(d) /\ d \in Seq(Action)
      /\ RunInv(f, t, c, <<>>, k)
  BY CollectingFacts
<1>2. q = p \o d /\ d = FinalizeSemantic(t, c)
  <2>1. Adds(f, t, c, n, d, q)
    BY StageIs
  <2> QED BY <2>1 DEF Adds, Queues
<1>3. "header" \in Structures /\ {"element", "filter"} \subseteq Fields
      /\ FieldsOf["header"] = {"element", "filter"}
  BY FieldsAre DEF Structures
<1>4. /\ p \in Seq(Action) /\ Planned(p) = A \cap {"element", "filter"}
      /\ p = <<>> <=> A \cap {"element", "filter"} = {}
  BY SemanticIs
<1>5. "header" \notin A
  <2>1. k \in 0..13 /\ k = 6
    OBVIOUS
  <2> QED BY <1>1, <2>1, EarlyActions
<1>6. CASE p = <<>>
  <2>1. d = <<>>
    BY <1>2, <1>6 DEF FinalizeSemantic
  <2>2. q = <<>> /\ Planned(q) = {}
    BY <1>2, <1>6, <2>1, PlannedNone
  <2>3. Exact(t, q)
    BY <2>2, FieldsExact
  <2>4. (A \cup Planned(d)) \cap {"element", "filter", "header"} = {}
    BY <1>4, <1>5, <1>6, <2>1, PlannedNone
  <2> QED BY <1>1, <2>3, <2>4 DEF SealsMessages
<1>7. CASE p # <<>>
  <2> DEFINE body == Body(t, "header") \ A
  <2>1. d = Reseal(t, "header", body)
    BY <1>2, <1>7 DEF FinalizeSemantic, BodyAfter
  <2>2. body = Body(t, "header") \ Planned(p)
    BY <1>3, <1>4 DEF Body
  <2> HIDE DEF body, p
  <2>3. Planned(p) \subseteq Fields
    BY <1>3, <1>4
  <2>4. Exact(t, p \o d) /\ SumDone(t, Planned(p \o d), "header")
    BY <1>3, <1>4, <2>1, <2>2, <2>3, SealQueued
  <2> QED BY <1>2, <2>4 DEF SealsMessages
<1> QED BY <1>6, <1>7

LEMMA HeaderSealed ==
  ASSUME NEW f \in Files, NEW t \in Files, NEW c \in Seq(Action), NEW k \in 0..12,
         NEW n \in 1..13, n = k + 1, NEW d, NEW q, Collecting(f, t, c, k, n, d, q), n = 8
  PROVE  /\ Exact(t, q) /\ SealsHeader(f, t, Planned(q))
         /\ SealsMessages(t, Planned(c \o d), Planned(q))
<1> DEFINE A == Planned(c)
<1>0. k = 7 /\ k \in 0..13
  OBVIOUS
<1>1. /\ Planned(c \o d) = A \cup Planned(d) /\ d \in Seq(Action)
      /\ RunInv(f, t, c, <<>>, k) /\ Seals(f, t, A, {}, k)
  BY CollectingFacts
<1>2. q = d /\ d = HeaderChecksum(t, f, c)
  <2>1. Adds(f, t, c, n, d, q)
    BY StageIs
  <2> QED BY <2>1 DEF Adds, Queues
<1>3. "header" \in Structures /\ FieldsOf["header"] = {"element", "filter"}
  BY FieldsAre DEF Structures
<1>4. SealsMessages(t, A, {})
  BY <1>0, <1>1 DEF Seals
<1>5. d = <<>> \/ d = Reseal(t, "header", Body(t, "header"))
  BY <1>2 DEF HeaderChecksum
<1>6. Exact(t, d)
  BY <1>3, <1>5, SealedOrNot
<1>7. ASSUME Reachable(f), f.walked = 2, d = <<>>, A \cap {"element", "filter", "header"} = {}
      PROVE  SumDone(t, {}, "header")
  <2>1. Semantic(c) = <<>>
    BY <1>7, SemanticIs
  <2>2. CASE BadChecksum(f, "header")
    <3>1. d = Reseal(t, "header", Body(t, "header"))
      BY <1>2, <1>7, <2>1, <2>2 DEF HeaderChecksum
    <3>2. SumDone(t, Planned(d), "header")
      BY <1>3, <3>1, SealedOrNot
    <3> QED BY <1>7, <3>2, PlannedNone
  <2>3. CASE ~BadChecksum(f, "header")
    <3>1. Sealed(f, "header")
      BY <1>7, <2>3 DEF BadChecksum
    <3>2. t.sum["header"] = f.sum["header"] /\ t.bad = f.bad \ A
      BY <1>0, <1>1, <1>3, <1>7, Settled
    <3>3. Body(t, "header") = Body(f, "header")
      BY <1>3, <1>7, <3>2 DEF Body
    <3> QED BY <3>1, <3>2, <3>3 DEF Sealed, SumDone
  <2> QED BY <2>2, <2>3
<1>8. Planned(<<>>) = {}
  BY PlannedNone
<1>9. CASE d = <<>>
  <2>1. Planned(q) = {} /\ Planned(c \o d) = A
    BY <1>1, <1>2, <1>8, <1>9
  <2>2. ASSUME Reachable(f), f.walked = 2 PROVE SumDone(t, {}, "header")
    BY <1>4, <1>7, <1>9, <2>2 DEF SealsMessages
  <2> QED BY <1>2, <1>4, <1>6, <2>1, <2>2 DEF SealsHeader
<1>10. CASE d = Reseal(t, "header", Body(t, "header"))
  <2>1. SumDone(t, Planned(q), "header")
    BY <1>2, <1>3, <1>10, SealedOrNot
  <2> QED BY <1>2, <1>6, <2>1 DEF SealsHeader, SealsMessages
<1> QED BY <1>5, <1>9, <1>10

LEMMA CountSealed ==
  ASSUME NEW f \in Files, NEW t \in Files, NEW c \in Seq(Action), NEW k \in 0..12,
         NEW n \in 1..13, n = k + 1, NEW d, NEW q, Collecting(f, t, c, k, n, d, q), n = 9
  PROVE  Exact(t, q) /\ SealsCount(t, Planned(c \o d), Planned(q))
<1> DEFINE A == Planned(c)  p == <<SetField(t, "sections")>>  r == Reseal(t, "fshd", {})
<1>0. k = 8 /\ k \in 0..13
  OBVIOUS
<1>1. /\ Planned(c \o d) = A \cup Planned(d) /\ d \in Seq(Action)
      /\ RunInv(f, t, c, <<>>, k)
  BY CollectingFacts
<1>2. q = d /\ d = FreeSpaceCount(t, f)
  <2>1. Adds(f, t, c, n, d, q)
    BY StageIs
  <2> QED BY <2>1 DEF Adds, Queues
<1>3. "fshd" \in Structures /\ FieldsOf["fshd"] = {"sections"} /\ "sections" \in Fields
  BY FieldsAre DEF Structures
<1>4. A \cap {"sections", "fshd"} = {}
  BY <1>0, <1>1, EarlyActions
<1>5. d = <<>> \/ d = p \o r
  BY <1>2 DEF FreeSpaceCount
<1>6. CASE d = <<>>
  <2>1. Planned(q) = {} /\ Planned(c \o d) = A
    BY <1>1, <1>2, <1>6, PlannedNone
  <2>2. Exact(t, q)
    BY <2>1, FieldsExact
  <2> QED BY <1>4, <2>1, <2>2 DEF SealsCount
<1>7. CASE d = p \o r
  <2>1. p \in Seq(Action) /\ Planned(p) = {"sections"}
    <3>1. SetField(t, "sections") \in Action /\ SetField(t, "sections").at = "sections"
      BY <1>3, SetFieldType
    <3> QED BY <3>1, PlannedOne
  <2> HIDE DEF p
  <2>2. {} = Body(t, "fshd") \ Planned(p) /\ Planned(p) \subseteq Fields
    BY <1>3, <2>1 DEF Body
  <2>3. Exact(t, p \o r) /\ SumDone(t, Planned(p \o r), "fshd")
    BY <1>3, <2>1, <2>2, SealQueued
  <2> HIDE DEF r
  <2> QED BY <1>2, <1>7, <2>3 DEF SealsCount
<1> QED BY <1>5, <1>6, <1>7

LEMMA TreeSealed ==
  ASSUME NEW f \in Files, NEW t \in Files, NEW c \in Seq(Action), NEW k \in 0..12,
         NEW n \in 1..13, n = k + 1, NEW d, NEW q, Collecting(f, t, c, k, n, d, q), n \in {11, 13}
  PROVE  Exact(t, q) /\ SealsTree(f, t, Planned(q))
<1>0. Seals(f, t, Planned(c), {}, k)
  BY CollectingFacts
<1>a. Adds(f, t, c, n, d, q)
  BY StageIs
<1>1. "bthd" \in Structures
  BY DEF Structures
<1>2. CASE n = 11
  <2>1. q = d
    BY <1>2, <1>a DEF Adds, Queues
  <2>2. d = IF Reachable(f) THEN Reseal(t, "bthd", Body(t, "bthd")) ELSE <<>>
    BY <1>2, <1>a DEF Adds, TreeChecksum, BodyAfter
  <2> QED BY <1>1, <2>1, <2>2, SealedOrNot DEF SealsTree
<1>3. CASE n = 13
  <2>1. q = d /\ d = ReachedChecksum(t, f, c, "bthd")
    BY <1>3, <1>a DEF Adds, Queues
  <2>2. d = <<>> \/ d = Reseal(t, "bthd", Body(t, "bthd"))
    BY <2>1 DEF ReachedChecksum
  <2>3. SealsTree(f, t, {})
    <3>1. k >= 11
      BY <1>3
    <3> QED BY <1>0, <3>1 DEF Seals
  <2> QED BY <1>1, <2>1, <2>2, <2>3, SealedOrNot DEF SealsTree
<1> QED BY <1>2, <1>3

LEMMA SpaceSealed ==
  ASSUME NEW f \in Files, NEW t \in Files, NEW c \in Seq(Action), NEW k \in 0..12,
         NEW n \in 1..13, n = k + 1, NEW d, NEW q, Collecting(f, t, c, k, n, d, q), n = 12
  PROVE  /\ Exact(t, q) /\ SealsSpace(f, t, Planned(q))
         /\ SealsCount(t, Planned(c \o d), Planned(q))
<1> DEFINE A == Planned(c)
<1>0. k = 11 /\ k \in 0..13
  OBVIOUS
<1>1. /\ Planned(c \o d) = A \cup Planned(d) /\ d \in Seq(Action)
      /\ RunInv(f, t, c, <<>>, k) /\ Seals(f, t, A, {}, k)
  BY CollectingFacts
<1>2. q = d /\ d = ReachedChecksum(t, f, c, "fshd")
  <2>1. Adds(f, t, c, n, d, q)
    BY StageIs
  <2> QED BY <2>1 DEF Adds, Queues
<1>3. "fshd" \in Structures /\ FieldsOf["fshd"] = {"sections"}
  BY FieldsAre DEF Structures
<1>4. SealsCount(t, A, {})
  BY <1>0, <1>1 DEF Seals
<1>5. d = <<>> \/ d = Reseal(t, "fshd", Body(t, "fshd"))
  BY <1>2 DEF ReachedChecksum
<1>6. Exact(t, d)
  BY <1>3, <1>5, SealedOrNot
<1>7. ASSUME Reachable(f), f.complete, d = <<>>, A \cap {"sections", "fshd"} = {}
      PROVE  SumDone(t, {}, "fshd")
  <2>1. t.sum["fshd"] = f.sum["fshd"] /\ t.bad = f.bad \ A
    BY <1>0, <1>1, <1>3, <1>7, Settled
  <2>2. Body(t, "fshd") = Body(f, "fshd")
    BY <1>3, <1>7, <2>1 DEF Body
  <2>3. CASE BadChecksum(f, "fshd")
    <3>1. d = Reseal(t, "fshd", Body(t, "fshd"))
      BY <1>2, <1>7, <2>1, <2>2, <2>3 DEF ReachedChecksum, Complete
    <3>2. SumDone(t, Planned(d), "fshd")
      BY <1>3, <3>1, SealedOrNot
    <3> QED BY <1>7, <3>2, PlannedNone
  <2>4. CASE ~BadChecksum(f, "fshd")
    <3>1. Sealed(f, "fshd")
      BY <1>7, <2>4 DEF BadChecksum
    <3> QED BY <2>1, <2>2, <3>1 DEF Sealed, SumDone
  <2> QED BY <2>3, <2>4
<1>8. Planned(<<>>) = {}
  BY PlannedNone
<1>9. CASE d = <<>>
  <2>1. Planned(q) = {} /\ Planned(c \o d) = A
    BY <1>1, <1>2, <1>8, <1>9
  <2>2. ASSUME Reachable(f), f.complete PROVE SumDone(t, {}, "fshd")
    BY <1>4, <1>7, <1>9, <2>2 DEF SealsCount
  <2> QED BY <1>2, <1>4, <1>6, <2>1, <2>2 DEF SealsSpace
<1>10. CASE d = Reseal(t, "fshd", Body(t, "fshd"))
  <2>1. SumDone(t, Planned(q), "fshd")
    BY <1>2, <1>3, <1>10, SealedOrNot
  <2> QED BY <1>2, <1>6, <2>1 DEF SealsSpace, SealsCount
<1> QED BY <1>5, <1>9, <1>10

LEMMA ExactCollected ==
  ASSUME NEW f \in Files, NEW t \in Files, NEW c \in Seq(Action), NEW k \in 0..12,
         NEW n \in 1..13, n = k + 1, NEW d, NEW q, Collecting(f, t, c, k, n, d, q)
  PROVE  Exact(t, q)
<1>0. {"signature", "base", "flags", "total"} \subseteq Fields
  BY FieldsAre
<1>p. Places(n, d, q)
  BY StagePlaces
<1>1. ASSUME n \in {1, 2, 3, 10} PROVE Exact(t, q)
  <2>1. Planned(q) = Planned(d)
    BY <1>1, <1>p DEF Places
  <2>2. Planned(d) \subseteq {"signature", "base", "flags", "total"}
    <3>1. n = 1 => Planned(d) \subseteq {"signature"}
      BY <1>p DEF Places
    <3>2. n = 2 => Planned(d) \subseteq {"base"}
      BY <1>p DEF Places
    <3>3. n = 3 => Planned(d) \subseteq {"flags"}
      BY <1>p DEF Places
    <3>4. n = 10 => Planned(d) \subseteq {"total"}
      BY <1>p DEF Places
    <3> QED BY <1>1, <3>1, <3>2, <3>3, <3>4
  <2> QED BY <1>0, <2>1, <2>2, FieldsExact
<1>2. ASSUME n \in {5, 6} PROVE Exact(t, q)
  <2>1. Planned(q) = {}
    BY <1>2, <1>p DEF Places
  <2> QED BY <2>1, FieldsExact
<1>3. n = 4 => Exact(t, q)
  BY SuperSealed
<1>4. n = 7 => Exact(t, q)
  BY HeaderFinalized
<1>5. n = 8 => Exact(t, q)
  BY HeaderSealed
<1>6. n = 9 => Exact(t, q)
  BY CountSealed
<1>7. n \in {11, 13} => Exact(t, q)
  BY TreeSealed
<1>8. n = 12 => Exact(t, q)
  BY SpaceSealed
<1>9. n \in {1, 2, 3, 4, 5, 6, 7, 8, 9, 10, 11, 12, 13}
  OBVIOUS
<1> QED BY <1>1, <1>2, <1>3, <1>4, <1>5, <1>6, <1>7, <1>8, <1>9

\* What later stages write.
LEMMA LaterPlaces ==
  ASSUME NEW f \in Files, NEW t \in Files, NEW c \in Seq(Action), NEW k, NEW n \in 1..13,
         NEW d, NEW q, Collecting(f, t, c, k, n, d, q)
  PROVE  /\ n \in {5, 6, 7, 8, 9, 10, 11, 12, 13} =>
              Planned(q) \cap {"signature", "base", "flags"} = {}
         /\ n \in {8, 9, 10, 11, 12, 13} => (Planned(q) \cup Planned(d)) \cap {"element", "filter"} = {}
         /\ n \in {9, 10, 11, 12, 13} => "header" \notin Planned(d)
         /\ n \in {10, 11, 12, 13} => "sections" \notin Planned(q) \cup Planned(d)
         /\ n \in {10, 11, 13} => "fshd" \notin Planned(d)
         /\ n \in {11, 12, 13} => "total" \notin Planned(q)
<1>p. Places(n, d, q)
  BY StagePlaces
<1>1. n \in {5, 6} => Planned(q) = {}
  BY <1>p DEF Places
<1>2. n = 7 => Planned(q) \subseteq {"element", "filter", "header"}
  BY <1>p DEF Places
<1>3. n \notin {5, 6, 7} => Planned(q) = Planned(d)
  BY <1>p DEF Places
<1>4. n = 8 => Planned(d) \subseteq {"header"}
  BY <1>p DEF Places
<1>5. n = 9 => Planned(d) \subseteq {"sections", "fshd"}
  BY <1>p DEF Places
<1>6. n = 10 => Planned(d) \subseteq {"total"}
  BY <1>p DEF Places
<1>7. n \in {11, 13} => Planned(d) \subseteq {"bthd"}
  <2>1. n = 11 => Planned(d) \subseteq {"bthd"}
    BY <1>p DEF Places
  <2>2. n = 13 => Planned(d) \subseteq {"bthd"}
    BY <1>p DEF Places
  <2> QED BY <2>1, <2>2
<1>8. n = 12 => Planned(d) \subseteq {"fshd"}
  BY <1>p DEF Places
<1> QED BY <1>1, <1>2, <1>3, <1>4, <1>5, <1>6, <1>7, <1>8

LEMMA SealsCollected ==
  ASSUME NEW f \in Files, NEW t \in Files, NEW c \in Seq(Action), NEW k \in 0..12,
         NEW n \in 1..13, n = k + 1, NEW d, NEW q, Collecting(f, t, c, k, n, d, q)
  PROVE  Seals(f, t, Planned(c \o d), Planned(q), n)
<1> DEFINE A == Planned(c)  B == Planned(d)  C == Planned(c \o d)  Q == Planned(q)
<1>1. C = A \cup B /\ Seals(f, t, A, {}, k)
  BY CollectingFacts
<1>2. /\ n \in {5, 6, 7, 8, 9, 10, 11, 12, 13} => Q \cap {"signature", "base", "flags"} = {}
      /\ n \in {8, 9, 10, 11, 12, 13} => (Q \cup B) \cap {"element", "filter"} = {}
      /\ n \in {9, 10, 11, 12, 13} => "header" \notin B
      /\ n \in {10, 11, 12, 13} => "sections" \notin Q \cup B
      /\ n \in {10, 11, 13} => "fshd" \notin B
      /\ n \in {11, 12, 13} => "total" \notin Q
  BY LaterPlaces
<1>3. /\ n = 4 => SealsSuper(f, t, Q)
      /\ n = 7 => SealsMessages(t, C, Q)
      /\ n = 8 => SealsHeader(f, t, Q) /\ SealsMessages(t, C, Q)
      /\ n = 9 => SealsCount(t, C, Q)
      /\ n \in {11, 13} => SealsTree(f, t, Q)
      /\ n = 12 => SealsSpace(f, t, Q) /\ SealsCount(t, C, Q)
  BY SuperSealed, HeaderFinalized, HeaderSealed, CountSealed, TreeSealed, SpaceSealed
<1>4. /\ FieldsOf["super"] = {"signature", "base", "flags"}
      /\ FieldsOf["header"] = {"element", "filter"}
      /\ FieldsOf["fshd"] = {"sections"} /\ FieldsOf["bthd"] = {"total"}
  BY FieldsAre
<1> HIDE DEF A, B, C, Q
<1>5. /\ SumDone(t, {}, "super") /\ Q \cap FieldsOf["super"] = {} => SumDone(t, Q, "super")
      /\ SumDone(t, {}, "header") /\ Q \cap FieldsOf["header"] = {} => SumDone(t, Q, "header")
      /\ SumDone(t, {}, "fshd") /\ Q \cap FieldsOf["fshd"] = {} => SumDone(t, Q, "fshd")
      /\ SumDone(t, {}, "bthd") /\ Q \cap FieldsOf["bthd"] = {} => SumDone(t, Q, "bthd")
  BY StillDone
<1>6. n >= 4 => SealsSuper(f, t, Q)
  <2>1. n = 4 \/ ~(n >= 4) \/ (k >= 4 /\ n \in {5, 6, 7, 8, 9, 10, 11, 12, 13})
    OBVIOUS
  <2>2. k >= 4 => SealsSuper(f, t, {})
    BY <1>1 DEF Seals
  <2> QED BY <1>2, <1>3, <1>4, <1>5, <2>1, <2>2 DEF SealsSuper
<1>7. n >= 7 => SealsMessages(t, C, Q)
  <2>1. n = 7 \/ n = 8 \/ ~(n >= 7) \/ (k >= 7 /\ n \in {9, 10, 11, 12, 13})
    OBVIOUS
  <2>2. k >= 7 => SealsMessages(t, A, {})
    BY <1>1 DEF Seals
  <2> QED BY <1>1, <1>2, <1>3, <1>4, <1>5, <2>1, <2>2 DEF SealsMessages
<1>8. n >= 8 => SealsHeader(f, t, Q)
  <2>1. n = 8 \/ ~(n >= 8) \/ (k >= 8 /\ n \in {9, 10, 11, 12, 13})
    OBVIOUS
  <2>2. k >= 8 => SealsHeader(f, t, {})
    BY <1>1 DEF Seals
  <2> QED BY <1>2, <1>3, <1>4, <1>5, <2>1, <2>2 DEF SealsHeader
<1>9. n >= 9 => SealsCount(t, C, Q)
  <2>1. n = 9 \/ n = 12 \/ ~(n >= 9) \/ (k >= 9 /\ n \in {10, 11, 13})
    OBVIOUS
  <2>2. k >= 9 => SealsCount(t, A, {})
    BY <1>1 DEF Seals
  <2> QED BY <1>1, <1>2, <1>3, <1>4, <1>5, <2>1, <2>2 DEF SealsCount
<1>10. n >= 11 => SealsTree(f, t, Q)
  <2>1. n \in {11, 13} \/ ~(n >= 11) \/ (k >= 11 /\ n = 12)
    OBVIOUS
  <2>2. k >= 11 => SealsTree(f, t, {})
    BY <1>1 DEF Seals
  <2> QED BY <1>2, <1>3, <1>4, <1>5, <2>1, <2>2 DEF SealsTree
<1>11. n >= 12 => SealsSpace(f, t, Q)
  <2>1. n = 12 \/ ~(n >= 12) \/ (k >= 12 /\ n = 13)
    OBVIOUS
  <2>2. k >= 12 => SealsSpace(f, t, {})
    BY <1>1 DEF Seals
  <2> QED BY <1>2, <1>3, <1>4, <1>5, <2>1, <2>2 DEF SealsSpace
<1>12. Seals(f, t, C, Q, n)
  BY <1>6, <1>7, <1>8, <1>9, <1>10, <1>11 DEF Seals
<1> QED BY <1>12 DEF C, Q

LEMMA ProgressCollected ==
  ASSUME NEW f \in Files, NEW t \in Files, NEW c \in Seq(Action), NEW k \in 0..12,
         NEW n \in 1..13, n = k + 1, NEW d, NEW q, Collecting(f, t, c, k, n, d, q)
  PROVE  Progress(f, t, c \o d, q, n)
<1>1. Repairs(f, Planned(c \o d), n)
  BY RepairsCollected
<1>2. Exact(t, q)
  BY ExactCollected
<1>3. Seals(f, t, Planned(c \o d), Planned(q), n)
  BY SealsCollected
<1> QED BY <1>1, <1>2, <1>3 DEF Progress

-----------------------------------------------------------------------------
\* What every plan but the first few finds: the superblock in order after one run, what it
\* leads to after two, and what could be judged only then after three.
SuperReady(f) == {"signature", "base", "flags"} \cap f.bad = {} /\ Sealed(f, "super")
SealsReady(f) ==
  /\ f.walked = 2 => Sealed(f, "header")
  /\ "element" \in f.bad => ~f.simple \/ f.walked = 0
  /\ f.complete => Sealed(f, "fshd")
  /\ "total" \notin f.bad /\ Sealed(f, "bthd")
CountsReady(f) == f.complete => {"filter", "sections"} \cap f.bad = {}
Ready(f, n) ==
  Locatable(f) =>
    /\ n > 1 => SuperReady(f)
    /\ n > 2 => SealsReady(f)
    /\ n > 3 => CountsReady(f)

\* Every run gets one further.
LEMMA RunReadies ==
  ASSUME NEW f \in Files, NEW t \in Files, NEW c \in Seq(Action), NEW n \in Nat,
         RunInv(f, t, c, <<>>, 13), Progress(f, t, c, <<>>, 13), Ready(f, n)
  PROVE  Ready(t, n + 1)
<1> SUFFICES ASSUME Locatable(t)
             PROVE  /\ n + 1 > 1 => SuperReady(t)
                    /\ n + 1 > 2 => SealsReady(t)
                    /\ n + 1 > 3 => CountsReady(t)
  BY DEF Ready
<1> DEFINE A == Planned(c)
<1>1. /\ t.bad = f.bad \ A /\ t.simple = f.simple /\ t.complete = f.complete
      /\ t.walked = f.walked /\ Owed(f, A, 13)
  BY Settled, Between
<1>2. Repairs(f, A, 13) /\ Seals(f, t, A, {}, 13)
  BY PlannedNone DEF Progress
<1>3. /\ ~Locatable(f) => A = {}
      /\ RepairsSignature(f, A) /\ RepairsBase(f, A) /\ RepairsFlags(f, A)
      /\ RepairsFilter(f, A) /\ RepairsCount(f, A) /\ RepairsTotal(f, A)
  BY <1>2 DEF Repairs
<1>4. /\ SealsSuper(f, t, {}) /\ SealsHeader(f, t, {})
      /\ SealsTree(f, t, {}) /\ SealsSpace(f, t, {})
  BY <1>2 DEF Seals
<1>5. \A s \in Structures : SumDone(t, {}, s) => Sealed(t, s)
  BY DEF SumDone, Sealed
<1>6. {"super", "header", "fshd", "bthd"} = Structures
  BY DEF Structures
<1>7. Reachable(f) /\ f.simple /\ f.walked # 0 /\ "element" \in f.bad => "element" \in A
  BY <1>1 DEF Owed
<1> HIDE DEF A
<1>8. Locatable(f)
  BY <1>1, <1>3 DEF Locatable
<1>9. SuperReady(t)
  BY <1>1, <1>3, <1>4, <1>5, <1>6, <1>8
  DEF SuperReady, RepairsSignature, RepairsBase, RepairsFlags, SealsSuper
<1>10. ASSUME n > 1 PROVE SealsReady(t)
  <2>1. SuperReady(f)
    BY <1>8, <1>10 DEF Ready
  <2>2. Reachable(f)
    BY <2>1 DEF SuperReady, Reachable
  <2>3. /\ t.walked = 2 => Sealed(t, "header")
        /\ Sealed(t, "bthd") /\ (t.complete => Sealed(t, "fshd"))
    BY <1>1, <1>4, <1>5, <1>6, <2>2 DEF SealsHeader, SealsTree, SealsSpace
  <2>4. "total" \notin t.bad /\ ("element" \in t.bad => ~t.simple \/ t.walked = 0)
    BY <1>1, <1>3, <1>7, <2>2 DEF RepairsTotal
  <2> QED BY <2>3, <2>4 DEF SealsReady
<1>11. ASSUME n > 2 PROVE CountsReady(t)
  <2>1. SuperReady(f) /\ SealsReady(f)
    <3>1. n > 1
      BY <1>11
    <3> QED BY <1>8, <1>11, <3>1 DEF Ready
  <2>2. Reachable(f)
    BY <2>1 DEF SuperReady, Reachable
  <2>3. f.complete => f.walked = 2
    BY DEF Files
  <2> QED BY <1>1, <1>3, <2>1, <2>2, <2>3
          DEF CountsReady, SealsReady, RepairsFilter, RepairsCount
<1>12. (n + 1 > 2 => n > 1) /\ (n + 1 > 3 => n > 2)
  OBVIOUS
<1> QED BY <1>9, <1>10, <1>11, <1>12

\* Nothing is planned for a file that is ready.
LEMMA ReadyStage ==
  ASSUME NEW f \in Files, Ready(f, 4), NEW n \in 1..13
  PROVE  Stage(Stages[n], f, f, <<>>, FALSE) = <<>>
<1>0. Planned(<<>>) = {} /\ Semantic(<<>>) = <<>>
  <2>1. <<>> \in Seq(Action)
    OBVIOUS
  <2> QED BY <2>1, PlannedNone, SemanticIs
<1>1. Locatable(f) => SuperReady(f) /\ SealsReady(f) /\ CountsReady(f)
  BY DEF Ready
<1>2. ~Locatable(f) => "base" \in f.bad /\ "signature" \in f.bad
  BY DEF Locatable
<1>3. Reachable(f) => Locatable(f)
  BY DEF Reachable, Locatable
<1>4. "signature" \in f.bad => "base" \in f.bad
  BY <1>1, <1>2 DEF SuperReady
<1>5. n = 1 => Stage(Stages[n], f, f, <<>>, FALSE) = <<>>
  BY <1>4, StagesAre DEF Stage, Signature, Field
<1>6. n = 2 => Stage(Stages[n], f, f, <<>>, FALSE) = <<>>
  BY <1>1, StagesAre DEF Stage, SuperBase, SuperReadable, SuperReady, Field
<1>7. n = 3 => Stage(Stages[n], f, f, <<>>, FALSE) = <<>>
  BY <1>1, StagesAre DEF Stage, SuperFlags, SuperReadable, SuperReady, Field
<1>8. n = 4 => Stage(Stages[n], f, f, <<>>, FALSE) = <<>>
  <2>1. Locatable(f) => f.sum["super"] = Body(f, "super") \ {}
    BY <1>1 DEF SuperReady, Sealed
  <2> QED BY <1>0, <2>1, StagesAre DEF Stage, SuperChecksum, SuperReadable, BodyAfter, Reseal
<1>9. n = 5 => Stage(Stages[n], f, f, <<>>, FALSE) = <<>>
  BY <1>1, <1>3, StagesAre DEF Stage, ChunkLayout, SealsReady, Field
<1>10. n = 6 => Stage(Stages[n], f, f, <<>>, FALSE) = <<>>
  BY <1>1, <1>3, StagesAre DEF Stage, FilterParameters, CountsReady, Complete, Field
<1>11. n = 7 => Stage(Stages[n], f, f, <<>>, FALSE) = <<>>
  BY <1>0, StagesAre DEF Stage, FinalizeSemantic
<1>12. n = 8 => Stage(Stages[n], f, f, <<>>, FALSE) = <<>>
  BY <1>1, <1>3, StagesAre DEF Stage, HeaderChecksum, BadChecksum, SealsReady
<1>13. n = 9 => Stage(Stages[n], f, f, <<>>, FALSE) = <<>>
  BY <1>1, <1>3, StagesAre DEF Stage, FreeSpaceCount, CountsReady, Complete
<1>14. n = 10 => Stage(Stages[n], f, f, <<>>, FALSE) = <<>>
  BY <1>1, <1>3, StagesAre DEF Stage, TreeTotal, SealsReady, Field
<1>15. n = 11 => Stage(Stages[n], f, f, <<>>, FALSE) = <<>>
  <2>1. Reachable(f) => f.sum["bthd"] = Body(f, "bthd") \ {}
    BY <1>1, <1>3 DEF SealsReady, Sealed
  <2> QED BY <1>0, <2>1, StagesAre DEF Stage, TreeChecksum, BodyAfter, Reseal
<1>16. n = 12 => Stage(Stages[n], f, f, <<>>, FALSE) = <<>>
  BY <1>1, <1>3, StagesAre DEF Stage, ReachedChecksum, BadChecksum, SealsReady, Complete
<1>17. n = 13 => Stage(Stages[n], f, f, <<>>, FALSE) = <<>>
  BY <1>1, <1>3, StagesAre DEF Stage, ReachedChecksum, BadChecksum, SealsReady
<1>18. n \in {1, 2, 3, 4, 5, 6, 7, 8, 9, 10, 11, 12, 13}
  OBVIOUS
<1> QED BY <1>5, <1>6, <1>7, <1>8, <1>9, <1>10, <1>11, <1>12, <1>13, <1>14, <1>15, <1>16, <1>17,
           <1>18

LEMMA ReadyPlan ==
  ASSUME NEW f \in Files, Ready(f, 4)
  PROVE  Plan(f) = <<>>
<1> DEFINE h == Chain(f)  D == {n \in 0..13 : h[n] = <<>>}
<1>1. h[0] = <<>> /\ \A n \in 1..13 : h[n] = h[n - 1] \o Stage(Stages[n], f, f, h[n - 1], FALSE)
  BY ChainIs
<1>2. \A n \in 1..13 : Stage(Stages[n], f, f, <<>>, FALSE) = <<>>
  BY ReadyStage
<1>3. <<>> \o <<>> = <<>>
  <2>1. <<>> \in Seq(Action)
    OBVIOUS
  <2> QED BY <2>1, ConcatNone
<1> HIDE DEF h
<1>4. \A n \in 1..13 : n - 1 \in D => n \in D
  <2> SUFFICES ASSUME NEW n \in 1..13, n - 1 \in D PROVE n \in D
    OBVIOUS
  <2>1. h[n - 1] = <<>>
    OBVIOUS
  <2>2. h[n] = h[n - 1] \o Stage(Stages[n], f, f, h[n - 1], FALSE)
    BY <1>1
  <2>3. h[n] = <<>>
    BY <1>2, <1>3, <2>1, <2>2
  <2> QED BY <2>3
<1>5. 0 \in D
  BY <1>1
<1> HIDE DEF D
<1>6. \A n \in 0..13 : n \in D
  BY <1>4, <1>5, Fourteen
<1>7. h[13] = <<>>
  BY <1>6 DEF D
<1> QED BY <1>7, PlanIsChain DEF h

LEMMA NoneJoined ==
  ASSUME NEW S, NEW u \in Seq(S), NEW v \in Seq(S), u \o v = <<>>
  PROVE  u = <<>> /\ v = <<>>
<1>1. Len(u) + Len(v) = 0 /\ Len(u) \in Nat /\ Len(v) \in Nat
  OBVIOUS
<1>2. Len(u) = 0 /\ Len(v) = 0
  BY <1>1
<1> QED BY <1>2

\* An empty plan means that no stage finds anything.
LEMMA EmptyStages ==
  ASSUME NEW f \in Files, Plan(f) = <<>>, NEW n \in 1..13
  PROVE  Stage(Stages[n], f, f, <<>>, FALSE) = <<>>
<1> DEFINE h == Chain(f)
<1>1. h[13] = <<>>
  BY PlanIsChain
<1>2. \A m \in 0..13 : h[m] \in Seq(Action)
  BY ChainType
<1>3. \A m \in 0..13 : h[m] = <<>>
  <2> SUFFICES ASSUME NEW m \in 0..13 PROVE h[m] = <<>>
    OBVIOUS
  <2>1. PICK t \in Seq(Action) : h[13] = h[m] \o t
    BY ChainBegins
  <2>2. h[m] \in Seq(Action)
    BY <1>2
  <2> HIDE DEF h
  <2>3. h[m] \o t = <<>>
    BY <1>1, <2>1
  <2> QED BY <2>2, <2>3, NoneJoined
<1> DEFINE k == n - 1  d == Stage(Stages[n], f, f, h[k], FALSE)
<1>4. h[n] = h[k] \o d
  BY ChainIs
<1>5. k \in 0..13 /\ n \in 0..13
  OBVIOUS
<1>6. h[k] = <<>> /\ h[n] = <<>>
  <2> HIDE DEF h, k
  <2> QED BY <1>3, <1>5
<1>7. d \in Seq(Action)
  BY <1>2, <1>5, StageType
<1>8. <<>> \o d = d
  <2> HIDE DEF d
  <2> QED BY <1>7, ConcatNone
<1> QED BY <1>4, <1>6, <1>8

\* Where nothing is planned nothing is left, but what is excused.
LEMMA NothingPlanned ==
  ASSUME NEW f \in Files, Plan(f) = <<>>
  PROVE  NothingLeft(f)
<1> SUFFICES ASSUME Locatable(f), f.complete, f.simple PROVE Sound(f)
  BY DEF NothingLeft
<1> DEFINE S(n) == Stage(Stages[n], f, f, <<>>, FALSE) = <<>>
<1>1. S(1) /\ S(2) /\ S(3) /\ S(4) /\ S(5) /\ S(6)
  <2>1. \A n \in 1..13 : S(n)
    BY EmptyStages
  <2> HIDE DEF S
  <2> QED BY <2>1
<1>2. S(8) /\ S(9) /\ S(10) /\ S(11) /\ S(12)
  <2>1. \A n \in 1..13 : S(n)
    BY EmptyStages
  <2> HIDE DEF S
  <2> QED BY <2>1
<1>3. /\ Planned(<<>>) = {} /\ Semantic(<<>>) = <<>>
      /\ \A s \in Structures : Body(f, s) \ {} = Body(f, s)
      /\ "super" \in Structures /\ "bthd" \in Structures
  <2>1. <<>> \in Seq(Action)
    OBVIOUS
  <2> QED BY <2>1, PlannedNone, SemanticIs DEF Structures
<1>4. \A cond, x : Field(cond, f, x) = <<>> => ~(cond /\ x \in f.bad)
  BY DEF Field
<1>5. \A s \in Structures : Reseal(f, s, Body(f, s)) = <<>> => Sealed(f, s)
  BY DEF Reseal, Sealed
<1>6. "signature" \notin f.bad
  <2>1. Field("base" \notin f.bad, f, "signature") = <<>>
    BY <1>1, StagesAre DEF Stage, Signature
  <2> QED BY <1>4, <2>1 DEF Locatable
<1>7. SuperReadable(f, f)
  BY <1>6 DEF SuperReadable
<1>8. "base" \notin f.bad
  <2>1. Field(SuperReadable(f, f) /\ "signature" \notin f.bad, f, "base") = <<>>
    BY <1>1, StagesAre DEF Stage, SuperBase
  <2> QED BY <1>6, <1>7, <2>1 DEF Field
<1>9. "flags" \notin f.bad
  <2>1. Field(SuperReadable(f, f), f, "flags") = <<>>
    BY <1>1, StagesAre DEF Stage, SuperFlags
  <2> QED BY <1>7, <2>1 DEF Field
<1>10. Sealed(f, "super")
  <2>1. Reseal(f, "super", Body(f, "super") \ {}) = <<>>
    BY <1>1, <1>3, <1>7, StagesAre DEF Stage, SuperChecksum, BodyAfter
  <2> QED BY <1>3, <1>5, <2>1
<1>11. Reachable(f) /\ Complete(f) /\ f.walked = 2
  BY <1>6, <1>8 DEF Reachable, Complete, Files
<1>12. "element" \notin f.bad
  <2>1. Field(Reachable(f) /\ f.walked # 0 /\ f.simple, f, "element") = <<>>
    BY <1>1, StagesAre DEF Stage, ChunkLayout
  <2> QED BY <1>11, <2>1 DEF Field
<1>13. Sealed(f, "header")
  <2>1. SUFFICES ASSUME BadChecksum(f, "header") PROVE FALSE
    BY <1>11 DEF BadChecksum
  <2>2. Reseal(f, "header", Body(f, "header")) = <<>>
    BY <1>2, <1>3, <1>11, <2>1, StagesAre DEF Stage, HeaderChecksum
  <2> QED BY <1>5, <2>1, <2>2 DEF BadChecksum, Structures
<1>14. "filter" \notin f.bad
  <2>1. Field(/\ Reachable(f) /\ Complete(f) /\ Sealed(f, "header")
              /\ "filter" \in f.bad, f, "filter") = <<>>
    BY <1>1, StagesAre DEF Stage, FilterParameters
  <2> QED BY <1>11, <1>13, <2>1 DEF Field
<1>15. Sealed(f, "fshd")
  <2>1. SUFFICES ASSUME BadChecksum(f, "fshd") PROVE FALSE
    BY <1>11 DEF BadChecksum
  <2>2. Reseal(f, "fshd", Body(f, "fshd")) = <<>>
    BY <1>2, <1>3, <1>11, <2>1, StagesAre DEF Stage, ReachedChecksum
  <2> QED BY <1>5, <2>1, <2>2 DEF BadChecksum, Structures
<1>16. "sections" \notin f.bad
  <2> SUFFICES ASSUME "sections" \in f.bad PROVE FALSE
    OBVIOUS
  <2> DEFINE p == <<SetField(f, "sections")>>  r == Reseal(f, "fshd", {})
  <2>1. p \o r = <<>>
    BY <1>2, <1>11, <1>15, StagesAre DEF Stage, FreeSpaceCount
  <2>2. p \in Seq(Action) /\ r \in Seq(Action)
    BY FieldsAre, SetFieldType, ResealIs DEF Structures
  <2>3. p # <<>>
    OBVIOUS
  <2> HIDE DEF p, r
  <2> QED BY <2>1, <2>2, <2>3, NoneJoined
<1>17. "total" \notin f.bad
  <2>1. Field(Reachable(f), f, "total") = <<>>
    BY <1>2, StagesAre DEF Stage, TreeTotal
  <2> QED BY <1>11, <2>1 DEF Field
<1>18. Sealed(f, "bthd")
  <2>1. Reseal(f, "bthd", Body(f, "bthd") \ {}) = <<>>
    BY <1>2, <1>3, <1>11, StagesAre DEF Stage, TreeChecksum, BodyAfter
  <2> QED BY <1>3, <1>5, <2>1
<1>19. f.bad = {}
  <2>1. f.bad \subseteq Fields
    BY DEF Files
  <2> QED BY <2>1, <1>6, <1>8, <1>9, <1>12, <1>14, <1>16, <1>17, FieldsAre
<1> QED BY <1>10, <1>13, <1>15, <1>18, <1>19 DEF Sound, Structures

\* How far the file of each step has got, for the number of plans made since the last
\* kill, time-out or foreign write.
RoundInv ==
  /\ pc = "idle" => Ready(disk["input"], round + 1)
  /\ pc \in {"reviewed", "matched", "copy", "copying"} => Ready(disk["input"], round)
  /\ pc = "reviewed" /\ round > 0 => plan = Plan(disk["input"])
  /\ pc = "open" => Ready(disk[Target], round)
  /\ pc = "applying" => /\ Ready(seen, round)
                       /\ Progress(seen, AsSeen(disk[Target], seen), acts, queue, stage)
                       /\ (round > 0 => AsSeen(disk[Target], seen) = disk[Target])
  /\ pc = "verify" \/ Finished => Ready(disk[Target], round + 1)

LEMMA ReadyFirst ==
  ASSUME NEW f
  PROVE  Ready(f, 0) /\ Ready(f, 0 + 1)
<1>1. /\ ~(0 > 1) /\ ~(0 > 2) /\ ~(0 > 3)
      /\ ~(0 + 1 > 1) /\ ~(0 + 1 > 2) /\ ~(0 + 1 > 3)
  OBVIOUS
<1> QED BY <1>1 DEF Ready

LEMMA RoundStep ==
  PatchTypes /\ ApplyInv /\ RoundInv /\ [PatchNext]_patchVars => RoundInv'
<1> SUFFICES ASSUME PatchTypes, ApplyInv, RoundInv, [PatchNext]_patchVars PROVE RoundInv'
  OBVIOUS
<1>0. /\ disk \in [Names -> Files] /\ seen \in Files /\ Target \in Names /\ disk[Target] \in Files
      /\ acts \in Seq(Action) /\ queue \in Seq(Action) /\ stage \in 0..13
      /\ round \in Nat /\ "input" \in Names /\ "output" \in Names
  <2>1. Target \in Names
    BY ModeIs DEF PatchTypes, Command, Target
  <2>2. round \in Nat
    BY PatchAssumption DEF PatchTypes, CountTypes
  <2> QED BY <2>1, <2>2 DEF PatchTypes, FileTypes, ListTypes, CountTypes, Names
<1>1. CASE MakePlan
  <2>1. PICK view \in {disk["input"]} \cup CutsOf(disk["input"]) :
          Analysis(disk["input"], view, round + 1) /\ plan' = Plan(view)
    BY <1>1 DEF MakePlan
  <2>2. pc = "idle" /\ pc' = "reviewed" /\ disk' = disk
    BY <1>1 DEF MakePlan
  <2>3. CASE view = disk["input"] /\ round' = round + 1
    BY <2>1, <2>2, <2>3 DEF RoundInv, Finished
  <2>4. CASE round' = 0
    <3>1. Ready(disk'["input"], round') /\ ~(round' > 0)
      BY <2>4, ReadyFirst
    <3> QED BY <2>2, <3>1 DEF RoundInv, Finished
  <2> QED BY <2>1, <2>3, <2>4 DEF Analysis
<1>2. CASE Compare
  <2>1. PICK view \in {disk["input"]} \cup CutsOf(disk["input"]) :
          Analysis(disk["input"], view, round)
    BY <1>2 DEF Compare
  <2>2. /\ pc = "reviewed" /\ disk' = disk
        /\ pc' = "matched" \/ (pc' = "done" /\ outcome'.status = 2)
    BY <1>2 DEF Compare, EndApply
  <2>3. round' = round \/ round' = 0
    BY <2>1 DEF Analysis
  <2>4. Ready(disk'["input"], round')
    BY <2>2, <2>3, ReadyFirst DEF RoundInv
  <2> QED BY <2>2, <2>4 DEF RoundInv, Finished
<1>3. CASE ChooseTarget
  <2>1. /\ pc = "matched" /\ UNCHANGED <<disk, options, round>>
        /\ \/ pc' = "open" /\ options.inPlace
           \/ pc' = "copy"
           \/ pc' = "done" /\ outcome'.status = 1
    BY <1>3 DEF ChooseTarget, EndApply, run
  <2>2. pc' = "open" => Target = "input"
    BY <2>1, ModeIs DEF PatchTypes, Command, Target
  <2> QED BY <2>1, <2>2 DEF RoundInv, Finished, Target
<1>4. CASE BeginCopy
  <2>1. disk'["input"] = disk["input"] /\ pc = "copy" /\ pc' = "copying" /\ round' = round
    BY <1>0, <1>4 DEF BeginCopy
  <2> QED BY <2>1 DEF RoundInv, Finished
<1>5. CASE EndCopy
  <2>1. /\ pc = "copying" /\ pc' = "open" /\ UNCHANGED <<options, round>>
        /\ disk'["output"] = disk["input"]
    BY <1>0, <1>5 DEF EndCopy
  <2>2. Target' = "output"
    BY <2>1 DEF PatchTypes, Command, Target
  <2> QED BY <2>1, <2>2 DEF RoundInv, Finished
<1>6. CASE Analyse
  <2>1. /\ pc = "open" /\ pc' = "applying" /\ disk'[Target'] = disk[Target]
        /\ acts' = <<>> /\ queue' = <<>> /\ stage' = 0
    BY <1>6 DEF Analyse, ApplyInv, Target
  <2>2. PICK view \in {disk[Target]} \cup CutsOf(disk[Target]) :
          Analysis(disk[Target], view, round) /\ seen' = view
    BY <1>6 DEF Analyse
  <2>3. seen' \in Files /\ AsSeen(disk'[Target'], seen') = seen'
    BY <1>0, <2>1, <2>2, AsAnalysed
  <2>4. Progress(seen', AsSeen(disk'[Target'], seen'), acts', queue', stage')
    BY <2>1, <2>3, ProgressBegins
  <2>5. CASE view = disk[Target] /\ round' = round
    <3>1. Ready(seen', round') /\ AsSeen(disk'[Target'], seen') = disk'[Target']
      BY <2>1, <2>2, <2>3, <2>5 DEF RoundInv
    <3> QED BY <2>1, <2>4, <3>1 DEF RoundInv, Finished
  <2>6. CASE round' = 0
    <3>1. Ready(seen', round') /\ ~(round' > 0)
      BY <2>6, ReadyFirst
    <3> QED BY <2>1, <2>4, <3>1 DEF RoundInv, Finished
  <2> QED BY <2>2, <2>5, <2>6 DEF Analysis
<1>7. CASE Collect
  <2> DEFINE n == stage + 1  t == AsSeen(disk[Target], seen)
             d == Stage(Stages[n], t, seen, acts, TRUE)
             q == Writes(Stages[n], d, acts)
  <2>0. n \in 1..13 => d = Stage(Stages[n], disk[Target], seen, acts, TRUE)
    BY <1>0, AsSeenStage
  <2>8. /\ pc = "applying" /\ pc' = pc /\ queue = <<>> /\ stage < 13 /\ stage' = n
        /\ acts' = acts \o Stage(Stages[n], disk[Target], seen, acts, TRUE)
        /\ queue' = Writes(Stages[n], Stage(Stages[n], disk[Target], seen, acts, TRUE), acts)
        /\ UNCHANGED <<disk, seen, options, round>>
    BY <1>7, StagesAre DEF Collect
  <2>9. n \in 1..13
    BY <1>0, <2>8
  <2>1. /\ pc = "applying" /\ pc' = pc /\ queue = <<>> /\ stage < 13 /\ stage' = n
        /\ acts' = acts \o d /\ queue' = q /\ UNCHANGED <<disk, seen, options, round>>
    BY <2>0, <2>8, <2>9
  <2>2. n \in 1..13 /\ stage \in 0..12 /\ n = stage + 1
    BY <1>0, <2>1
  <2>3. RunInv(seen, t, acts, <<>>, stage) /\ Progress(seen, t, acts, <<>>, stage)
    BY <2>1 DEF ApplyInv, RoundInv
  <2>4. Collecting(seen, t, acts, stage, n, d, q)
    BY <2>3 DEF Collecting
  <2>5. t \in Files
    BY <1>0, AsSeenIs
  <2>6. AsSeen(disk'[Target'], seen') = t /\ disk'[Target'] = disk[Target]
    BY <2>1 DEF Target
  <2>a. round > 0 => t = disk[Target]
    BY <2>1 DEF RoundInv
  <2> HIDE DEF n, t, d, q
  <2>7. Progress(seen, t, acts \o d, q, n)
    BY <1>0, <2>2, <2>4, <2>5, ProgressCollected
  <2> QED BY <2>1, <2>6, <2>7, <2>a DEF RoundInv, Finished
<1>8. CASE WriteNext
  <2>1. /\ pc = "applying" /\ pc' = pc /\ queue # <<>> /\ queue' = Tail(queue)
        /\ disk' = [disk EXCEPT ![Target] = Write(@, Head(queue))]
        /\ UNCHANGED <<seen, options, acts, stage, round>>
    BY <1>8 DEF WriteNext
  <2>2. disk'[Target'] = Write(disk[Target], Head(queue))
    BY <1>0, <2>1 DEF Target
  <2> DEFINE u == AsSeen(disk[Target], seen)
  <2>3. Progress(seen, u, acts, queue, stage) /\ (round > 0 => u = disk[Target])
    BY <2>1 DEF RoundInv
  <2>5. u \in Files /\ Head(queue) \in Action
    BY <1>0, <2>1, AsSeenIs, PlannedHead
  <2>6. AsSeen(disk'[Target'], seen') = Write(u, Head(queue))
    BY <1>0, <2>1, <2>2, <2>5, AsSeenWritten
  <2> HIDE DEF u
  <2>4. Progress(seen, Write(u, Head(queue)), acts, Tail(queue), stage)
    BY <1>0, <2>1, <2>3, <2>5, ProgressWritten
  <2> QED BY <2>1, <2>2, <2>3, <2>4, <2>6 DEF RoundInv, Finished
<1>9. CASE Close
  <2>1. /\ pc = "applying" /\ queue = <<>> /\ stage = 13 /\ pc' = "verify"
        /\ UNCHANGED <<disk, options, round>>
    BY <1>9, StagesAre DEF Close, run
  <2> DEFINE u == AsSeen(disk[Target], seen)
  <2>2. /\ RunInv(seen, u, acts, <<>>, 13)
        /\ Progress(seen, u, acts, <<>>, 13) /\ Ready(seen, round)
        /\ round > 0 => u = disk[Target]
    BY <2>1 DEF ApplyInv, RoundInv
  <2>3. Ready(disk[Target], round + 1)
    <3>1. CASE round = 0
      BY <3>1, ReadyFirst
    <3>2. CASE round > 0
      <4>1. u = disk[Target]
        BY <2>2, <3>2
      <4> HIDE DEF u
      <4> QED BY <1>0, <2>2, <4>1, RunReadies
    <3> QED BY <1>0, <3>1, <3>2
  <2> QED BY <2>1, <2>3 DEF RoundInv, Finished, Target
<1>10. CASE Verify
  <2>1. pc = "verify" /\ pc' = "done" /\ UNCHANGED <<disk, options, round>>
    BY <1>10 DEF Verify, EndApply, run
  <2> QED BY <2>1 DEF RoundInv, Finished, Target
<1>11. CASE KillApply
  BY <1>11 DEF KillApply, RoundInv, Finished
<1>12. CASE Touch
  <2>1. /\ round' = 0 /\ ~(pc = "applying" /\ options.inPlace)
        /\ UNCHANGED <<pc, options, acts, queue, seen, stage, outcome>>
    BY <1>12 DEF Touch, run
  <2>2. disk'["output"] = disk["output"]
    BY <1>0, <1>12 DEF Touch
  <2>3. pc = "applying" => Target = "output"
    BY <2>1 DEF PatchTypes, Command, Target
  <2>4. pc = "applying" => Progress(seen', AsSeen(disk'[Target'], seen'), acts', queue', stage')
    BY <2>1, <2>2, <2>3 DEF RoundInv, Target
  <2>5. ~(round' > 0) /\ \A f : Ready(f, round') /\ Ready(f, round' + 1)
    BY <2>1, ReadyFirst
  <2> QED BY <2>1, <2>4, <2>5 DEF RoundInv, Finished
<1>13. CASE Again
  <2>1. PICK n \in {"input"} \cup (IF pc = "done" /\ outcome.status \in {0, 4}
                                   THEN {Target} ELSE {}) :
          /\ disk' = [disk EXCEPT !["input"] = disk[n]]
          /\ round' = IF n = Target /\ pc = "done" /\ outcome.status \in {0, 4} THEN round ELSE 0
    BY <1>13 DEF Again
  <2>2. pc' = "idle" /\ disk'["input"] = disk[n]
    BY <1>0, <1>13, <2>1 DEF Again
  <2>3. Ready(disk'["input"], round' + 1)
    <3>1. CASE n = Target /\ pc = "done" /\ outcome.status \in {0, 4}
      <4>1. round' = round
        BY <2>1, <3>1
      <4>2. Ready(disk[Target], round + 1)
        BY <3>1 DEF RoundInv, Finished
      <4> QED BY <2>2, <3>1, <4>1, <4>2
    <3>2. CASE ~(n = Target /\ pc = "done" /\ outcome.status \in {0, 4})
      <4>1. round' = 0
        BY <2>1, <3>2
      <4> QED BY <4>1, ReadyFirst
    <3> QED BY <3>1, <3>2
  <2> QED BY <2>2, <2>3 DEF RoundInv, Finished
<1>14. CASE LeaveIt \/ UNCHANGED patchVars
  BY <1>14 DEF LeaveIt, patchVars, RoundInv, Finished, Target
<1> QED BY <1>1, <1>2, <1>3, <1>4, <1>5, <1>6, <1>7, <1>8, <1>9, <1>10, <1>11, <1>12, <1>13,
           <1>14 DEF PatchNext

LEMMA RoundsCorrect == PatchSpec => [](PatchTypes /\ ApplyInv /\ RoundInv)
<1>1. PatchInit => RoundInv
  <2> SUFFICES ASSUME PatchInit PROVE RoundInv
    OBVIOUS
  <2>1. pc = "idle" /\ round = 0
    BY DEF PatchInit
  <2>2. Ready(disk["input"], round + 1)
    BY <2>1, ReadyFirst
  <2> QED BY <2>1, <2>2 DEF RoundInv, Finished
<1> QED BY <1>1, RoundStep, ApplyCorrect, PTL DEF PatchSpec

\* Repeating plan and apply ends: three runs repair whatever can be, each what the one
\* before it made reachable, so that a fourth plan is empty, and an empty plan means that
\* nothing is left.  Three rounds are not enough, hence the bound.
THEOREM ConvergesCorrect ==
  ASSUME MaxRounds >= 4
  PROVE  PatchSpec => []Converges
<1>1. PatchTypes /\ RoundInv => Converges
  <2> SUFFICES ASSUME PatchTypes, RoundInv, pc = "reviewed"
               PROVE  /\ round = MaxRounds => plan = <<>>
                      /\ plan = <<>> /\ Plan(disk["input"]) = plan => NothingLeft(disk["input"])
    BY DEF Converges
  <2>1. disk["input"] \in Files /\ MaxRounds \in Nat
    BY PatchAssumption DEF PatchTypes, FileTypes, Names
  <2>2. ASSUME round = MaxRounds PROVE plan = <<>>
    <3>1. round > 0 /\ round > 1 /\ round > 2 /\ round > 3
      BY <2>1, <2>2
    <3>2. plan = Plan(disk["input"]) /\ Ready(disk["input"], round)
      BY <3>1 DEF RoundInv
    <3>3. 4 > 1 /\ 4 > 2 /\ 4 > 3
      OBVIOUS
    <3>4. Ready(disk["input"], 4)
      BY <3>1, <3>2 DEF Ready
    <3> QED BY <2>1, <3>2, <3>4, ReadyPlan
  <2>3. plan = <<>> /\ Plan(disk["input"]) = plan => NothingLeft(disk["input"])
    BY <2>1, NothingPlanned
  <2> QED BY <2>2, <2>3
<1> QED BY <1>1, RoundsCorrect, PTL
=============================================================================
