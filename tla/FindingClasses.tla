--------------------------- MODULE FindingClasses ---------------------------
(***************************************************************************)
(* The finding classes of h5policy, their precedence and the process exit  *)
(* code each one stands for (h5policy/pickles/h5_findings.pk).             *)
(***************************************************************************)
EXTENDS Integers

Classes == {"warning", "unsupported", "resource", "policy", "corrupt", "internal"}

\* h5policy_class_rank: the semantic precedence for mixed findings.
ClassRank(klass) ==
  CASE klass = "internal"    -> 60
    [] klass = "corrupt"     -> 50
    [] klass = "policy"      -> 46
    [] klass = "resource"    -> 44
    [] klass = "unsupported" -> 40
    [] klass = "warning"     -> 10
    [] OTHER                 -> 0

\* h5policy_class_exit_code over the H5POLICY_EXIT_* constants.
ClassExitCode(klass) ==
  CASE klass = "warning"     -> 1
    [] klass = "corrupt"     -> 2
    [] klass = "policy"      -> 3
    [] klass = "resource"    -> 4
    [] klass = "unsupported" -> 5
    [] klass = "internal"    -> 70
    [] OTHER                 -> 0

ExitAccept == 0
ExitCodes  == {ExitAccept} \cup {ClassExitCode(k) : k \in Classes}

\* The reports that are not a rejection: accept and accept_with_warnings.
Accepting(code) == code \in {ExitAccept, ClassExitCode("warning")}
=============================================================================
