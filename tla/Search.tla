------------------------------- MODULE Search -------------------------------
(***************************************************************************)
(* What a marker search promises, whoever carries it out: every offset of  *)
(* the file is examined once, by whichever part of the search, what is     *)
(* found is exactly what occurs there, and the answer is complete or there *)
(* is none; and the answer lists each occurrence once, in the order of the *)
(* file.                                                                   *)
(***************************************************************************)
EXTENDS Naturals

VARIABLES
  offsets,      \* the offsets of the file; it does not change
  occurrences,  \* the pairs of an offset and a marker that occurs there
  examined,     \* offsets examined so far
  found,        \* occurrences found so far
  outcome,      \* "pending", "answered" or "failed"
  answer        \* the answer, a sequence of occurrences
vars == <<offsets, occurrences, examined, found, outcome, answer>>

Init == examined = {} /\ found = {} /\ outcome = "pending" /\ answer = <<>>

Examine ==
  /\ outcome = "pending"
  /\ examined # examined' /\ examined \subseteq examined' /\ examined' \subseteq offsets
  /\ found' = found \cup {o \in occurrences : o[1] \in examined' \ examined}
  /\ UNCHANGED <<offsets, occurrences, outcome, answer>>

Answer ==
  /\ outcome = "pending" /\ outcome' = "answered"
  /\ examined = offsets
  /\ {answer'[i] : i \in DOMAIN answer'} = found
  /\ \A i, j \in DOMAIN answer' :
       i < j => answer'[i][1] <= answer'[j][1] /\ answer'[i] # answer'[j]
  /\ UNCHANGED <<offsets, occurrences, examined, found>>

GiveUp ==
  /\ outcome = "pending" /\ outcome' = "failed"
  /\ UNCHANGED <<offsets, occurrences, examined, found, answer>>

Spec == Init /\ [][Examine \/ Answer \/ GiveUp]_vars
=============================================================================
