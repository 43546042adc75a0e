------------------------------ MODULE MCDriver ------------------------------
EXTENDS Driver

\* A short walk in a short limit, and a long one whose limit is less than two
\* of its deadlines away (forensic: 30 and 50 seconds), with an operation limit
\* at the top of the counter and one below it.
MCLimits == {[budget |-> 1, wall |-> 3, ops |-> 5], [budget |-> 2, wall |-> 3, ops |-> 9]}

MCTightLimits == {[budget |-> 2, wall |-> 3, ops |-> 5]}
=============================================================================
