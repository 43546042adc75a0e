------------------------------- MODULE MCWalk -------------------------------
EXTENDS Walk

\* The superblocks that seed the walk in different ways; an extension past the
\* declared end of file seeds it as an undefined one does.
MCFiles ==
  {[root |-> Root, ext |-> e] : e \in {Ext, Root, NoAddr}}
    \cup {[root |-> PastEof, ext |-> Outside], [root |-> Outside, ext |-> NoAddr]}

MCPastEofFiles == {[root |-> Root, ext |-> PastEof]}

\* The defaults of the strict profiles and of the forensic one, which goes deeper.
Strict == [continue |-> FALSE, sweep |-> FALSE, depth |-> 1]
Forensic == [continue |-> TRUE, sweep |-> TRUE, depth |-> 2]
MCOptions == {Strict, Forensic}

MCDefaultOptions == {Strict}
=============================================================================
