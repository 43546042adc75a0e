------------------------------ MODULE MCPatch ------------------------------
EXTENDS Patch

OnlyInPlace == {InPlace}
EveryMode == {InPlace, ToOutput, ForcedOutput, OntoItself}
=============================================================================
