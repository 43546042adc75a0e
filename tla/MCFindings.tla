----------------------------- MODULE MCFindings -----------------------------
EXTENDS Findings

MCCodes ==
  {"c_missing_storage", "c_checksum", "r_objects", "r_bytes", "p_feature", "w_advisory"}

MCCodeClass ==
  [c \in MCCodes |->
     CASE c \in {"c_missing_storage", "c_checksum"} -> "corrupt"
       [] c \in {"r_objects", "r_bytes"} -> "resource"
       [] c = "p_feature" -> "policy"
       [] c = "w_advisory" -> "warning"]
=============================================================================
