--------------------------- MODULE WorkflowRules ----------------------------
(***************************************************************************)
(* The transition table of a data unit's workflow (internal/workflow):     *)
(* which action is legal from which status, and where it leads.            *)
(***************************************************************************)

Statuses == {"NotStarted", "Imported", "Validated", "Processed", "Certified"}
Actions  == {"import", "validate", "process", "certify", "reopen"}

AllowedCertifyEarly(s, a) ==
  CASE a = "import"   -> s # "Certified"
    [] a = "validate" -> s = "Imported"
    [] a = "process"  -> s = "Validated"
    [] a = "certify"  -> s \in {"Validated", "Processed"}
    [] a = "reopen"   -> TRUE

Allowed(s, a) ==
  CASE a = "import"   -> s # "Certified"
    [] a = "validate" -> s = "Imported"
    [] a = "process"  -> s = "Validated"
    [] a = "certify"  -> s = "Processed"
    [] a = "reopen"   -> TRUE

Target(a) ==
  CASE a = "import"   -> "Imported"
    [] a = "validate" -> "Validated"
    [] a = "process"  -> "Processed"
    [] a = "certify"  -> "Certified"
    [] a = "reopen"   -> "NotStarted"
=============================================================================
