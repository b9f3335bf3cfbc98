---------------------------- MODULE PolicyEngine ----------------------------
(***************************************************************************)
(* PolicyEngine.decide as a function of the call, the approval mode, the   *)
(* grants and the deny rules (src/src/policy/engine.py), with the tool     *)
(* catalog that gives a call its risk (src/src/tools/gateway.py).          *)
(***************************************************************************)

Modes == {"plan", "confirm_each", "allow_workspace_edits",
          "smart_development", "all_approvals_for_run"}
Risks == {"R0", "R1", "R2", "R3", "R4"}

ReadOnlyTools == {"list_files", "read_file", "search_text", "git_status", "git_diff"}
EditTools     == {"create_file", "replace_text"}
HardDenyTools == {"raw_shell", "execute_shell", "deploy", "read_secret",
                  "write_env", "install_package"}

\* A tool the catalog does not have is called with the privileged risk.
Risk(tool) == IF tool \in ReadOnlyTools THEN "R0" ELSE IF tool \in EditTools THEN "R1" ELSE "R4"

\* A call is its id, its tool, its risk and whether an argument names a secret path.
Call(id, tool, path) == [id |-> id, tool |-> tool, path |-> path, risk |-> Risk(tool)]

\* No grant and no mode reaches past this.
HardDeny(call) == call.tool \in HardDenyTools \/ call.path = "secret" \/ call.risk = "R4"

Granted(call, grants) == {call.id, call.tool, "all_approved_run"} \cap grants # {}

\* The risks a mode allows without asking; a mode that is not here allows R0 only.
Unasked(mode) ==
    {"R0"} \cup (IF mode = "allow_workspace_edits" THEN {"R1"} ELSE {})
           \cup (IF mode \in {"smart_development", "all_approvals_for_run"} THEN {"R1", "R2"} ELSE {})

Decide(call, mode, grants, denied) ==
    IF HardDeny(call) \/ call.tool \in denied THEN "deny"
    ELSE IF Granted(call, grants) \/ call.risk \in Unasked(mode) THEN "allow"
    ELSE "ask"
=============================================================================
