--------------------------- MODULE MCHookTransaction ---------------------------
(***************************************************************************)
(* HookTransaction for TLC: functions of each backend's own and two that   *)
(* both patch, the filter and DPA_GetPtr.                                  *)
(***************************************************************************)
EXTENDS HookTransaction

MCFunction == {"pointer", "position", "wnd", "filter", "dpa"}
MCWanted ==
    [b \in Backends |->
        IF b = "xaml" THEN {"pointer", "position", "filter", "dpa"}
        ELSE {"wnd", "filter", "dpa"}]
=============================================================================
