------------------------------ MODULE MCHwmod ------------------------------
(* A block and its parent, with the flags that change what the code does.  *)
EXTENDS Hwmod, TLC

CONSTANTS child, parent

Family == child :> parent
BothOrders == {<<parent, child>>, <<child, parent>>}

OfTheChild == {
    {"SYSC", "WAKEUP"}, {"SYSC", "SWSUP_SIDLE", "NO_CACHE", "MUX"},
    {"SYSC", "SWSUP_SIDLE_ACT", "PRE_SHUTDOWN"},
    {"SYSC", "NO_IDLE"}, {"SYSC", "INIT_NO_IDLE"},
    {"SYSC", "NEEDS_REIDLE", "SWSUP_SIDLE_ACT", "WAKEUP"},
    {"LINES", "CLKDM_NOAUTO"},
    {"SYSC", "INIT_NO_RESET", "BLOCK_WFI", "CLKDM_NOAUTO"},
    {"EXT_OPT_MAIN_CLK", "BLOCK_WFI"}}
OfTheParent == {{"SYSC", "INIT_NO_IDLE"}, {"SYSC", "NO_IDLE"}}

\* What the parent's setup does depends on the parent's flags only.
FlagChoices ==
    {(child :> c @@ parent :> {}) :
        c \in OfTheChild \cup {{"LINES", "NO_IDLE"}}}
    \cup {(child :> {"SYSC", "WAKEUP"} @@ parent :> p) : p \in OfTheParent}
=============================================================================
