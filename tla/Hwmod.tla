------------------------------- MODULE Hwmod -------------------------------
(***************************************************************************)
(* omap_hwmod.c of the patched kernel, as it runs on OMAP4 and later       *)
(* (DRA7): IP blocks from their registration over initialisation and setup *)
(* at boot to the calls of their drivers: enable, idle, shutdown, hard     *)
(* resets, wakeups, and what suspend does to all of them.                  *)
(*                                                                         *)
(* A call that runs under the lock of its block is one step.               *)
(* omap_hwmod_softreset takes no lock: its two writes are two steps.  The  *)
(* notifier that reidles blocks after a suspend makes its three calls      *)
(* beside the drivers.  An operator takes a block and returns the blocks   *)
(* the code may leave, its return value in r.  Every block has a           *)
(* clockdomain, whose enabling does not fail; of OCP_SYSCONFIG there are   *)
(* the slave idle mode and SOFTRESET.                                      *)
(***************************************************************************)
EXTENDS Integers, Sequences

CONSTANTS
    Blocks,         \* the IP blocks
    Orders,         \* omap_hwmod_list: the orders they may be registered in
    Driven,         \* those with a driver that calls at run time
    ParentOf,       \* parent_hwmod, on the blocks that have one
    Choices,        \* flags a block may have: functions on Blocks
    Lines,          \* reset lines of a block with the flag "LINES"
    MaxFailures,    \* bound: waits for a block that run out
    MaxLeaks        \* bound: shutdowns of an enabled CLKDM_NOAUTO block

ASSUME BlocksAreFamilies ==
    /\ Driven \subseteq Blocks
    /\ DOMAIN ParentOf \subseteq Blocks
    /\ \A b \in DOMAIN ParentOf : ParentOf[b] \in Blocks \ DOMAIN ParentOf

\* Something is registered before omap_hwmod_setup_all runs.
ASSUME OrdersAreLists == Orders \subseteq Seq(Blocks) \ {<<>>}

EINVAL == "EINVAL"
EPERM == "EPERM"
ETIMEDOUT == "ETIMEDOUT"
OK == "OK"

VARIABLES
    hw,         \* the blocks
    list,       \* omap_hwmod_list
    phase,      \* "early" (omap_hwmod_setup_one), "all", "run"
    next,       \* where omap_hwmod_setup_all is on the list
    inUse,      \* blocks whose driver was told that they are enabled
    resets,     \* what a softreset has still to write, by block and caller
    stage       \* where the notifier is with each block

vars == <<hw, list, phase, next, inUse, resets, stage>>

States == {"REGISTERED", "INITIALIZED", "ENABLED", "IDLE", "DISABLED"}
\* "reset" and "resetting" are what a reset leaves: the latter still has
\* SOFTRESET set.
Modes == {"reset", "resetting", "no", "force", "smart", "smart_wkup"}
Resetters == {"driver", "notifier"}
Stages == {"rest", "due", "enabled", "softreset"}

(* state, postsetup, skip (_HWMOD_SKIP_ENABLE), loaded                     *)
(* (_HWMOD_SYSCONFIG_LOADED), asserted (reset lines), cache and srst       *)
(* (_sysc_cache: the idle mode and SOFTRESET) and r are the code's.        *)
(* clocks, clkdm, deny, dep and poll count what this block has enabled and *)
(* not disabled: its clocks, its clockdomain, the clockdomain's deny_idle, *)
(* its dependency on the MPU, the idle loop's polling. modulemode, reg     *)
(* (OCP_SYSCONFIG) and mux are the hardware.                               *)
(* History: failed counts enables that failed, noauto shutdowns that leave *)
(* the clockdomain denied, odd holds what else went another way than the   *)
(* usual one, and blind says that a register was accessed without clocks   *)
(* though nothing had failed or gone another way; unlocked says so of the  *)
(* writes of omap_hwmod_softreset; busy says that a softreset is between   *)
(* its writes, or that a reset was still going on when it was looked at.   *)
Fresh(flags) ==
    [flags |-> flags, state |-> "REGISTERED", postsetup |-> "ENABLED",
     skip |-> FALSE, loaded |-> FALSE, cache |-> "none", srst |-> FALSE,
     reg |-> "reset",
     asserted |-> IF "LINES" \in flags THEN Lines ELSE {},
     clocks |-> 0, clkdm |-> 0, deny |-> 0, dep |-> 0, poll |-> 0,
     modulemode |-> FALSE, mux |-> "none", r |-> OK,
     failed |-> 0, noauto |-> 0, blind |-> FALSE, unlocked |-> FALSE,
     busy |-> FALSE, odd |-> {}]

Has(oh, flag) == flag \in oh.flags
RstLines(oh) == IF Has(oh, "LINES") THEN Lines ELSE {}
One(oh, flag) == IF Has(oh, flag) THEN 1 ELSE 0

(* A call on every block of a set of outcomes.                             *)
Then(outcomes, Call(_)) == UNION {Call(oh) : oh \in outcomes}
Returns(oh, r) == [oh EXCEPT !.r = r]

-----------------------------------------------------------------------------
(* OCP_SYSCONFIG. A write without clocks does not reach the block, and one *)
(* of SOFTRESET resets it.                                                 *)

Accessible(oh) == oh.clocks > 0
Blind(oh) == ~Accessible(oh) /\ oh.failed = 0 /\ oh.odd = {}
Odd(oh, what) == [oh EXCEPT !.odd = @ \cup {what}]

_write_sysconfig(v, oh) ==
    [oh EXCEPT !.cache = v,
               !.reg = IF ~Accessible(oh) THEN @
                       ELSE IF oh.srst THEN "reset" ELSE v,
               !.odd = IF Accessible(oh) THEN @ \ {"lost"} ELSE @,
               !.blind = @ \/ Blind(oh)]

_update_sysc_cache(oh) ==
    [oh EXCEPT !.cache = oh.reg, !.srst = oh.reg = "resetting",
               !.busy = oh.reg = "resetting", !.loaded = ~Has(oh, "NO_CACHE"),
               !.blind = @ \/ Blind(oh)]

SmartMode(oh) == IF Has(oh, "WAKEUP") THEN "smart_wkup" ELSE "smart"
ActiveMode(oh) ==
    IF oh.flags \cap {"SWSUP_SIDLE", "SWSUP_SIDLE_ACT"} # {} THEN "no"
    ELSE SmartMode(oh)
IdleMode(oh) == IF Has(oh, "SWSUP_SIDLE") THEN "force" ELSE SmartMode(oh)

Settled(oh) == [oh EXCEPT !.odd = @ \ {"woken", "crossed"}]

_enable_sysc(oh) ==
    IF Has(oh, "SYSC")
    THEN _write_sysconfig(ActiveMode(oh), Settled(oh)) ELSE oh

_idle_sysc(oh) ==
    IF ~Has(oh, "SYSC") THEN oh
    ELSE IF oh.cache = IdleMode(oh) THEN Settled(oh)
    ELSE _write_sysconfig(IdleMode(oh), Settled(oh))

_shutdown_sysc(oh) ==
    IF Has(oh, "SYSC") THEN _write_sysconfig("force", Settled(oh)) ELSE oh

-----------------------------------------------------------------------------
(* Clocks, module mode and reset lines. *)

_enable_clocks(oh) == [oh EXCEPT !.clocks = @ + 1]
_disable_clocks(oh) == [oh EXCEPT !.clocks = @ - 1]
_add_initiator_dep(oh) == [oh EXCEPT !.dep = @ + 1]
_del_initiator_dep(oh) == [oh EXCEPT !.dep = @ - 1]

_are_all_hardreset_lines_asserted(oh) ==
    RstLines(oh) # {} /\ RstLines(oh) \subseteq oh.asserted
_are_any_hardreset_lines_asserted(oh) == RstLines(oh) \cap oh.asserted # {}

_omap4_enable_module(oh) == [oh EXCEPT !.modulemode = TRUE]

\* A block of which a part is under reset keeps its module mode.
_omap4_disable_module(oh) ==
    IF _are_any_hardreset_lines_asserted(oh) THEN oh
    ELSE [oh EXCEPT !.modulemode = FALSE]

_assert_hardreset(oh, line) ==
    IF line \in RstLines(oh)
    THEN [oh EXCEPT !.asserted = @ \cup {line}, !.r = OK]
    ELSE Returns(oh, "ENOENT")

AssertAll(oh) == [oh EXCEPT !.asserted = RstLines(oh)]

\* Clocks and clockdomain are counted, the module mode is not: a block that
\* is enabled loses it here.
_deassert_hardreset(oh, line) ==
    IF line \notin RstLines(oh) THEN Returns(oh, "ENOENT")
    ELSE LET on == _omap4_enable_module(_enable_clocks(oh))
             out == [on EXCEPT !.asserted = @ \ {line}, !.r = OK]
         IN  [_disable_clocks(_omap4_disable_module(out)) EXCEPT
                 !.odd = IF oh.state = "ENABLED" THEN @ \cup {"deasserted"}
                         ELSE @]

\* What the block's owner finds when it waits for the block to be ready.
_omap4_wait_target_ready(oh) ==
    {OK} \cup (IF oh.failed < MaxFailures THEN {ETIMEDOUT} ELSE {})

omap_hwmod_mux(oh, state) ==
    IF Has(oh, "MUX") THEN [oh EXCEPT !.mux = state] ELSE oh
-----------------------------------------------------------------------------
(* From one state to another. *)

Resources(oh) ==
    LET n == One(oh, "BLOCK_WFI")
    IN  _enable_clocks(_add_initiator_dep(
            [oh EXCEPT !.deny = @ + 1, !.clkdm = @ + 1, !.poll = @ + n]))

_enable_ready(oh) ==
    LET on == [oh EXCEPT !.state = "ENABLED", !.r = OK,
                   !.deny = IF Has(oh, "CLKDM_NOAUTO") THEN @ ELSE @ - 1]
    IN  IF ~Has(on, "SYSC") THEN on
        ELSE _enable_sysc(IF on.loaded THEN on ELSE _update_sysc_cache(on))

\* Variant: the clockdomain stays enabled.
_enable_failed_KeepsClkdm(oh) ==
    [_disable_clocks(_omap4_disable_module(oh)) EXCEPT
        !.failed = @ + 1, !.r = ETIMEDOUT]

_enable_failed(oh) ==
    [_disable_clocks(_omap4_disable_module(oh)) EXCEPT
        !.clkdm = @ - 1, !.failed = @ + 1, !.r = ETIMEDOUT]

_enable(oh) ==
    IF oh.skip
    THEN {[omap_hwmod_mux(oh, "on") EXCEPT
              !.skip = FALSE, !.r = OK,
              !.odd = IF oh.state = "ENABLED" THEN @ ELSE @ \cup {"skipped"}]}
    ELSE IF oh.state \notin {"INITIALIZED", "IDLE", "DISABLED"}
    THEN {Returns(oh, EINVAL)}
    ELSE IF _are_all_hardreset_lines_asserted(oh)
    THEN {Returns(Odd(oh, "held"), OK)}
    ELSE LET muxed == IF oh.mux \in {"none", "off"} \/ oh.state = "IDLE"
                      THEN omap_hwmod_mux(oh, "on") ELSE oh
             on == _omap4_enable_module(Resources(muxed))
         IN  {IF r = OK THEN _enable_ready(on) ELSE _enable_failed(on) :
                 r \in _omap4_wait_target_ready(on)}

_idle(oh) ==
    IF Has(oh, "NO_IDLE") THEN {[oh EXCEPT !.skip = TRUE, !.r = OK]}
    ELSE IF _are_all_hardreset_lines_asserted(oh) THEN {Returns(oh, OK)}
    ELSE IF oh.state # "ENABLED" THEN {Returns(oh, EINVAL)}
    ELSE LET off == _omap4_disable_module(
                        [_del_initiator_dep(_idle_sysc(oh)) EXCEPT
                            !.poll = @ - One(oh, "BLOCK_WFI")])
             n == One(oh, "CLKDM_NOAUTO")
         IN  {[omap_hwmod_mux(_disable_clocks(off), "idle") EXCEPT
                 !.deny = @ - n, !.clkdm = @ - 1,
                 !.state = "IDLE", !.r = OK]}

\* What _shutdown does once its hook, if the class has one, has agreed.
_shutdown_rest(oh) ==
    LET quiet == IF Has(oh, "SYSC") THEN _shutdown_sysc(oh) ELSE oh
        off == IF oh.state # "ENABLED" THEN quiet
               ELSE [_disable_clocks(_omap4_disable_module(
                        _del_initiator_dep(quiet))) EXCEPT
                        !.poll = @ - One(oh, "BLOCK_WFI"),
                        !.clkdm = @ - 1,
                        !.noauto = @ + One(oh, "CLKDM_NOAUTO")]
    IN  [omap_hwmod_mux(AssertAll(off), "off") EXCEPT
            !.state = "DISABLED", !.r = OK]

\* Variant: an idle block is shut down as it is.
EnabledIfIdle_Not(oh) == {oh}

EnabledIfIdle(oh) == IF oh.state = "IDLE" THEN _enable(oh) ELSE {oh}

\* The hook pre_shutdown may refuse.
Refused(oh, wasIdle) ==
    {Returns(o, "EBUSY") : o \in IF wasIdle THEN _idle(oh) ELSE {oh}}

_shutdown(oh) ==
    LET EnableForSysc(o) ==
            IF Has(o, "SYSC") THEN EnabledIfIdle(o) ELSE {o}
        Rest(o) == {_shutdown_rest(p) : p \in EnableForSysc(o)}
        Hook(o) == Rest(o) \cup Refused(o, oh.state = "IDLE")
    IN  IF _are_all_hardreset_lines_asserted(oh) THEN {Returns(oh, OK)}
        ELSE IF oh.state \notin {"IDLE", "ENABLED"}
        THEN {Returns(oh, EINVAL)}
        ELSE IF Has(oh, "PRE_SHUTDOWN") THEN Then(EnabledIfIdle(oh), Hook)
        ELSE Rest(oh)

-----------------------------------------------------------------------------
(* Soft reset.  The register is back at its reset value until the new one  *)
(* is written.  A reset that does not complete may still be going on when  *)
(* the register is read back, and then every later write resets again.     *)

_set_softreset(oh) == [oh EXCEPT !.srst = TRUE]
_clear_softreset(oh) == [oh EXCEPT !.srst = FALSE]

_ocp_softreset(oh) ==
    IF ~Has(oh, "SYSC") THEN {Returns(oh, "ENOENT")}
    ELSE IF oh.state # "ENABLED" THEN {Returns(oh, EINVAL)}
    ELSE LET set == _write_sysconfig(oh.cache, _set_softreset(oh))
         IN  {Returns(set, ETIMEDOUT),
              Returns([set EXCEPT !.reg = "resetting"], ETIMEDOUT),
              Returns(_write_sysconfig(oh.cache, _clear_softreset(set)), OK)}

\* Variant: OCP_SYSCONFIG is left as the reset leaves it.
_reset_Unprogrammed(oh) ==
    LET r(o) == IF o.r = "ENOENT" THEN OK ELSE o.r
    IN  IF RstLines(oh) # {} THEN {Returns(AssertAll(oh), OK)}
        ELSE {Returns(o, r(o)) : o \in _ocp_softreset(oh)}

_reset(oh) ==
    LET Programmed(o) ==
            IF Has(o, "SYSC") THEN _enable_sysc(_update_sysc_cache(o)) ELSE o
        r(o) == IF o.r = "ENOENT" THEN OK ELSE o.r
    IN  IF RstLines(oh) # {} THEN {Returns(AssertAll(oh), OK)}
        ELSE {Returns(Programmed(o), r(o)) : o \in _ocp_softreset(oh)}

(* omap_hwmod_softreset.  The second write is crossed by another when it   *)
(* takes back what was written since the first, or when the block is off.  *)
Resettable(oh) == Has(oh, "SYSC") /\ oh.cache # "none"

Unlocked(v, oh) ==
    [_write_sysconfig(v, oh) EXCEPT
        !.blind = oh.blind, !.unlocked = @ \/ Blind(oh)]

FirstWrite(oh) ==
    [Unlocked(oh.cache, _set_softreset(oh)) EXCEPT !.busy = TRUE]
SecondWrite(v, oh) ==
    [Unlocked(v, _clear_softreset(oh)) EXCEPT
        !.busy = FALSE,
        !.odd = IF Accessible(oh) /\ oh.cache = v THEN @
                ELSE @ \cup {"crossed"}]

-----------------------------------------------------------------------------
(* Suspend and restart of a block whose power was off in between.          *)

omap_hwmod_save_context(oh) == [line \in RstLines(oh) |-> line \in oh.asserted]

LoseContext(oh) ==
    [oh EXCEPT !.reg = "reset", !.modulemode = FALSE,
               !.asserted = RstLines(oh),
               !.odd = IF Has(oh, "SYSC") THEN @ \cup {"lost"} ELSE @]

\* The three calls, while nothing else runs.
_reidle(oh) ==
    LET Reset(o) == IF Resettable(o) THEN SecondWrite(o.cache, FirstWrite(o))
                    ELSE o
        Idle(o) == _idle(Reset(o))
    IN  Then(_enable(oh), Idle)

\* Variant: an enabled block does not get its module mode back.
RestoreLinesOnly(oh, context) ==
    IF oh.state = "ENABLED"
    THEN {[oh EXCEPT !.asserted = {line \in RstLines(oh) : context[line]}]}
    ELSE IF Has(oh, "NEEDS_REIDLE") THEN _reidle(oh)
    ELSE {_omap4_disable_module(oh)}

omap_hwmod_restore_context(oh, context) ==
    LET kept == {line \in RstLines(oh) : context[line]}
        released == IF kept = RstLines(oh) THEN AssertAll(oh)
                    ELSE _omap4_disable_module(
                            _omap4_enable_module([oh EXCEPT !.asserted = kept]))
    IN  IF oh.state = "ENABLED" THEN {_omap4_enable_module(released)}
        ELSE IF Has(oh, "NEEDS_REIDLE") THEN _reidle(released)
        ELSE {_omap4_disable_module(released)}

-----------------------------------------------------------------------------
(* Boot. *)

Registered(oh) == oh.state = "REGISTERED"
Initialized(oh) == [oh EXCEPT !.state = "INITIALIZED"]

\* What _init may find: all is there, no registers, or no clocks.
Finds(oh) == {"all", "noclock"} \cup (IF Has(oh, "SYSC") THEN {"nobase"} ELSE {})

_init(oh, found) ==
    IF ~Registered(oh) THEN Returns(oh, OK)
    ELSE IF found = "all" THEN Returns(Initialized(oh), OK)
    ELSE Returns(oh, IF found = "nobase" THEN OK ELSE EINVAL)

_setup_reset(oh) ==
    LET Reset(o) ==
            IF o.r # OK THEN {Returns(o, EINVAL)}
            ELSE IF Has(o, "INIT_NO_RESET") THEN {o} ELSE _reset(o)
    IN  IF Has(oh, "EXT_OPT_MAIN_CLK") THEN {Returns(oh, EPERM)}
        ELSE Then(IF RstLines(oh) = {} THEN _enable(oh)
                  ELSE {Returns(oh, OK)}, Reset)

_setup_postsetup(oh) ==
    IF RstLines(oh) # {} THEN {oh}
    ELSE IF oh.postsetup = "DISABLED" THEN _shutdown(oh)
    ELSE IF oh.postsetup = "ENABLED" THEN {oh}
    ELSE IF oh.flags \cap {"INIT_NO_IDLE", "NO_IDLE"} # {}
    THEN {[oh EXCEPT !.skip = TRUE]}
    ELSE _idle(oh)

SetupBlock(oh) ==
    LET Leave(o) == IF o.r = OK THEN _setup_postsetup(o) ELSE {o}
    IN  Then(_setup_reset(oh), Leave)

LeaveParent(oh) ==
    CASE oh.postsetup = "IDLE" -> _idle(oh)
      [] oh.postsetup = "DISABLED" -> _shutdown(oh)
      [] oh.postsetup = "ENABLED" -> {oh}

_setup(blocks, b) ==
    IF blocks[b].state # "INITIALIZED" THEN {blocks}
    ELSE IF b \notin DOMAIN ParentOf
    THEN {[blocks EXCEPT ![b] = oh] : oh \in SetupBlock(blocks[b])}
    ELSE LET p == ParentOf[b]
         IN  {[blocks EXCEPT ![b] = o[1], ![p] = o[2]] :
                 o \in SetupBlock(blocks[b])
                           \X Then(_enable(blocks[p]), LeaveParent)}

-----------------------------------------------------------------------------

Init ==
    /\ \E flags \in Choices : hw = [b \in Blocks |-> Fresh(flags[b])]
    /\ list \in Orders
    /\ phase = "early"
    /\ next = 1
    /\ inUse = {}
    /\ resets = [b \in Blocks |-> [caller \in Resetters |-> "none"]]
    /\ stage = [b \in Blocks |-> "rest"]

omap_hwmod_set_postsetup_state(b, state) ==
    /\ phase = "early"
    /\ Registered(hw[b])
    /\ hw' = [hw EXCEPT ![b].postsetup = state]
    /\ UNCHANGED <<list, phase, next, inUse, resets, stage>>

Quiet(blocks) == [b \in Blocks |-> Returns(blocks[b], OK)]

omap_hwmod_setup_one(b) ==
    /\ phase = "early"
    /\ \E found \in Finds(hw[b]) :
           \E after \in _setup([hw EXCEPT ![b] = _init(@, found)], b) :
               hw' = Quiet(after)
    /\ UNCHANGED <<list, phase, next, inUse, resets, stage>>

\* omap_hwmod_for_each(_init) ends at the first block that fails.
setup_all_init ==
    /\ phase = "early"
    /\ phase' = "all"
    /\ \E found \in [Blocks -> {"all", "nobase", "noclock"}] :
           LET Bad(i) == Registered(hw[list[i]]) /\ found[list[i]] = "noclock"
               Reached(i) == \A j \in 1 .. i - 1 : ~Bad(j)
           IN  /\ \A b \in Blocks : found[b] \in Finds(hw[b])
               /\ hw' = [b \in Blocks |->
                            IF \E i \in DOMAIN list : list[i] = b /\ Reached(i)
                            THEN Returns(_init(hw[b], found[b]), OK)
                            ELSE hw[b]]
    /\ UNCHANGED <<list, next, inUse, resets, stage>>

setup_all_setup ==
    /\ phase = "all"
    /\ \E after \in _setup(hw, list[next]) : hw' = Quiet(after)
    /\ next' = next + 1
    /\ phase' = IF next = Len(list) THEN "run" ELSE phase
    /\ UNCHANGED <<list, inUse, resets, stage>>

Leaks(oh) == oh.noauto >= MaxLeaks

Call(b, outcomes, Uses(_)) ==
    /\ phase = "run"
    /\ b \in Driven
    /\ \E oh \in outcomes :
           /\ hw' = [hw EXCEPT ![b] = Returns(oh, OK)]
           /\ inUse' = IF Uses(oh) THEN inUse \cup {b} ELSE inUse \ {b}
    /\ UNCHANGED <<list, phase, next, resets, stage>>

\* A driver makes one call after the other.
Free(b) == resets[b]["driver"] = "none"

\* Every enable that turns the block on finds its own way.
Enabling(oh) ==
    IF oh.state \in {"INITIALIZED", "IDLE", "DISABLED"} /\ ~oh.skip
    THEN [oh EXCEPT !.odd = @ \cap {"lost"}] ELSE oh

omap_hwmod_enable(b) ==
    LET Uses(oh) == oh.r = OK
    IN  b \notin inUse /\ Call(b, _enable(Enabling(hw[b])), Uses)

omap_hwmod_idle(b) ==
    LET Uses(oh) == FALSE
    IN  b \in inUse /\ Free(b) /\ Call(b, _idle(hw[b]), Uses)

omap_hwmod_shutdown(b) ==
    LET Uses(oh) == b \in inUse /\ oh.r # OK
    IN  Free(b) /\ ~Leaks(hw[b]) /\ Call(b, _shutdown(hw[b]), Uses)

(* Who sets a wakeup or a reset line need not be the driver, nor know      *)
(* whether the block is enabled.                                           *)
Anyone(b, outcome) ==
    LET Uses(oh) == b \in inUse
    IN  Call(b, {outcome}, Uses)

\* The write to a block that is off is no surprise (blind stays).
Woken(oh, mode) ==
    IF Has(oh, "SYSC") /\ Has(oh, "WAKEUP")
    THEN Odd([_write_sysconfig(mode, oh) EXCEPT !.blind = oh.blind], "woken")
    ELSE oh

omap_hwmod_enable_wakeup(b) == Anyone(b, Woken(hw[b], "smart_wkup"))
omap_hwmod_disable_wakeup(b) == Anyone(b, Woken(hw[b], "smart"))

omap_hwmod_assert_hardreset(b, line) ==
    Anyone(b, _assert_hardreset(hw[b], line))
omap_hwmod_deassert_hardreset(b, line) ==
    Anyone(b, _deassert_hardreset(hw[b], line))

\* omap_hwmod_softreset, up to its first write; it fails where there is
\* nothing to write.
Begin(b, caller) ==
    IF Resettable(hw[b])
    THEN /\ hw' = [hw EXCEPT ![b] = FirstWrite(@)]
         /\ resets' = [resets EXCEPT ![b][caller] = hw[b].cache]
    ELSE UNCHANGED <<hw, resets>>

\* Only a driver that has its block enabled resets it.
Softreset(b) ==
    /\ b \in inUse /\ Free(b)
    /\ Begin(b, "driver")
    /\ UNCHANGED <<list, phase, next, inUse, stage>>

omap_hwmod_softreset(b, caller) ==
    /\ resets[b][caller] # "none"
    /\ hw' = [hw EXCEPT ![b] = SecondWrite(resets[b][caller], @)]
    /\ resets' = [resets EXCEPT ![b][caller] = "none"]
    /\ UNCHANGED <<list, phase, next, inUse, stage>>

(* The calls of _reidle_all, which the notifier of PM_POST_SUSPEND makes   *)
(* once the tasks run again.                                               *)
_reidle_all_enable(b) ==
    /\ stage[b] = "due"
    /\ \A c \in Blocks : stage[c] \in {"rest", "due"}
    /\ \E oh \in _enable(hw[b]) : hw' = [hw EXCEPT ![b] = Returns(oh, OK)]
    /\ stage' = [stage EXCEPT ![b] = "enabled"]
    /\ UNCHANGED <<list, phase, next, inUse, resets>>

_reidle_all_softreset(b) ==
    /\ stage[b] = "enabled"
    /\ Begin(b, "notifier")
    /\ stage' = [stage EXCEPT ![b] = "softreset"]
    /\ UNCHANGED <<list, phase, next, inUse>>

Reidled(b, oh) ==
    IF b \in inUse /\ oh.state # "ENABLED" THEN Odd(oh, "reidled") ELSE oh

_reidle_all_idle(b) ==
    /\ stage[b] = "softreset" /\ resets[b]["notifier"] = "none"
    /\ \E oh \in _idle(hw[b]) :
           hw' = [hw EXCEPT ![b] = Reidled(b, Returns(oh, OK))]
    /\ stage' = [stage EXCEPT ![b] = "rest"]
    /\ UNCHANGED <<list, phase, next, inUse, resets>>

(* A suspend, in which drivers and notifier are at rest.  Blocks lose      *)
(* their context only in one that saves and restores it.                   *)
Restored(b, lost) ==
    omap_hwmod_restore_context(IF b \in lost THEN LoseContext(hw[b]) ELSE hw[b],
                               omap_hwmod_save_context(hw[b]))

Suspend ==
    /\ phase = "run"
    /\ \A b \in Blocks :
           /\ stage[b] = "rest"
           /\ \A caller \in Resetters : resets[b][caller] = "none"
    /\ \/ hw' = hw
       \/ \E lost \in SUBSET Blocks :
          \E after \in [Blocks -> UNION {Restored(b, lost) : b \in Blocks}] :
              /\ \A b \in Blocks : after[b] \in Restored(b, lost)
              /\ hw' = Quiet(after)
    /\ stage' = [b \in Blocks |->
                    IF Has(hw[b], "NEEDS_REIDLE") THEN "due" ELSE "rest"]
    /\ UNCHANGED <<list, phase, next, inUse, resets>>

Next ==
    \/ \E b \in Blocks, s \in {"IDLE", "ENABLED", "DISABLED"} :
           omap_hwmod_set_postsetup_state(b, s)
    \/ \E b \in Blocks : omap_hwmod_setup_one(b)
    \/ setup_all_init
    \/ setup_all_setup
    \/ \E b \in Driven :
           \/ omap_hwmod_enable(b)
           \/ omap_hwmod_idle(b)
           \/ omap_hwmod_shutdown(b)
           \/ omap_hwmod_enable_wakeup(b)
           \/ omap_hwmod_disable_wakeup(b)
           \/ Softreset(b)
           \/ omap_hwmod_softreset(b, "driver")
    \/ \E b \in Driven, line \in Lines :
           \/ omap_hwmod_assert_hardreset(b, line)
           \/ omap_hwmod_deassert_hardreset(b, line)
    \/ \E b \in Blocks :
           \/ _reidle_all_enable(b)
           \/ _reidle_all_softreset(b)
           \/ omap_hwmod_softreset(b, "notifier")
           \/ _reidle_all_idle(b)
    \/ Suspend

Spec == Init /\ [][Next]_vars

-----------------------------------------------------------------------------
(* Properties. *)

(* What a block has enabled beyond itself (clocks, clockdomain, its        *)
(* dependency on the MPU, the polling of the idle loop, the denial to idle *)
(* the clockdomain) is given back exactly when it leaves ENABLED: each     *)
(* path through _enable, _idle and _shutdown balances. What the code       *)
(* leaves behind is counted: a failed _enable keeps the dependency, the    *)
(* denial and the polling (omap_hwmod.c:2146 to 2185), and the shutdown of *)
(* an enabled CLKDM_NOAUTO block keeps the denial (2302).                  *)
CountsFollowState ==
    \A b \in Blocks :
        LET oh == hw[b]
            on == IF oh.state = "ENABLED" THEN 1 ELSE 0
        IN  /\ oh.clocks = on
            /\ oh.clkdm = on
            /\ oh.dep = on + oh.failed
            /\ oh.poll = One(oh, "BLOCK_WFI") * (on + oh.failed)
            /\ oh.deny = One(oh, "CLKDM_NOAUTO") * (on + oh.noauto) + oh.failed

(* OCP_SYSCONFIG says what the state of the block asks for, through resets *)
(* that do not complete, idling that skips the write, reidling beside the  *)
(* drivers, and suspend: an enabled block is in its active mode and an     *)
(* idle one in its idle mode. This does not cover a block that an enable   *)
(* has failed on, one in the middle of a softreset, one whose register was *)
(* read back while its reset was still going on (SOFTRESET stays in its    *)
(* cache then), or one that, since its driver last turned it on,           *)
(*   - was told enabled though all its lines are in reset ("held"), or by  *)
(*     a leftover _HWMOD_SKIP_ENABLE ("skipped");                          *)
(*   - was idled by the notifier while in use ("reidled");                 *)
(*   - had a line released while enabled ("deasserted");                   *)
(*   - was given another wakeup mode and not written since ("woken");      *)
(*   - lost its context and was not written since ("lost");                *)
(*   - had the second write of a softreset cross another, and was not      *)
(*     written since ("crossed").                                          *)
SyscFollowsState ==
    \A b \in Blocks :
        LET oh == hw[b]
        IN  (Has(oh, "SYSC") /\ oh.odd = {} /\ oh.failed = 0 /\ ~oh.busy) =>
                /\ oh.state = "ENABLED" =>
                       oh.reg = ActiveMode(oh) /\ oh.cache = oh.reg
                /\ oh.state = "IDLE" => oh.reg = IdleMode(oh)

(* No function that turns a block on or off, or reads its OCP_SYSCONFIG    *)
(* back, touches the register while the clocks are off, as long as no      *)
(* enable has failed and none went another way; and omap_hwmod_softreset,  *)
(* which takes no lock, does so only on the blocks that the notifier       *)
(* reidles, whose driver may idle them before either write (3153).  The    *)
(* calls that set a wakeup mode do not look at the clocks and are left out *)
(* (3790 to 3841).                                                         *)
NoBlindAccess ==
    \A b \in Blocks :
        /\ ~hw[b].blind
        /\ hw[b].unlocked => Has(hw[b], "NEEDS_REIDLE")

(* A driver that was told that its block is enabled has it enabled, with   *)
(* its module mode set, until the driver lets it go. The exceptions are    *)
(* those the code makes: all lines are in reset ("held"), the leftover     *)
(* _HWMOD_SKIP_ENABLE of a block that was shut down ("skipped"), the       *)
(* reidling after a suspend of a block that is in use ("reidled"), a line  *)
(* released while the block is enabled ("deasserted").                     *)
InUseIsOn ==
    \A b \in inUse :
        \/ hw[b].state = "ENABLED" /\ hw[b].modulemode
        \/ hw[b].odd \cap {"held", "skipped", "reidled", "deasserted"} # {}
=============================================================================
