----------------------------- MODULE BoardProofs -----------------------------
(***************************************************************************)
(* The properties of the code for the boards: of Hwmod for any blocks, any *)
(* flags, any order of registration and any bounds, and of the timer       *)
(* module and the clock (Drivers) for any callers, timers, times, trims    *)
(* and bounds.  No lemma speaks of both.                                   *)
(*                                                                         *)
(* Blocks only meet in the setup of a child, which enables its parent, so  *)
(* that the invariant of Hwmod speaks of one block at a time: Sound, its   *)
(* counts and marks; InMode, its OCP_SYSCONFIG; and Used, what the driver  *)
(* that uses it relies on.  Each helper of the model has a lemma that says *)
(* what it does to these, each operation composes those of the helpers it  *)
(* calls, and each action those of its operations.                         *)
(*                                                                         *)
(* Of the timers the invariant says whose entry each timer runs for, and   *)
(* that the expired entries on the list are as many as reads will find     *)
(* (TimerInv); of the clock, what the registers mean and how far a         *)
(* sequence nobody crosses has come (ClockInv).                            *)
(***************************************************************************)
EXTENDS Hwmod, Drivers, FiniteSetTheorems, SequenceTheorems, TLAPS

(* Hwmod. *)

(* The four ways off the usual path, after which less is promised.         *)
Ways == {"held", "skipped", "reidled", "deasserted"}
Marks == Ways \cup {"lost", "woken", "crossed"}
Answers == {OK, EINVAL, EPERM, ETIMEDOUT, "ENOENT", "EBUSY"}
Flags == UNION {{flags[b] : b \in Blocks} : flags \in Choices}
Contents == Modes \cup {"none"}

IpBlocks ==
    [flags : Flags, state : States, postsetup : {"IDLE", "ENABLED", "DISABLED"},
     skip : BOOLEAN, loaded : BOOLEAN, cache : Contents, srst : BOOLEAN,
     reg : Contents, asserted : SUBSET Lines,
     clocks : Int, clkdm : Int, deny : Int, dep : Int, poll : Int,
     modulemode : BOOLEAN, mux : {"none", "on", "idle", "off"}, r : Answers,
     failed : Nat, noauto : Nat, blind : BOOLEAN, unlocked : BOOLEAN,
     busy : BOOLEAN,
     odd : SUBSET Marks]

(* One of them was taken; and: an access to the block is no blind one.     *)
Serious(oh) == oh.odd \cap Ways # {}
Reached(oh) == oh.clocks > 0 \/ oh.failed > 0 \/ Serious(oh)

SameCounts(o, oh) ==
    /\ o.clocks = oh.clocks /\ o.clkdm = oh.clkdm /\ o.dep = oh.dep
    /\ o.poll = oh.poll /\ o.deny = oh.deny
    /\ o.failed = oh.failed /\ o.noauto = oh.noauto
SameSysc(o, oh) ==
    /\ o.cache = oh.cache /\ o.srst = oh.srst /\ o.reg = oh.reg
    /\ o.odd = oh.odd /\ o.blind = oh.blind /\ o.unlocked = oh.unlocked /\ o.busy = oh.busy
SamePlace(o, oh) ==
    /\ o.flags = oh.flags /\ o.state = oh.state /\ o.skip = oh.skip
    /\ o.modulemode = oh.modulemode

\* Another content of OCP_SYSCONFIG, or of its cache, leaves a block a block.
LEMMA NewRegister ==
    ASSUME NEW oh \in IpBlocks, NEW v \in Contents, NEW left \in SUBSET Marks
    PROVE  [oh EXCEPT !.reg = v, !.odd = left] \in IpBlocks
  BY DEF IpBlocks
LEMMA NewCache ==
    ASSUME NEW oh \in IpBlocks, NEW v \in Contents, NEW srst \in BOOLEAN,
           NEW loaded \in BOOLEAN
    PROVE  [oh EXCEPT !.cache = v, !.srst = srst, !.busy = srst, !.loaded = loaded]
           \in IpBlocks
  BY DEF IpBlocks

\* Writing OCP_SYSCONFIG: what changes, and when the register is reached.
LEMMA WriteFacts ==
    ASSUME NEW oh \in IpBlocks, NEW v \in Contents, NEW o, o = _write_sysconfig(v, oh)
    PROVE  /\ o \in IpBlocks
           /\ SameCounts(o, oh) /\ SamePlace(o, oh)
           /\ o.cache = v /\ o.srst = oh.srst /\ o.unlocked = oh.unlocked /\ o.busy = oh.busy
           /\ o.odd \in {oh.odd, oh.odd \ {"lost"}}
           /\ oh.clocks > 0 /\ ~oh.srst => o.reg = v
           /\ ~(oh.clocks > 0) => o.reg = oh.reg /\ o.odd = oh.odd
           /\ Reached(oh) /\ ~oh.blind => ~o.blind
<1>1. o \in IpBlocks
  <2> DEFINE reg == IF ~Accessible(oh) THEN oh.reg
                    ELSE IF oh.srst THEN "reset" ELSE v
             left == IF Accessible(oh) THEN oh.odd \ {"lost"} ELSE oh.odd
             blind == oh.blind \/ Blind(oh)
             a == [oh EXCEPT !.cache = v]
             b == [a EXCEPT !.reg = reg, !.odd = left]
  <2>1. o = [b EXCEPT !.blind = blind]
    BY DEF _write_sysconfig
  <2>2. reg \in Contents /\ left \in SUBSET Marks /\ blind \in BOOLEAN
    BY DEF IpBlocks, Contents, Modes, Blind, Accessible, Marks
  <2> HIDE DEF reg, left, blind
  <2>3. a \in IpBlocks
    BY DEF IpBlocks
  <2> HIDE DEF a
  <2>4. b \in IpBlocks
    BY <2>2, <2>3, NewRegister
  <2> HIDE DEF b
  <2> QED BY <2>1, <2>2, <2>4 DEF IpBlocks
<1>2. SameCounts(o, oh) /\ SamePlace(o, oh)
  BY DEF IpBlocks, _write_sysconfig, SameCounts, SamePlace
<1>3. /\ o.cache = v /\ o.srst = oh.srst /\ o.unlocked = oh.unlocked /\ o.busy = oh.busy
      /\ o.odd \in {oh.odd, oh.odd \ {"lost"}}
      /\ oh.clocks > 0 /\ ~oh.srst => o.reg = v
      /\ ~(oh.clocks > 0) => o.reg = oh.reg /\ o.odd = oh.odd
  BY DEF IpBlocks, _write_sysconfig, Accessible
<1>4. Reached(oh) /\ ~oh.blind => ~o.blind
  BY DEF IpBlocks, _write_sysconfig, Accessible, Blind, Reached, Serious
<1> QED BY <1>1, <1>2, <1>3, <1>4

\* Reading OCP_SYSCONFIG back.
LEMMA CacheFacts ==
    ASSUME NEW oh \in IpBlocks, NEW o, o = _update_sysc_cache(oh)
    PROVE  /\ o \in IpBlocks
           /\ SameCounts(o, oh) /\ SamePlace(o, oh)
           /\ o.odd = oh.odd /\ o.reg = oh.reg /\ o.unlocked = oh.unlocked /\ (o.srst => o.busy)
           /\ Reached(oh) /\ ~oh.blind => ~o.blind
<1>1. o \in IpBlocks
  <2> DEFINE srst == oh.reg = "resetting"
             loaded == ~Has(oh, "NO_CACHE")
             blind == oh.blind \/ Blind(oh)
             a == [oh EXCEPT !.cache = oh.reg, !.srst = srst, !.busy = srst, !.loaded = loaded]
  <2>1. o = [a EXCEPT !.blind = blind]
    BY DEF _update_sysc_cache
  <2>2. srst \in BOOLEAN /\ loaded \in BOOLEAN /\ blind \in BOOLEAN /\ oh.reg \in Contents
    BY DEF IpBlocks, Blind, Accessible, Has
  <2> HIDE DEF srst, loaded, blind
  <2>3. a \in IpBlocks
    BY <2>2, NewCache
  <2> HIDE DEF a
  <2> QED BY <2>1, <2>2, <2>3 DEF IpBlocks
<1>2. SameCounts(o, oh) /\ SamePlace(o, oh)
  BY DEF IpBlocks, _update_sysc_cache, SameCounts, SamePlace
<1>3. o.odd = oh.odd /\ o.reg = oh.reg /\ o.unlocked = oh.unlocked /\ (o.srst => o.busy)
  BY DEF IpBlocks, _update_sysc_cache
<1>4. Reached(oh) /\ ~oh.blind => ~o.blind
  BY DEF IpBlocks, _update_sysc_cache, Accessible, Blind, Reached, Serious
<1> QED BY <1>1, <1>2, <1>3, <1>4

\* Other counts leave a block a block.
LEMMA NewCounts ==
    ASSUME NEW oh \in IpBlocks, NEW x \in Int, NEW y \in Int, NEW z \in Int
    PROVE  [oh EXCEPT !.deny = x, !.clkdm = y, !.poll = z] \in IpBlocks
  BY DEF IpBlocks

\* What _enable takes before it waits for the block.
LEMMA ResourcesFacts ==
    ASSUME NEW oh \in IpBlocks, NEW o, o = Resources(oh)
    PROVE  /\ o \in IpBlocks
           /\ SameSysc(o, oh) /\ SamePlace(o, oh)
           /\ o.clocks = oh.clocks + 1 /\ o.clkdm = oh.clkdm + 1
           /\ o.dep = oh.dep + 1 /\ o.deny = oh.deny + 1
           /\ o.poll = oh.poll + One(oh, "BLOCK_WFI")
           /\ o.failed = oh.failed /\ o.noauto = oh.noauto
<1> DEFINE n == One(oh, "BLOCK_WFI")
           a == [oh EXCEPT !.deny = @ + 1, !.clkdm = @ + 1, !.poll = @ + n]
           b == [a EXCEPT !.dep = @ + 1]
<1>1. n \in Int
  BY DEF One
<1> HIDE DEF n
<1>2. /\ a \in IpBlocks /\ SameSysc(a, oh) /\ SamePlace(a, oh)
      /\ a.clocks = oh.clocks /\ a.dep = oh.dep
      /\ a.clkdm = oh.clkdm + 1 /\ a.deny = oh.deny + 1 /\ a.poll = oh.poll + n
      /\ a.failed = oh.failed /\ a.noauto = oh.noauto
  <2>1. a \in IpBlocks
    <3>1. oh.deny + 1 \in Int /\ oh.clkdm + 1 \in Int /\ oh.poll + n \in Int
      BY <1>1 DEF IpBlocks
    <3> QED BY <3>1, NewCounts
  <2>2. SameSysc(a, oh) /\ SamePlace(a, oh)
    BY DEF IpBlocks, SameSysc, SamePlace
  <2>3. /\ a.clocks = oh.clocks /\ a.dep = oh.dep
        /\ a.failed = oh.failed /\ a.noauto = oh.noauto
    BY DEF IpBlocks
  <2>4. a.clkdm = oh.clkdm + 1 /\ a.deny = oh.deny + 1 /\ a.poll = oh.poll + n
    BY DEF IpBlocks
  <2> QED BY <2>1, <2>2, <2>3, <2>4
<1>3. o = [b EXCEPT !.clocks = @ + 1]
  BY DEF Resources, _enable_clocks, _add_initiator_dep, n
<1> HIDE DEF a
<1>4. /\ b \in IpBlocks /\ SameSysc(b, a) /\ SamePlace(b, a)
      /\ b.clocks = a.clocks /\ b.dep = a.dep + 1
      /\ b.clkdm = a.clkdm /\ b.deny = a.deny /\ b.poll = a.poll
      /\ b.failed = a.failed /\ b.noauto = a.noauto
  BY <1>2 DEF IpBlocks, SameSysc, SamePlace
<1> HIDE DEF b
<1>5. /\ o \in IpBlocks /\ SameSysc(o, b) /\ SamePlace(o, b)
      /\ o.clocks = b.clocks + 1 /\ o.dep = b.dep
      /\ o.clkdm = b.clkdm /\ o.deny = b.deny /\ o.poll = b.poll
      /\ o.failed = b.failed /\ o.noauto = b.noauto
  BY <1>3, <1>4 DEF IpBlocks, SameSysc, SamePlace
<1> QED BY <1>2, <1>4, <1>5 DEF SameSysc, SamePlace, n

\* The write to OCP_SYSCONFIG of an enable.
LEMMA EnableSyscFacts ==
    ASSUME NEW oh \in IpBlocks, NEW o, o = _enable_sysc(oh)
    PROVE  /\ o \in IpBlocks
           /\ SameCounts(o, oh) /\ SamePlace(o, oh)
           /\ Serious(o) <=> Serious(oh)
           /\ o.srst = oh.srst /\ o.unlocked = oh.unlocked /\ o.busy = oh.busy
           /\ Has(oh, "SYSC") /\ oh.clocks > 0 =>
                  o.cache = ActiveMode(oh) /\ (o.srst \/ o.reg = o.cache)
           /\ Reached(oh) /\ ~oh.blind => ~o.blind
<1>1. CASE ~Has(oh, "SYSC")
  BY <1>1 DEF _enable_sysc, SameCounts, SamePlace
<1>2. CASE Has(oh, "SYSC")
  <2> DEFINE a == Settled(oh)
  <2>1. /\ a \in IpBlocks /\ SameCounts(a, oh) /\ SamePlace(a, oh)
        /\ a.odd = oh.odd \ {"woken", "crossed"} /\ a.blind = oh.blind
        /\ a.srst = oh.srst /\ a.unlocked = oh.unlocked /\ a.busy = oh.busy
    BY DEF Settled, IpBlocks, SameCounts, SamePlace
  <2>2. ActiveMode(oh) \in Contents
    BY DEF ActiveMode, SmartMode, Contents, Modes
  <2>3. o = _write_sysconfig(ActiveMode(oh), a)
    BY <1>2 DEF _enable_sysc
  <2> HIDE DEF a
  <2>4. Reached(oh) => Reached(a)
    BY <2>1 DEF Reached, SameCounts, Serious, Ways
  <2> QED BY <1>2, <2>1, <2>2, <2>3, <2>4, WriteFacts
          DEF SameCounts, SamePlace, Serious, Ways
<1> QED BY <1>1, <1>2

\* That of an idle, which is left out when the cache says that it is not
\* needed.
LEMMA IdleSyscFacts ==
    ASSUME NEW oh \in IpBlocks, NEW o, o = _idle_sysc(oh)
    PROVE  /\ o \in IpBlocks
           /\ SameCounts(o, oh) /\ SamePlace(o, oh)
           /\ Serious(o) <=> Serious(oh)
           /\ o.srst = oh.srst /\ o.unlocked = oh.unlocked /\ o.busy = oh.busy
           /\ Has(oh, "SYSC") /\ oh.clocks > 0 /\ ("lost" \in oh.odd \/ oh.reg = oh.cache)
              => o.srst \/ "lost" \in o.odd \/ o.reg = IdleMode(oh)
           /\ Reached(oh) /\ ~oh.blind => ~o.blind
<1>1. CASE ~Has(oh, "SYSC")
  BY <1>1 DEF _idle_sysc, SameCounts, SamePlace
<1>2. CASE Has(oh, "SYSC")
  <2> DEFINE a == Settled(oh)
  <2>1. /\ a \in IpBlocks /\ SameCounts(a, oh) /\ SamePlace(a, oh)
        /\ a.odd = oh.odd \ {"woken", "crossed"} /\ a.blind = oh.blind
        /\ a.srst = oh.srst /\ a.unlocked = oh.unlocked /\ a.busy = oh.busy
        /\ a.cache = oh.cache /\ a.reg = oh.reg
    BY DEF Settled, IpBlocks, SameCounts, SamePlace
  <2>2. IdleMode(oh) \in Contents
    BY DEF IdleMode, SmartMode, Contents, Modes
  <2>4. (o = a /\ oh.cache = IdleMode(oh)) \/ o = _write_sysconfig(IdleMode(oh), a)
    BY <1>2 DEF _idle_sysc
  <2> HIDE DEF a
  <2>5. Reached(oh) => Reached(a)
    BY <2>1 DEF Reached, SameCounts, Serious, Ways
  <2>6. CASE o = a /\ oh.cache = IdleMode(oh)
    BY <1>2, <2>1, <2>6 DEF SameCounts, SamePlace, Serious, Ways
  <2>7. CASE o = _write_sysconfig(IdleMode(oh), a)
    BY <1>2, <2>1, <2>2, <2>5, <2>7, WriteFacts
       DEF SameCounts, SamePlace, Serious, Ways
  <2> QED BY <2>4, <2>6, <2>7
<1> QED BY <1>1, <1>2

\* That of a shutdown.
LEMMA ShutdownSyscFacts ==
    ASSUME NEW oh \in IpBlocks, NEW o,
           o = IF Has(oh, "SYSC") THEN _shutdown_sysc(oh) ELSE oh
    PROVE  /\ o \in IpBlocks
           /\ SameCounts(o, oh) /\ SamePlace(o, oh)
           /\ Serious(o) <=> Serious(oh)
           /\ o.srst = oh.srst /\ o.unlocked = oh.unlocked /\ o.busy = oh.busy
           /\ (Reached(oh) \/ ~Has(oh, "SYSC")) => (~oh.blind => ~o.blind)
<1>1. CASE ~Has(oh, "SYSC")
  BY <1>1 DEF SameCounts, SamePlace
<1>2. CASE Has(oh, "SYSC")
  <2> DEFINE a == Settled(oh)
  <2>1. /\ a \in IpBlocks /\ SameCounts(a, oh) /\ SamePlace(a, oh)
        /\ a.odd = oh.odd \ {"woken", "crossed"} /\ a.blind = oh.blind
        /\ a.srst = oh.srst /\ a.unlocked = oh.unlocked /\ a.busy = oh.busy
    BY DEF Settled, IpBlocks, SameCounts, SamePlace
  <2>2. "force" \in Contents
    BY DEF Contents, Modes
  <2>3. o = _write_sysconfig("force", a)
    BY <1>2 DEF _shutdown_sysc
  <2> HIDE DEF a
  <2>4. Reached(oh) => Reached(a)
    BY <2>1 DEF Reached, SameCounts, Serious, Ways
  <2> QED BY <1>2, <2>1, <2>2, <2>3, <2>4, WriteFacts
          DEF SameCounts, SamePlace, Serious, Ways
<1> QED BY <1>1, <1>2

\* The module mode has nothing to do with the counts or OCP_SYSCONFIG.
LEMMA ModuleFacts ==
    ASSUME NEW oh \in IpBlocks, NEW o,
           o \in {_omap4_enable_module(oh), _omap4_disable_module(oh)}
    PROVE  /\ o \in IpBlocks
           /\ SameCounts(o, oh) /\ SameSysc(o, oh)
           /\ o.flags = oh.flags /\ o.state = oh.state /\ o.skip = oh.skip
           /\ o = _omap4_enable_module(oh) => o.modulemode
<1>1. o = oh \/ o = [oh EXCEPT !.modulemode = TRUE] \/ o = [oh EXCEPT !.modulemode = FALSE]
  BY DEF _omap4_enable_module, _omap4_disable_module
<1>2. /\ [oh EXCEPT !.modulemode = TRUE] \in IpBlocks
      /\ [oh EXCEPT !.modulemode = FALSE] \in IpBlocks
  BY DEF IpBlocks
<1>3. SameCounts(o, oh) /\ SameSysc(o, oh)
  BY <1>1 DEF IpBlocks, SameCounts, SameSysc
<1>4. o.flags = oh.flags /\ o.state = oh.state /\ o.skip = oh.skip
  BY <1>1 DEF IpBlocks
<1>5. o = _omap4_enable_module(oh) => o.modulemode
  BY DEF IpBlocks, _omap4_enable_module
<1> QED BY <1>1, <1>2, <1>3, <1>4, <1>5

\* Nor have the pads.
LEMMA MuxFacts ==
    ASSUME NEW oh \in IpBlocks, NEW s \in {"on", "idle", "off"}, NEW o,
           o = omap_hwmod_mux(oh, s)
    PROVE  /\ o \in IpBlocks
           /\ SameCounts(o, oh) /\ SameSysc(o, oh) /\ SamePlace(o, oh)
<1>1. o = oh \/ o = [oh EXCEPT !.mux = s]
  BY DEF omap_hwmod_mux
<1>2. o \in IpBlocks
  BY <1>1 DEF IpBlocks
<1>3. SameCounts(o, oh) /\ SameSysc(o, oh) /\ SamePlace(o, oh)
  BY <1>1 DEF IpBlocks, SameCounts, SameSysc, SamePlace
<1> QED BY <1>2, <1>3

\* Nor has the return value.
LEMMA ReturnsFacts ==
    ASSUME NEW oh \in IpBlocks, NEW r \in Answers, NEW o, o = Returns(oh, r)
    PROVE  /\ o \in IpBlocks /\ o.r = r
           /\ SameCounts(o, oh) /\ SameSysc(o, oh) /\ SamePlace(o, oh)
  BY DEF Returns, IpBlocks, SameCounts, SameSysc, SamePlace

-----------------------------------------------------------------------------
(* From one state to another.                                              *)

On(oh) == IF oh.state = "ENABLED" THEN 1 ELSE 0

(* CountsFollowState, of one block.                                        *)
Counted(oh) ==
    /\ oh.clocks = On(oh)
    /\ oh.clkdm = On(oh)
    /\ oh.dep = On(oh) + oh.failed
    /\ oh.poll = One(oh, "BLOCK_WFI") * (On(oh) + oh.failed)
    /\ oh.deny = One(oh, "CLKDM_NOAUTO") * (On(oh) + oh.noauto) + oh.failed

(* SyscFollowsState, told for the blocks that lost their context, were     *)
(* given another wakeup mode, are being reset or had a reset crossed too,  *)
(* because an idle or an enable ends that.                                 *)
InMode(oh) ==
    (Has(oh, "SYSC") /\ ~Serious(oh) /\ oh.failed = 0) =>
        /\ oh.state = "ENABLED" =>
               /\ \/ "woken" \in oh.odd \/ "crossed" \in oh.odd
                  \/ oh.cache = ActiveMode(oh)
               /\ oh.srst \/ "lost" \in oh.odd \/ oh.reg = oh.cache
        /\ oh.state = "IDLE" =>
               \/ oh.srst \/ "lost" \in oh.odd \/ "crossed" \in oh.odd
               \/ oh.reg = IdleMode(oh)

(* What the other parts need of a block: an enabled one has its module     *)
(* mode, the notifier reidles one whose softreset was a blind one, and     *)
(* SOFTRESET is in the cache only of one that is or was seen in a reset.   *)
Regular(oh) ==
    /\ oh.state = "ENABLED" => oh.modulemode \/ Serious(oh)
    /\ oh.unlocked => Has(oh, "NEEDS_REIDLE")
    /\ oh.srst => oh.busy

Sound(oh) == oh \in IpBlocks /\ Counted(oh) /\ Regular(oh) /\ ~oh.blind

Off == {"INITIALIZED", "IDLE", "DISABLED"}

\* One is 0 or 1, so that a product with it is 0 or the other factor.
LEMMA OneFacts ==
    ASSUME NEW oh, NEW flag, NEW k \in Int
    PROVE  /\ One(oh, flag) \in {0, 1}
           /\ One(oh, flag) * (k + 1) = One(oh, flag) * k + One(oh, flag)
<1>1. CASE Has(oh, flag)
  BY <1>1 DEF One
<1>2. CASE ~Has(oh, flag)
  BY <1>2 DEF One
<1> QED BY <1>1, <1>2

\* Turning a block on.
LEMMA EnableReadyFacts ==
    ASSUME NEW oh \in IpBlocks, Sound(oh), oh.state \in Off,
           NEW on \in IpBlocks, SameSysc(on, oh), on.flags = oh.flags, on.modulemode,
           on.clocks = oh.clocks + 1, on.clkdm = oh.clkdm + 1,
           on.dep = oh.dep + 1, on.deny = oh.deny + 1,
           on.poll = oh.poll + One(oh, "BLOCK_WFI"),
           on.failed = oh.failed, on.noauto = oh.noauto, on.skip = oh.skip,
           NEW o, o = _enable_ready(on)
    PROVE  /\ Sound(o) /\ InMode(o)
           /\ o.flags = oh.flags /\ o.state = "ENABLED" /\ o.modulemode
           /\ Serious(o) <=> Serious(oh)
           /\ o.skip = oh.skip
<1> DEFINE d == IF Has(on, "CLKDM_NOAUTO") THEN on.deny ELSE on.deny - 1
           a == [on EXCEPT !.state = "ENABLED", !.r = OK, !.deny = d]
           b == IF a.loaded THEN a ELSE _update_sysc_cache(a)
<1>1. d \in Int /\ d = oh.deny + One(oh, "CLKDM_NOAUTO")
  BY DEF One, Has, IpBlocks
<1>2. o = IF ~Has(a, "SYSC") THEN a ELSE _enable_sysc(b)
  BY DEF _enable_ready
<1> HIDE DEF d
<1>3. /\ a \in IpBlocks /\ SameSysc(a, on) /\ a.flags = on.flags
      /\ a.state = "ENABLED" /\ a.modulemode /\ a.skip = on.skip
      /\ a.clocks = on.clocks /\ a.clkdm = on.clkdm /\ a.dep = on.dep
      /\ a.poll = on.poll /\ a.deny = d /\ a.failed = on.failed /\ a.noauto = on.noauto
  <2>1. a \in IpBlocks
    BY <1>1 DEF IpBlocks, States, Answers
  <2>2. /\ SameSysc(a, on) /\ a.flags = on.flags
        /\ a.state = "ENABLED" /\ a.modulemode /\ a.skip = on.skip
    BY DEF IpBlocks, SameSysc
  <2>3. /\ a.clocks = on.clocks /\ a.clkdm = on.clkdm /\ a.dep = on.dep
        /\ a.poll = on.poll /\ a.deny = d /\ a.failed = on.failed /\ a.noauto = on.noauto
    BY DEF IpBlocks
  <2> QED BY <2>1, <2>2, <2>3
<1> HIDE DEF a
<1>4. Counted(a)
  <2>1. On(oh) = 0 /\ On(a) = 1
    BY <1>3 DEF On, Off
  <2>2. oh.failed \in Nat /\ oh.noauto \in Nat
    BY DEF IpBlocks
  <2>3. \A f : One(a, f) = One(oh, f)
    BY <1>3 DEF One, Has
  <2> QED BY <1>1, <1>3, <2>1, <2>2, <2>3, OneFacts DEF Counted, Sound
<1>5. /\ Reached(a) /\ ~a.blind /\ a.clocks > 0
      /\ Serious(a) <=> Serious(oh)
  <2>1. a.clocks = 1
    BY <1>3, <1>4 DEF Counted, On
  <2>2. a.odd = oh.odd /\ a.blind = oh.blind /\ ~oh.blind
    BY <1>3 DEF SameSysc, Sound
  <2> QED BY <2>1, <2>2 DEF Reached, Serious
<1>6. /\ b \in IpBlocks /\ SameCounts(b, a) /\ SamePlace(b, a) /\ b.odd = a.odd /\ ~b.blind
      /\ b.unlocked = oh.unlocked /\ (b.srst => b.busy)
  <2>1. CASE a.loaded
    BY <1>3, <1>5, <2>1 DEF SameCounts, SamePlace, SameSysc, Sound, Regular
  <2>2. CASE ~a.loaded
    <3>1. b = _update_sysc_cache(a)
      BY <2>2
    <3> HIDE DEF b
    <3> QED BY <1>3, <1>5, <3>1, CacheFacts DEF SameSysc
  <2> QED BY <2>1, <2>2
<1> HIDE DEF b
<1>7. Reached(b) /\ Counted(b) /\ Serious(b) = Serious(a) /\ b.clocks > 0
  BY <1>4, <1>5, <1>6 DEF Reached, Serious, SameCounts, SamePlace, Counted, On, One, Has
<1>8. CASE ~Has(a, "SYSC")
  <2>1. o = a
    BY <1>2, <1>8
  <2> QED BY <1>3, <1>4, <1>5, <1>8, <2>1 DEF Sound, InMode, Regular, Has, SameSysc
<1>9. CASE Has(a, "SYSC")
  <2>1. o = _enable_sysc(b)
    BY <1>2, <1>9
  <2>2. Has(b, "SYSC") /\ ActiveMode(b) = ActiveMode(o)
    BY <1>6, <1>9, <2>1, EnableSyscFacts DEF SamePlace, Has, ActiveMode, SmartMode
  <2>3. /\ o \in IpBlocks /\ SameCounts(o, b) /\ SamePlace(o, b) /\ ~o.blind
        /\ Serious(o) <=> Serious(oh)
        /\ o.cache = ActiveMode(o) /\ (o.srst \/ o.reg = o.cache)
        /\ o.unlocked = oh.unlocked /\ (o.srst => o.busy)
    BY <1>5, <1>6, <1>7, <2>1, <2>2, EnableSyscFacts
  <2>4. Counted(o)
    BY <1>7, <2>3 DEF SameCounts, SamePlace, Counted, On, One, Has
  <2> QED BY <1>3, <1>6, <2>3, <2>4 DEF Sound, InMode, Regular, SamePlace, Has
<1> QED BY <1>8, <1>9

\* Clocks and the module mode, given back.
LEMMA DisableFacts ==
    ASSUME NEW oh \in IpBlocks, NEW o, o = _disable_clocks(_omap4_disable_module(oh))
    PROVE  /\ o \in IpBlocks /\ SameSysc(o, oh)
           /\ o.flags = oh.flags /\ o.state = oh.state /\ o.skip = oh.skip
           /\ o.clocks = oh.clocks - 1 /\ o.clkdm = oh.clkdm /\ o.dep = oh.dep
           /\ o.poll = oh.poll /\ o.deny = oh.deny
           /\ o.failed = oh.failed /\ o.noauto = oh.noauto
<1> DEFINE a == _omap4_disable_module(oh)
<1>1. /\ a \in IpBlocks /\ SameCounts(a, oh) /\ SameSysc(a, oh)
      /\ a.flags = oh.flags /\ a.state = oh.state /\ a.skip = oh.skip
  BY ModuleFacts
<1>2. o = [a EXCEPT !.clocks = @ - 1]
  BY DEF _disable_clocks
<1> HIDE DEF a
<1>3. o \in IpBlocks
  BY <1>1, <1>2 DEF IpBlocks
<1>4. SameSysc(o, a) /\ o.flags = a.flags /\ o.state = a.state /\ o.skip = a.skip
  BY <1>1, <1>2 DEF IpBlocks, SameSysc
<1>5. /\ o.clocks = a.clocks - 1 /\ o.clkdm = a.clkdm /\ o.dep = a.dep
      /\ o.poll = a.poll /\ o.deny = a.deny
      /\ o.failed = a.failed /\ o.noauto = a.noauto
  BY <1>1, <1>2 DEF IpBlocks
<1> QED BY <1>1, <1>3, <1>4, <1>5 DEF SameCounts, SameSysc

\* A failed enable leaves a block a block.
LEMMA NewFailure ==
    ASSUME NEW oh \in IpBlocks, NEW x \in Int, NEW n \in Nat
    PROVE  [oh EXCEPT !.clkdm = x, !.failed = n, !.r = ETIMEDOUT] \in IpBlocks
  BY DEF IpBlocks, Answers

\* A block that does not get ready.
LEMMA EnableFailedFacts ==
    ASSUME NEW oh \in IpBlocks, Sound(oh), oh.state \in Off,
           NEW on \in IpBlocks, SameSysc(on, oh), on.flags = oh.flags, on.state = oh.state,
           on.clocks = oh.clocks + 1, on.clkdm = oh.clkdm + 1,
           on.dep = oh.dep + 1, on.deny = oh.deny + 1,
           on.poll = oh.poll + One(oh, "BLOCK_WFI"),
           on.failed = oh.failed, on.noauto = oh.noauto, on.skip = oh.skip,
           NEW o, o = _enable_failed(on)
    PROVE  /\ Sound(o) /\ InMode(o)
           /\ o.flags = oh.flags /\ o.state = oh.state /\ o.failed > 0
           /\ Serious(o) <=> Serious(oh)
           /\ o.skip = oh.skip /\ o.r = ETIMEDOUT
<1> DEFINE a == _disable_clocks(_omap4_disable_module(on))
<1>1. /\ a \in IpBlocks /\ SameSysc(a, on)
      /\ a.flags = on.flags /\ a.state = on.state /\ a.skip = on.skip
      /\ a.clocks = on.clocks - 1 /\ a.clkdm = on.clkdm /\ a.dep = on.dep
      /\ a.poll = on.poll /\ a.deny = on.deny
      /\ a.failed = on.failed /\ a.noauto = on.noauto
  BY DisableFacts
<1>2. o = [a EXCEPT !.clkdm = a.clkdm - 1, !.failed = a.failed + 1, !.r = ETIMEDOUT]
  BY DEF _enable_failed
<1> HIDE DEF a
<1>3. a.clkdm - 1 \in Int /\ a.failed + 1 \in Nat
  BY <1>1 DEF IpBlocks
<1>4. o \in IpBlocks
  <2> DEFINE x == a.clkdm - 1
             n == a.failed + 1
  <2>1. x \in Int /\ n \in Nat /\ a \in IpBlocks
    BY <1>1, <1>3
  <2>2. o = [a EXCEPT !.clkdm = x, !.failed = n, !.r = ETIMEDOUT]
    BY <1>2
  <2> HIDE DEF x, n
  <2>3. [a EXCEPT !.clkdm = x, !.failed = n, !.r = ETIMEDOUT] \in IpBlocks
    BY <2>1, NewFailure
  <2> QED BY <2>2, <2>3
<1>5. /\ SameSysc(o, a) /\ o.flags = a.flags /\ o.state = a.state /\ o.skip = a.skip
      /\ o.r = ETIMEDOUT
  BY <1>1, <1>2 DEF IpBlocks, SameSysc
<1>6. /\ o.clocks = a.clocks /\ o.clkdm = a.clkdm - 1 /\ o.dep = a.dep
      /\ o.poll = a.poll /\ o.deny = a.deny
      /\ o.failed = a.failed + 1 /\ o.noauto = a.noauto
  BY <1>1, <1>2 DEF IpBlocks
<1>7. Counted(o)
  <2>1. On(oh) = 0 /\ On(o) = 0
    BY <1>1, <1>5 DEF On, Off
  <2>2. oh.failed \in Nat /\ oh.noauto \in Nat
    BY DEF IpBlocks
  <2>3. \A f : One(o, f) = One(oh, f)
    BY <1>1, <1>5 DEF One, Has
  <2> QED BY <1>1, <1>6, <2>1, <2>2, <2>3, OneFacts DEF Counted, Sound
<1>8. o.failed > 0 /\ (Serious(o) <=> Serious(oh))
  BY <1>1, <1>5, <1>6 DEF SameSysc, Serious, IpBlocks
<1>9. Regular(o) /\ ~o.blind
  BY <1>1, <1>5, <1>8 DEF Regular, Sound, SameSysc, Off, Has
<1> QED BY <1>1, <1>4, <1>5, <1>7, <1>8, <1>9 DEF Sound, InMode

\* A changed return value or mark changes nothing that Sound and InMode say.
LEMMA SameSound ==
    ASSUME NEW oh \in IpBlocks, NEW o \in IpBlocks,
           SameCounts(o, oh), o.flags = oh.flags, o.state = oh.state,
           o.cache = oh.cache, o.srst = oh.srst, o.reg = oh.reg,
           o.blind = oh.blind, o.unlocked = oh.unlocked, o.busy = oh.busy,
           o.modulemode = oh.modulemode \/ Serious(o) \/ o.state # "ENABLED",
           \/ o.odd = oh.odd
           \/ Serious(o)
    PROVE  /\ Sound(oh) => Sound(o)
           /\ InMode(oh) => InMode(o)
<1>1. Counted(oh) => Counted(o)
  BY DEF Counted, SameCounts, On, One, Has
<1>2. Regular(oh) => Regular(o)
  BY DEF Regular, Serious, Has
<1>3. InMode(oh) => InMode(o)
  BY DEF InMode, Serious, Has, ActiveMode, IdleMode, SmartMode, SameCounts
<1> QED BY <1>1, <1>2, <1>3 DEF Sound

\* _enable keeps the invariant on each of its paths. A block that is off need
\* not be in its mode before: the enable sets it.
LEMMA EnableFacts ==
    ASSUME NEW oh \in IpBlocks, Sound(oh),
           InMode(oh) \/ (oh.state \in Off /\ ~oh.skip),
           NEW o \in _enable(oh)
    PROVE  /\ Sound(o) /\ InMode(o)
           /\ o.flags = oh.flags
           /\ Serious(oh) => Serious(o)
           /\ ~o.skip
           /\ oh.state = "ENABLED" => o.state = "ENABLED"
           /\ \/ o.state = "ENABLED" \/ o.failed > 0 \/ Serious(o)
              \/ o.state = "REGISTERED" /\ o.r = EINVAL
           /\ o.r = OK => o.state = "ENABLED" \/ Serious(o)
           /\ o.state \in {oh.state, "ENABLED"}
<1>1. CASE oh.skip
  <2> DEFINE a == omap_hwmod_mux(oh, "on")
             w == IF oh.state = "ENABLED" THEN a.odd ELSE a.odd \cup {"skipped"}
  <2>1. a \in IpBlocks /\ SameCounts(a, oh) /\ SameSysc(a, oh) /\ SamePlace(a, oh)
    BY MuxFacts
  <2>2. o = [a EXCEPT !.skip = FALSE, !.r = OK, !.odd = w]
    BY <1>1 DEF _enable
  <2> HIDE DEF a
  <2>4. w \in SUBSET Marks
    BY <2>1 DEF IpBlocks, Ways, SameSysc, Marks
  <2> HIDE DEF w
  <2>5. o \in IpBlocks
    BY <2>1, <2>2, <2>4 DEF IpBlocks, Answers
  <2>6. /\ o.flags = oh.flags /\ o.state = oh.state /\ o.modulemode = oh.modulemode
        /\ o.cache = oh.cache /\ o.reg = oh.reg /\ o.blind = oh.blind
          /\ o.srst = oh.srst /\ o.unlocked = oh.unlocked /\ o.busy = oh.busy
        /\ o.odd = w /\ o.r = OK /\ ~o.skip
    BY <2>1, <2>2 DEF IpBlocks, SamePlace, SameSysc
  <2>7. SameCounts(o, oh)
    BY <2>1, <2>2 DEF IpBlocks, SameCounts
  <2>8. (w = oh.odd /\ o.state = "ENABLED") \/ Serious(o)
    BY <2>1, <2>6 DEF w, Serious, Ways, SameSysc
  <2>9. Serious(oh) => Serious(o)
    BY <2>1, <2>6 DEF w, Serious, Ways, SameSysc
  <2> QED BY <1>1, <2>5, <2>6, <2>7, <2>8, <2>9, SameSound
<1>2. CASE ~oh.skip /\ oh.state \notin Off
  <2>1. o = Returns(oh, EINVAL)
    BY <1>2 DEF _enable, Off
  <2>2. EINVAL \in Answers /\ EINVAL # OK
    BY DEF Answers, EINVAL, OK
  <2>3. /\ o \in IpBlocks /\ o.r = EINVAL
        /\ SameCounts(o, oh) /\ SameSysc(o, oh) /\ SamePlace(o, oh)
    BY <2>1, <2>2, ReturnsFacts
  <2>4. oh.state \in {"REGISTERED", "ENABLED"}
    BY <1>2 DEF IpBlocks, States, Off
  <2>5. Sound(o) /\ InMode(o) /\ (Serious(o) <=> Serious(oh))
    BY <1>2, <2>3, SameSound DEF SameSysc, SamePlace, Serious
  <2> QED BY <1>2, <2>2, <2>3, <2>4, <2>5 DEF SamePlace
<1>3. CASE ~oh.skip /\ oh.state \in Off /\ _are_all_hardreset_lines_asserted(oh)
  <2>1. o = [[oh EXCEPT !.odd = oh.odd \cup {"held"}] EXCEPT !.r = OK]
    BY <1>3 DEF _enable, Off, Returns, Odd
  <2> DEFINE w == oh.odd \cup {"held"}
  <2>2. w \in SUBSET Marks
    BY DEF IpBlocks, Ways, Marks
  <2>3. "held" \in w
    OBVIOUS
  <2> HIDE DEF w
  <2>4. o \in IpBlocks
    BY <2>1, <2>2 DEF IpBlocks, Answers, w
  <2>5. /\ o.flags = oh.flags /\ o.state = oh.state /\ o.modulemode = oh.modulemode
        /\ o.cache = oh.cache /\ o.reg = oh.reg /\ o.blind = oh.blind
          /\ o.srst = oh.srst /\ o.unlocked = oh.unlocked /\ o.busy = oh.busy
        /\ o.odd = w /\ o.r = OK /\ o.skip = oh.skip
    BY <2>1 DEF IpBlocks, w
  <2>6. SameCounts(o, oh)
    BY <2>1 DEF IpBlocks, SameCounts
  <2>7. Serious(o)
    BY <2>3, <2>5 DEF Serious, Ways
  <2>8. Sound(o)
    BY <2>4, <2>5, <2>6, <2>7, SameSound
  <2> QED BY <1>3, <2>5, <2>7, <2>8 DEF InMode, Off
<1>4. CASE ~oh.skip /\ oh.state \in Off /\ ~_are_all_hardreset_lines_asserted(oh)
  <2> DEFINE muxed == IF oh.mux \in {"none", "off"} \/ oh.state = "IDLE"
                      THEN omap_hwmod_mux(oh, "on") ELSE oh
             res == Resources(muxed)
             on == _omap4_enable_module(res)
  <2>1. o = _enable_ready(on) \/ o = _enable_failed(on)
    BY <1>4 DEF _enable, Off
  <2>2. /\ muxed \in IpBlocks
        /\ SameCounts(muxed, oh) /\ SameSysc(muxed, oh) /\ SamePlace(muxed, oh)
    BY MuxFacts DEF SameCounts, SameSysc, SamePlace
  <2> HIDE DEF muxed
  <2>3. /\ res \in IpBlocks
        /\ SameSysc(res, muxed) /\ SamePlace(res, muxed)
        /\ res.clocks = muxed.clocks + 1 /\ res.clkdm = muxed.clkdm + 1
        /\ res.dep = muxed.dep + 1 /\ res.deny = muxed.deny + 1
        /\ res.poll = muxed.poll + One(muxed, "BLOCK_WFI")
        /\ res.failed = muxed.failed /\ res.noauto = muxed.noauto
    BY <2>2, ResourcesFacts
  <2> HIDE DEF res
  <2>4. /\ on \in IpBlocks
        /\ SameCounts(on, res) /\ SameSysc(on, res)
        /\ on.flags = res.flags /\ on.state = res.state /\ on.skip = res.skip
        /\ on.modulemode
    BY <2>3, ModuleFacts
  <2> HIDE DEF on
  <2>5. /\ SameSysc(on, oh) /\ on.flags = oh.flags /\ on.state = oh.state
        /\ on.clocks = oh.clocks + 1 /\ on.clkdm = oh.clkdm + 1
        /\ on.dep = oh.dep + 1 /\ on.deny = oh.deny + 1
        /\ on.poll = oh.poll + One(oh, "BLOCK_WFI")
        /\ on.failed = oh.failed /\ on.noauto = oh.noauto /\ on.skip = oh.skip
    BY <2>2, <2>3, <2>4 DEF SameCounts, SameSysc, SamePlace, One, Has
  <2>6. CASE o = _enable_ready(on)
    BY <1>4, <2>4, <2>5, <2>6, EnableReadyFacts DEF Off
  <2>7. CASE o = _enable_failed(on)
    BY <1>4, <2>4, <2>5, <2>7, EnableFailedFacts DEF Off, ETIMEDOUT, OK
  <2> QED BY <2>1, <2>6, <2>7
<1> QED BY <1>1, <1>2, <1>3, <1>4

\* So does the end of an idle.
LEMMA NewPlace ==
    ASSUME NEW oh \in IpBlocks, NEW x \in Int, NEW y \in Int, NEW s \in States
    PROVE  [oh EXCEPT !.deny = x, !.clkdm = y, !.state = s, !.r = OK] \in IpBlocks
  BY DEF IpBlocks, Answers

\* Back to IDLE.
LEMMA IdleFacts ==
    ASSUME NEW oh \in IpBlocks, Sound(oh), InMode(oh), NEW o \in _idle(oh)
    PROVE  /\ Sound(o) /\ InMode(o)
           /\ o.flags = oh.flags
           /\ Serious(oh) => Serious(o)
           /\ oh.state # "ENABLED" => o.state = oh.state
<1>1. CASE Has(oh, "NO_IDLE")
  <2>1. o = [oh EXCEPT !.skip = TRUE, !.r = OK]
    BY <1>1 DEF _idle
  <2>2. o \in IpBlocks
    BY <2>1 DEF IpBlocks, Answers
  <2>3. /\ o.flags = oh.flags /\ o.state = oh.state /\ o.modulemode = oh.modulemode
        /\ SameSysc(o, oh)
    BY <2>1 DEF IpBlocks, SameSysc
  <2>4. SameCounts(o, oh)
    BY <2>1 DEF IpBlocks, SameCounts
  <2> QED BY <2>2, <2>3, <2>4, SameSound DEF SameSysc, Serious
<1>2. ASSUME o \in {Returns(oh, OK), Returns(oh, EINVAL)}
      PROVE  /\ Sound(o) /\ InMode(o) /\ o.flags = oh.flags
             /\ Serious(oh) => Serious(o)
             /\ o.state = oh.state
  <2>1. /\ o \in IpBlocks
        /\ SameCounts(o, oh) /\ SameSysc(o, oh) /\ SamePlace(o, oh)
    BY <1>2, ReturnsFacts DEF Answers
  <2> QED BY <2>1, SameSound DEF SameSysc, SamePlace, Serious
<1>3. CASE /\ ~Has(oh, "NO_IDLE") /\ oh.state = "ENABLED"
           /\ ~_are_all_hardreset_lines_asserted(oh)
  <2> DEFINE quiet == _idle_sysc(oh)
             k == One(oh, "BLOCK_WFI")
             n == One(oh, "CLKDM_NOAUTO")
             undep == [quiet EXCEPT !.dep = @ - 1]
             a == [undep EXCEPT !.poll = @ - k]
             b == _disable_clocks(_omap4_disable_module(a))
             c == omap_hwmod_mux(b, "idle")
  <2>1. /\ oh.clocks = 1 /\ Reached(oh) /\ ~oh.blind
        /\ k \in {0, 1} /\ n \in {0, 1}
    BY <1>3, OneFacts DEF Sound, Counted, On, Reached
  <2> HIDE DEF k, n
  <2>2. o = [c EXCEPT !.deny = c.deny - n, !.clkdm = c.clkdm - 1, !.state = "IDLE", !.r = OK]
    BY <1>3 DEF _idle, _del_initiator_dep, k, n, One
  <2>3. /\ quiet \in IpBlocks
        /\ SameCounts(quiet, oh) /\ SamePlace(quiet, oh)
        /\ Serious(quiet) <=> Serious(oh)
        /\ quiet.srst = oh.srst /\ quiet.unlocked = oh.unlocked /\ quiet.busy = oh.busy
        /\ Has(oh, "SYSC") /\ ("lost" \in oh.odd \/ oh.reg = oh.cache)
              => quiet.srst \/ "lost" \in quiet.odd \/ quiet.reg = IdleMode(oh)
        /\ ~quiet.blind
    BY <2>1, IdleSyscFacts
  <2> HIDE DEF quiet
  <2>4. /\ undep \in IpBlocks /\ SameSysc(undep, quiet) /\ SamePlace(undep, quiet)
        /\ undep.dep = quiet.dep - 1 /\ undep.clocks = quiet.clocks
        /\ undep.clkdm = quiet.clkdm /\ undep.poll = quiet.poll /\ undep.deny = quiet.deny
        /\ undep.failed = quiet.failed /\ undep.noauto = quiet.noauto
    BY <2>3 DEF IpBlocks, SameSysc, SamePlace
  <2> HIDE DEF undep
  <2>5. /\ a \in IpBlocks /\ SameSysc(a, undep) /\ SamePlace(a, undep)
        /\ a.dep = undep.dep /\ a.clocks = undep.clocks
        /\ a.clkdm = undep.clkdm /\ a.poll = undep.poll - k /\ a.deny = undep.deny
        /\ a.failed = undep.failed /\ a.noauto = undep.noauto
    BY <2>1, <2>4 DEF IpBlocks, SameSysc, SamePlace
  <2> HIDE DEF a
  <2>6. /\ b \in IpBlocks /\ SameSysc(b, a)
        /\ b.flags = a.flags /\ b.state = a.state /\ b.skip = a.skip
        /\ b.clocks = a.clocks - 1 /\ b.clkdm = a.clkdm /\ b.dep = a.dep
        /\ b.poll = a.poll /\ b.deny = a.deny
        /\ b.failed = a.failed /\ b.noauto = a.noauto
    BY <2>5, DisableFacts
  <2> HIDE DEF b
  <2>7. c \in IpBlocks /\ SameCounts(c, b) /\ SameSysc(c, b) /\ SamePlace(c, b)
    BY <2>6, MuxFacts
  <2> HIDE DEF c
  <2>8. o \in IpBlocks
    <3>1. c.deny - n \in Int /\ c.clkdm - 1 \in Int
      BY <2>1, <2>7 DEF IpBlocks
    <3> QED BY <2>2, <2>7, <3>1, NewPlace DEF States
  <2>9. /\ o.flags = c.flags /\ o.state = "IDLE" /\ SameSysc(o, c)
    BY <2>2, <2>7 DEF IpBlocks, SameSysc
  <2>10. /\ o.clocks = c.clocks /\ o.clkdm = c.clkdm - 1 /\ o.dep = c.dep
         /\ o.poll = c.poll /\ o.deny = c.deny - n
         /\ o.failed = c.failed /\ o.noauto = c.noauto
    BY <2>2, <2>7 DEF IpBlocks
  <2>11. Counted(o)
    <3>1. On(oh) = 1 /\ On(o) = 0
      BY <1>3, <2>9 DEF On
    <3>2. oh.failed \in Nat /\ oh.noauto \in Nat
      BY DEF IpBlocks
    <3>3. \A f : One(o, f) = One(oh, f)
      BY <2>3, <2>4, <2>5, <2>6, <2>7, <2>9 DEF One, Has, SamePlace
    <3>4. /\ o.clocks = oh.clocks - 1 /\ o.clkdm = oh.clkdm - 1 /\ o.dep = oh.dep - 1
          /\ o.poll = oh.poll - k /\ o.deny = oh.deny - n
          /\ o.failed = oh.failed /\ o.noauto = oh.noauto
      BY <2>3, <2>4, <2>5, <2>6, <2>7, <2>10 DEF SameCounts
    <3> QED BY <3>1, <3>2, <3>3, <3>4, OneFacts DEF Counted, Sound, k, n
  <2>12. o.flags = oh.flags /\ SameSysc(o, quiet)
    BY <2>3, <2>4, <2>5, <2>6, <2>7, <2>9 DEF SamePlace, SameSysc
  <2>13. Serious(o) <=> Serious(oh)
    BY <2>3, <2>12 DEF SameSysc, Serious
  <2>14. Regular(o) /\ ~o.blind
    BY <1>3, <2>3, <2>9, <2>12, <2>13 DEF Regular, Sound, SameSysc, Has
  <2>15. InMode(o)
    <3>1. o.failed = oh.failed
      BY <2>3, <2>4, <2>5, <2>6, <2>7, <2>10 DEF SameCounts
    <3> QED BY <1>3, <2>3, <2>9, <2>12, <2>13, <3>1
            DEF InMode, SameSysc, Has, IdleMode, SmartMode
  <2> QED BY <1>3, <2>8, <2>11, <2>12, <2>13, <2>14, <2>15 DEF Sound
<1> QED BY <1>1, <1>2, <1>3 DEF _idle

\* Lines that go into reset change nothing else.
LEMMA AssertFacts ==
    ASSUME NEW oh \in IpBlocks, NEW o, o = AssertAll(oh)
    PROVE  /\ o \in IpBlocks
           /\ SameCounts(o, oh) /\ SameSysc(o, oh) /\ SamePlace(o, oh)
<1>1. RstLines(oh) \in SUBSET Lines
  BY DEF RstLines
<1>2. o \in IpBlocks
  BY <1>1 DEF AssertAll, IpBlocks
<1>3. SameCounts(o, oh) /\ SameSysc(o, oh) /\ SamePlace(o, oh)
  BY DEF AssertAll, IpBlocks, SameCounts, SameSysc, SamePlace
<1> QED BY <1>2, <1>3

\* The end of a shutdown leaves a block a block.
LEMMA NewLeak ==
    ASSUME NEW oh \in IpBlocks, NEW x \in Int, NEW y \in Int, NEW n \in Nat
    PROVE  [oh EXCEPT !.poll = x, !.clkdm = y, !.noauto = n] \in IpBlocks
  BY DEF IpBlocks

\* Down to DISABLED.
LEMMA ShutdownRestFacts ==
    ASSUME NEW oh \in IpBlocks, Sound(oh), oh.state \in {"IDLE", "ENABLED"},
           Reached(oh) \/ ~Has(oh, "SYSC"),
           NEW o, o = _shutdown_rest(oh)
    PROVE  /\ Sound(o) /\ InMode(o)
           /\ o.flags = oh.flags
           /\ Serious(oh) => Serious(o)
           /\ o.r = OK
<1> DEFINE quiet == IF Has(oh, "SYSC") THEN _shutdown_sysc(oh) ELSE oh
           k == One(oh, "BLOCK_WFI")
           n == One(oh, "CLKDM_NOAUTO")
           undep == [quiet EXCEPT !.dep = @ - 1]
           b == _disable_clocks(_omap4_disable_module(undep))
           off == IF oh.state # "ENABLED" THEN quiet
                  ELSE [b EXCEPT !.poll = b.poll - k, !.clkdm = b.clkdm - 1,
                                 !.noauto = b.noauto + n]
           c == AssertAll(off)
           d == omap_hwmod_mux(c, "off")
<1>1. k \in {0, 1} /\ n \in {0, 1}
  BY OneFacts
<1> HIDE DEF k, n
<1>2. o = [d EXCEPT !.state = "DISABLED", !.r = OK]
  BY DEF _shutdown_rest, _del_initiator_dep, k, n, One
<1>3. /\ quiet \in IpBlocks
      /\ SameCounts(quiet, oh) /\ SamePlace(quiet, oh)
      /\ Serious(quiet) <=> Serious(oh)
      /\ quiet.srst = oh.srst /\ quiet.unlocked = oh.unlocked /\ quiet.busy = oh.busy
      /\ ~quiet.blind
  BY ShutdownSyscFacts DEF Sound
<1> HIDE DEF quiet
<1>4. /\ off \in IpBlocks /\ SameSysc(off, quiet)
      /\ off.flags = oh.flags
      /\ off.clocks = oh.clocks - On(oh) /\ off.clkdm = oh.clkdm - On(oh)
      /\ off.dep = oh.dep - On(oh) /\ off.deny = oh.deny
      /\ off.poll = oh.poll - k * On(oh)
      /\ off.failed = oh.failed /\ off.noauto = oh.noauto + n * On(oh)
  <2>1. CASE oh.state # "ENABLED"
    <3>1. On(oh) = 0 /\ k * On(oh) = 0 /\ n * On(oh) = 0
      BY <1>1, <2>1 DEF On
    <3>2. off = quiet /\ oh \in IpBlocks
      BY <2>1
    <3> HIDE DEF off
    <3> QED BY <1>3, <3>1, <3>2 DEF SameCounts, SameSysc, SamePlace, IpBlocks
  <2>2. CASE oh.state = "ENABLED"
    <3>1. On(oh) = 1 /\ k * On(oh) = k /\ n * On(oh) = n
      BY <1>1, <2>2 DEF On
    <3>2. /\ undep \in IpBlocks /\ SameSysc(undep, quiet) /\ SamePlace(undep, quiet)
          /\ undep.dep = quiet.dep - 1 /\ undep.clocks = quiet.clocks
          /\ undep.clkdm = quiet.clkdm /\ undep.poll = quiet.poll /\ undep.deny = quiet.deny
          /\ undep.failed = quiet.failed /\ undep.noauto = quiet.noauto
      BY <1>3 DEF IpBlocks, SameSysc, SamePlace
    <3> HIDE DEF undep
    <3>3. /\ b \in IpBlocks /\ SameSysc(b, undep)
          /\ b.flags = undep.flags /\ b.state = undep.state /\ b.skip = undep.skip
          /\ b.clocks = undep.clocks - 1 /\ b.clkdm = undep.clkdm /\ b.dep = undep.dep
          /\ b.poll = undep.poll /\ b.deny = undep.deny
          /\ b.failed = undep.failed /\ b.noauto = undep.noauto
      BY <3>2, DisableFacts
    <3> HIDE DEF b
    <3> DEFINE x == b.poll - k
               y == b.clkdm - 1
               m == b.noauto + n
    <3>4. x \in Int /\ y \in Int /\ m \in Nat
      BY <1>1, <3>3 DEF IpBlocks
    <3>5. off = [b EXCEPT !.poll = x, !.clkdm = y, !.noauto = m]
      BY <2>2
    <3> HIDE DEF x, y, m, off
    <3>6. [b EXCEPT !.poll = x, !.clkdm = y, !.noauto = m] \in IpBlocks
      BY <3>3, <3>4, NewLeak
    <3>7. SameSysc(off, b) /\ off.flags = b.flags
      BY <3>3, <3>5 DEF IpBlocks, SameSysc
    <3>8. /\ off.clocks = b.clocks /\ off.clkdm = y /\ off.dep = b.dep
          /\ off.poll = x /\ off.deny = b.deny
          /\ off.failed = b.failed /\ off.noauto = m
      BY <3>3, <3>5 DEF IpBlocks
    <3>9. SameSysc(off, quiet) /\ off.flags = oh.flags
      BY <1>3, <3>2, <3>3, <3>7 DEF SameSysc, SamePlace
    <3>10. /\ off.clocks = oh.clocks - 1 /\ off.clkdm = oh.clkdm - 1
           /\ off.dep = oh.dep - 1 /\ off.deny = oh.deny /\ off.poll = oh.poll - k
           /\ off.failed = oh.failed /\ off.noauto = oh.noauto + n
      BY <1>3, <3>2, <3>3, <3>8 DEF SameCounts, x, y, m
    <3> QED BY <3>1, <3>5, <3>6, <3>9, <3>10
  <2> QED BY <2>1, <2>2
<1> HIDE DEF off
<1>5. c \in IpBlocks /\ SameCounts(c, off) /\ SameSysc(c, off) /\ SamePlace(c, off)
  BY <1>4, AssertFacts
<1> HIDE DEF c
<1>6. d \in IpBlocks /\ SameCounts(d, c) /\ SameSysc(d, c) /\ SamePlace(d, c)
  BY <1>5, MuxFacts
<1> HIDE DEF d
<1>7. o \in IpBlocks
  BY <1>2, <1>6, ZenonT(30) DEF IpBlocks, States, Answers
<1>8. o.flags = d.flags /\ o.state = "DISABLED" /\ SameSysc(o, d) /\ o.r = OK
  BY <1>2, <1>6 DEF IpBlocks, SameSysc
<1>9. SameCounts(o, d)
  BY <1>2, <1>6 DEF IpBlocks, SameCounts
<1>10. Counted(o)
  <2>1. On(o) = 0 /\ On(oh) \in {0, 1}
    BY <1>8 DEF On
  <2>2. oh.failed \in Nat /\ oh.noauto \in Nat
    BY DEF IpBlocks
  <2>3. \A f : One(o, f) = One(oh, f)
    BY <1>4, <1>5, <1>6, <1>8 DEF One, Has, SamePlace
  <2>4. /\ o.clocks = oh.clocks - On(oh) /\ o.clkdm = oh.clkdm - On(oh)
        /\ o.dep = oh.dep - On(oh) /\ o.deny = oh.deny
        /\ o.poll = oh.poll - k * On(oh)
        /\ o.failed = oh.failed /\ o.noauto = oh.noauto + n * On(oh)
    BY <1>4, <1>5, <1>6, <1>9 DEF SameCounts
  <2>5. CASE On(oh) = 0
    BY <2>1, <2>2, <2>3, <2>4, <2>5, <1>1, OneFacts DEF Counted, Sound, k, n
  <2>6. CASE On(oh) = 1
    <3>1. n * (1 + oh.noauto) = n * (0 + (oh.noauto + n))
      <4>1. CASE n = 0
        BY <4>1, <2>2
      <4>2. CASE n = 1
        BY <4>2, <2>2
      <4> QED BY <1>1, <4>1, <4>2
    <3>2. k * (1 + oh.failed) = k * (0 + oh.failed) + k
      BY <1>1, <2>2
    <3>3. n * On(oh) = n /\ k * On(oh) = k
      BY <1>1, <2>6
    <3> QED BY <2>1, <2>2, <2>3, <2>4, <2>6, <3>1, <3>2, <3>3, <1>1 DEF Counted, Sound, k, n
  <2> QED BY <2>1, <2>5, <2>6
<1>11. SameSysc(o, quiet) /\ o.flags = oh.flags
  BY <1>4, <1>5, <1>6, <1>8 DEF SamePlace, SameSysc
<1>12. Serious(o) <=> Serious(oh)
  BY <1>3, <1>11 DEF SameSysc, Serious
<1>13. Regular(o) /\ ~o.blind
  BY <1>3, <1>8, <1>11, <1>12 DEF Regular, Sound, SameSysc, Has
<1> QED BY <1>7, <1>8, <1>10, <1>11, <1>12, <1>13 DEF Sound, InMode

\* An idle block that has been enabled for its registers.
LEMMA EnabledIfIdleFacts ==
    ASSUME NEW oh \in IpBlocks, Sound(oh), InMode(oh),
           oh.state \in {"IDLE", "ENABLED"}, NEW o \in EnabledIfIdle(oh)
    PROVE  /\ Sound(o) /\ InMode(o) /\ Reached(o)
           /\ o.flags = oh.flags
           /\ Serious(oh) => Serious(o)
           /\ o.state \in {"IDLE", "ENABLED"}
           /\ oh.state = "ENABLED" => o = oh
<1>1. CASE oh.state = "IDLE"
  <2>1. o \in _enable(oh)
    BY <1>1 DEF EnabledIfIdle
  <2>2. /\ Sound(o) /\ InMode(o) /\ o.flags = oh.flags
        /\ Serious(oh) => Serious(o)
        /\ (o.state = "ENABLED" \/ o.failed > 0 \/ Serious(o) \/ o.state = "REGISTERED")
        /\ o.state \in {oh.state, "ENABLED"}
    BY <2>1, EnableFacts
  <2> QED BY <1>1, <2>2 DEF Reached, Sound, Counted, On
<1>2. CASE oh.state = "ENABLED"
  BY <1>2 DEF EnabledIfIdle, Reached, Sound, Counted, On
<1> QED BY <1>1, <1>2

\* _shutdown keeps the invariant, with its hook and its enable of an idle
\* block; a shutdown that is refused leaves an enabled block as it was.
LEMMA ShutdownFacts ==
    ASSUME NEW oh \in IpBlocks, Sound(oh), InMode(oh), NEW o \in _shutdown(oh)
    PROVE  /\ Sound(o) /\ InMode(o)
           /\ o.flags = oh.flags
           /\ Serious(oh) => Serious(o)
           /\ oh.state = "ENABLED" /\ o.r # OK =>
                  o.state = "ENABLED" /\ o.modulemode = oh.modulemode /\ o.skip = oh.skip
<1>1. ASSUME NEW p \in IpBlocks, Sound(p), InMode(p), p.flags = oh.flags,
             Serious(oh) => Serious(p), p.state \in {"IDLE", "ENABLED"},
             NEW q \in IF Has(p, "SYSC") THEN EnabledIfIdle(p) ELSE {p},
             o = _shutdown_rest(q)
      PROVE  Sound(o) /\ InMode(o) /\ o.flags = oh.flags
             /\ (Serious(oh) => Serious(o)) /\ o.r = OK
  <2>1. CASE Has(p, "SYSC")
    <3>1. /\ Sound(q) /\ Reached(q) /\ q.flags = p.flags
          /\ Serious(p) => Serious(q)
          /\ q.state \in {"IDLE", "ENABLED"} /\ q \in IpBlocks
      BY <1>1, <2>1, EnabledIfIdleFacts DEF Sound
    <3> QED BY <1>1, <3>1, ShutdownRestFacts
  <2>2. CASE ~Has(p, "SYSC")
    BY <1>1, <2>2, ShutdownRestFacts
  <2> QED BY <2>1, <2>2
<1>2. ASSUME NEW p \in IpBlocks, Sound(p), InMode(p), p.flags = oh.flags,
             Serious(oh) => Serious(p), NEW a \in Answers, o = Returns(p, a)
      PROVE  /\ Sound(o) /\ InMode(o) /\ o.flags = oh.flags
             /\ (Serious(oh) => Serious(o)) /\ o.r = a
             /\ o.state = p.state /\ o.modulemode = p.modulemode /\ o.skip = p.skip
  <2>1. o \in IpBlocks /\ o.r = a /\ SameCounts(o, p) /\ SameSysc(o, p) /\ SamePlace(o, p)
    BY <1>2, ReturnsFacts
  <2>2. o.flags = p.flags /\ o.state = p.state /\ o.modulemode = p.modulemode /\ o.skip = p.skip
    BY <2>1 DEF SamePlace
  <2> QED BY <1>2, <2>1, <2>2, SameSound DEF SameSysc, Serious
<1>3. OK \in Answers /\ EINVAL \in Answers /\ "EBUSY" \in Answers
  BY DEF Answers
<1>4. CASE o = Returns(oh, OK) \/ (o = Returns(oh, EINVAL) /\ oh.state # "ENABLED")
  BY <1>2, <1>3, <1>4
<1>5. CASE oh.state \in {"IDLE", "ENABLED"} /\ ~Has(oh, "PRE_SHUTDOWN")
           /\ ~_are_all_hardreset_lines_asserted(oh)
  <2>1. PICK q \in IF Has(oh, "SYSC") THEN EnabledIfIdle(oh) ELSE {oh} : o = _shutdown_rest(q)
    BY <1>5 DEF _shutdown
  <2> QED BY <1>1, <1>5, <2>1
<1>6. CASE oh.state \in {"IDLE", "ENABLED"} /\ Has(oh, "PRE_SHUTDOWN")
           /\ ~_are_all_hardreset_lines_asserted(oh)
  <2>1. PICK p \in EnabledIfIdle(oh) :
             \/ \E q \in IF Has(p, "SYSC") THEN EnabledIfIdle(p) ELSE {p} : o = _shutdown_rest(q)
             \/ o \in Refused(p, oh.state = "IDLE")
    BY <1>6 DEF _shutdown, Then
  <2>2. /\ p \in IpBlocks /\ Sound(p) /\ InMode(p) /\ p.flags = oh.flags
        /\ Serious(oh) => Serious(p)
        /\ p.state \in {"IDLE", "ENABLED"}
        /\ oh.state = "ENABLED" => p = oh
    BY <1>6, <2>1, EnabledIfIdleFacts DEF Sound
  <2>3. CASE \E q \in IF Has(p, "SYSC") THEN EnabledIfIdle(p) ELSE {p} : o = _shutdown_rest(q)
    BY <1>1, <2>2, <2>3
  <2>4. CASE o \in Refused(p, oh.state = "IDLE")
    <3>1. PICK s \in IF oh.state = "IDLE" THEN _idle(p) ELSE {p} : o = Returns(s, "EBUSY")
      BY <2>4 DEF Refused
    <3>2. CASE oh.state = "IDLE"
      <4>1. Sound(s) /\ InMode(s) /\ s.flags = p.flags /\ (Serious(p) => Serious(s))
        BY <2>2, <3>1, <3>2, IdleFacts
      <4> QED BY <1>2, <1>3, <2>2, <3>1, <3>2, <4>1 DEF Sound
    <3>3. CASE oh.state = "ENABLED"
      BY <1>2, <1>3, <2>2, <3>1, <3>3
    <3> QED BY <1>6, <3>2, <3>3
  <2> QED BY <2>1, <2>3, <2>4
<1>7. CASE _are_all_hardreset_lines_asserted(oh)
  <2>1. o = Returns(oh, OK)
    BY <1>7 DEF _shutdown
  <2>2. o = Returns(oh, OK) \/ (o = Returns(oh, EINVAL) /\ oh.state # "ENABLED")
    BY <2>1
  <2> QED BY <1>4, <2>2, Zenon
<1>8. CASE ~_are_all_hardreset_lines_asserted(oh) /\ oh.state \notin {"IDLE", "ENABLED"}
  <2>1. o = Returns(oh, EINVAL)
    BY <1>8 DEF _shutdown
  <2> QED BY <1>4, <1>8, <2>1
<1> QED BY <1>5, <1>6, <1>7, <1>8

-----------------------------------------------------------------------------
(* Resets, suspend and boot.                                               *)

\* The bit of the cache.
LEMMA BitFacts ==
    ASSUME NEW oh \in IpBlocks, NEW o, NEW bit \in BOOLEAN, o = [oh EXCEPT !.srst = bit]
    PROVE  /\ o \in IpBlocks /\ SameCounts(o, oh) /\ SamePlace(o, oh)
           /\ o.srst = bit /\ o.cache = oh.cache /\ o.reg = oh.reg
           /\ o.odd = oh.odd /\ o.blind = oh.blind /\ o.unlocked = oh.unlocked /\ o.busy = oh.busy
           /\ Reached(o) <=> Reached(oh)
<1>1. o \in IpBlocks
  BY DEF IpBlocks
<1>2. /\ SamePlace(o, oh)
      /\ o.srst = bit /\ o.cache = oh.cache /\ o.reg = oh.reg
      /\ o.odd = oh.odd /\ o.blind = oh.blind /\ o.unlocked = oh.unlocked /\ o.busy = oh.busy
  BY DEF IpBlocks, SamePlace
<1>3. SameCounts(o, oh)
  BY DEF IpBlocks, SameCounts
<1>4. Reached(o) <=> Reached(oh)
  BY <1>2, <1>3 DEF Reached, SameCounts, Serious
<1> QED BY <1>1, <1>2, <1>3, <1>4

\* A write of omap_hwmod_softreset.
LEMMA UnlockedFacts ==
    ASSUME NEW oh \in IpBlocks, NEW v \in Contents, NEW o, o = Unlocked(v, oh)
    PROVE  /\ o \in IpBlocks
           /\ SameCounts(o, oh) /\ SamePlace(o, oh)
           /\ o.cache = v /\ o.srst = oh.srst /\ o.blind = oh.blind
           /\ o.odd \in {oh.odd, oh.odd \ {"lost"}}
           /\ oh.clocks > 0 /\ ~oh.srst => o.reg = v
           /\ ~(oh.clocks > 0) => o.reg = oh.reg
           /\ o.unlocked => oh.unlocked \/ ~Reached(oh)
<1> DEFINE a == _write_sysconfig(v, oh)
           u == oh.unlocked \/ Blind(oh)
           c == [a EXCEPT !.blind = oh.blind]
<1>1. /\ a \in IpBlocks /\ SameCounts(a, oh) /\ SamePlace(a, oh)
      /\ a.cache = v /\ a.srst = oh.srst /\ a.unlocked = oh.unlocked /\ a.busy = oh.busy
      /\ a.odd \in {oh.odd, oh.odd \ {"lost"}}
      /\ oh.clocks > 0 /\ ~oh.srst => a.reg = v
      /\ ~(oh.clocks > 0) => a.reg = oh.reg
  BY WriteFacts
<1>2. o = [c EXCEPT !.unlocked = u]
  BY <1>1 DEF Unlocked, IpBlocks
<1>3. u \in BOOLEAN /\ (u => oh.unlocked \/ ~Reached(oh))
  BY DEF IpBlocks, Blind, Accessible, Reached, Serious
<1> HIDE DEF a, u
<1>4. o \in IpBlocks
  <2>1. c \in IpBlocks
    BY <1>1 DEF IpBlocks
  <2> HIDE DEF c
  <2> QED BY <1>2, <1>3, <2>1 DEF IpBlocks
<1>5. /\ SamePlace(o, a) /\ o.cache = a.cache /\ o.srst = a.srst
      /\ o.blind = oh.blind /\ o.odd = a.odd /\ o.reg = a.reg /\ o.unlocked = u
  BY <1>1, <1>2 DEF IpBlocks, SamePlace
<1>6. SameCounts(o, a)
  BY <1>1, <1>2 DEF IpBlocks, SameCounts
<1> QED BY <1>1, <1>3, <1>4, <1>5, <1>6 DEF SameCounts, SamePlace

(* A softreset may touch a block that is off only if the notifier reidles it. *)
MayReset(oh) == Reached(oh) \/ Has(oh, "NEEDS_REIDLE")

\* The mark of a reset under way is kept beside the block: setting it changes
\* nothing else.
LEMMA BusyFacts ==
    ASSUME NEW oh \in IpBlocks, NEW x \in BOOLEAN, NEW o, o = [oh EXCEPT !.busy = x]
    PROVE  /\ o \in IpBlocks /\ SameCounts(o, oh) /\ SamePlace(o, oh)
           /\ o.cache = oh.cache /\ o.reg = oh.reg /\ o.srst = oh.srst
           /\ o.odd = oh.odd /\ o.blind = oh.blind /\ o.unlocked = oh.unlocked
           /\ o.busy = x
<1>1. o \in IpBlocks
  BY DEF IpBlocks
<1>2. SameCounts(o, oh)
  BY DEF IpBlocks, SameCounts
<1>3. SamePlace(o, oh)
  BY DEF IpBlocks, SamePlace
<1> QED BY <1>1, <1>2, <1>3 DEF IpBlocks

\* The first write of a softreset.
LEMMA FirstWriteFacts ==
    ASSUME NEW oh \in IpBlocks, Sound(oh), InMode(oh), MayReset(oh),
           NEW o, o = FirstWrite(oh)
    PROVE  /\ Sound(o) /\ InMode(o) /\ SamePlace(o, oh)
           /\ Serious(o) <=> Serious(oh)
           /\ o.cache = oh.cache
<1> DEFINE a == _set_softreset(oh)
           c == Unlocked(oh.cache, a)
<1>1. /\ a \in IpBlocks /\ SameCounts(a, oh) /\ SamePlace(a, oh)
      /\ a.srst /\ a.odd = oh.odd /\ a.blind = oh.blind /\ a.unlocked = oh.unlocked /\ a.busy = oh.busy
      /\ Reached(a) <=> Reached(oh)
  BY BitFacts DEF _set_softreset
<1>2. o = [c EXCEPT !.busy = TRUE] /\ oh.cache \in Contents
  BY DEF FirstWrite, IpBlocks
<1> HIDE DEF a
<1>0. /\ c \in IpBlocks /\ SameCounts(c, a) /\ SamePlace(c, a)
      /\ c.cache = oh.cache /\ c.srst /\ c.blind = a.blind
      /\ c.odd \in {a.odd, a.odd \ {"lost"}}
      /\ c.unlocked => a.unlocked \/ ~Reached(a)
  BY <1>1, <1>2, UnlockedFacts
<1> HIDE DEF c
<1>3. /\ o \in IpBlocks /\ SameCounts(o, a) /\ SamePlace(o, a)
      /\ o.cache = oh.cache /\ o.srst /\ o.blind = a.blind
      /\ o.odd \in {a.odd, a.odd \ {"lost"}}
      /\ o.unlocked => a.unlocked \/ ~Reached(a)
      /\ o.busy
  <2>1. /\ o \in IpBlocks /\ SameCounts(o, c) /\ SamePlace(o, c)
        /\ o.cache = c.cache /\ o.srst = c.srst
        /\ o.odd = c.odd /\ o.blind = c.blind /\ o.unlocked = c.unlocked /\ o.busy
    <3>1. o = [c EXCEPT !.busy = TRUE]
      BY <1>2
    <3> QED BY <1>0, <3>1, BusyFacts, ZenonT(30)
  <2> QED BY <1>0, <2>1 DEF SameCounts, SamePlace
<1>4. /\ SameCounts(o, oh) /\ SamePlace(o, oh)
      /\ o.odd \in {oh.odd, oh.odd \ {"lost"}}
      /\ Serious(o) <=> Serious(oh)
  BY <1>1, <1>3 DEF SameCounts, SamePlace, Serious, Ways
<1>5. Counted(o)
  BY <1>4 DEF Sound, Counted, SameCounts, SamePlace, On, One, Has
<1>6. Regular(o) /\ ~o.blind
  BY <1>1, <1>3, <1>4 DEF Sound, Regular, SamePlace, Has, MayReset
<1>7. InMode(o)
  <2>1. o.failed = oh.failed /\ o.state = oh.state /\ o.flags = oh.flags
    BY <1>4 DEF SameCounts, SamePlace
  <2>2. ActiveMode(o) = ActiveMode(oh) /\ Has(o, "SYSC") = Has(oh, "SYSC")
    BY <2>1 DEF ActiveMode, SmartMode, Has
  <2> QED BY <1>3, <1>4, <2>1, <2>2 DEF InMode
<1> QED BY <1>3, <1>4, <1>5, <1>6, <1>7 DEF Sound

\* The second one.
LEMMA SecondWriteFacts ==
    ASSUME NEW oh \in IpBlocks, Sound(oh), InMode(oh), MayReset(oh),
           NEW v \in Contents, NEW o, o = SecondWrite(v, oh)
    PROVE  /\ Sound(o) /\ InMode(o) /\ SamePlace(o, oh)
           /\ Serious(o) <=> Serious(oh)
<1> DEFINE a == _clear_softreset(oh)
           c == Unlocked(v, a)
           calm == Accessible(oh) /\ oh.cache = v
           d == [c EXCEPT !.busy = FALSE]
           marks == IF calm THEN c.odd ELSE c.odd \cup {"crossed"}
<1>1. /\ a \in IpBlocks /\ SameCounts(a, oh) /\ SamePlace(a, oh)
      /\ ~a.srst /\ a.odd = oh.odd /\ a.blind = oh.blind /\ a.unlocked = oh.unlocked /\ a.busy = oh.busy
      /\ a.reg = oh.reg
      /\ Reached(a) <=> Reached(oh)
  BY BitFacts DEF _clear_softreset
<1>2. o = [d EXCEPT !.odd = marks]
  BY DEF SecondWrite
<1> HIDE DEF a
<1>3. /\ c \in IpBlocks /\ SameCounts(c, a) /\ SamePlace(c, a)
      /\ c.cache = v /\ ~c.srst /\ c.blind = a.blind
      /\ c.odd \in {a.odd, a.odd \ {"lost"}}
      /\ a.clocks > 0 => c.reg = v
      /\ ~(a.clocks > 0) => c.reg = a.reg
      /\ c.unlocked => a.unlocked \/ ~Reached(a)
  BY <1>1, UnlockedFacts
<1> HIDE DEF c
<1>4. marks \in SUBSET Marks
  BY <1>3 DEF IpBlocks, Marks
<1>5. calm \/ "crossed" \in marks
  OBVIOUS
<1>6. /\ \A w \in Ways : w \in marks <=> w \in c.odd
      /\ \A w \in {"woken", "crossed"} : w \in c.odd => w \in marks
  BY DEF Ways
<1> HIDE DEF marks
<1>7. /\ d \in IpBlocks /\ SameCounts(d, c) /\ SamePlace(d, c)
      /\ d.cache = c.cache /\ d.srst = c.srst /\ d.reg = c.reg
      /\ d.blind = c.blind /\ d.unlocked = c.unlocked
  BY <1>3, BusyFacts
<1> HIDE DEF d
<1>8. /\ SameCounts(o, d) /\ SamePlace(o, d)
      /\ o \in IpBlocks /\ o.cache = d.cache /\ o.srst = d.srst /\ o.reg = d.reg
      /\ o.odd = marks /\ o.blind = d.blind /\ o.unlocked = d.unlocked
  <2>1. o \in IpBlocks
    BY <1>2, <1>4, <1>7 DEF IpBlocks
  <2>2. SameCounts(o, d)
    BY <1>2, <1>7 DEF IpBlocks, SameCounts
  <2>3. SamePlace(o, d)
    BY <1>2, <1>7 DEF IpBlocks, SamePlace
  <2> QED BY <1>2, <1>7, <2>1, <2>2, <2>3 DEF IpBlocks
<1>9. SameCounts(o, oh) /\ SamePlace(o, oh)
  BY <1>1, <1>3, <1>7, <1>8 DEF SameCounts, SamePlace
<1>10. /\ Serious(o) <=> Serious(oh)
       /\ o.cache = v /\ ~o.srst /\ ~o.blind
       /\ o.unlocked => oh.unlocked \/ ~Reached(a)
       /\ oh.clocks > 0 => o.reg = v
  <2>1. \A w \in Ways : w \in o.odd <=> w \in oh.odd
    BY <1>1, <1>3, <1>6, <1>8 DEF Ways
  <2>2. Serious(o) <=> Serious(oh)
    BY <2>1 DEF Serious
  <2>3. oh.clocks > 0 => o.reg = v
    BY <1>1, <1>3, <1>7, <1>8 DEF SameCounts
  <2>4. ~oh.blind
    BY DEF Sound
  <2> QED BY <1>1, <1>3, <1>7, <1>8, <2>2, <2>3, <2>4
<1>11. Counted(o)
  BY <1>9 DEF Sound, Counted, SameCounts, SamePlace, On, One, Has
<1>12. Regular(o)
  BY <1>1, <1>9, <1>10 DEF Sound, Regular, SamePlace, Has, MayReset
<1>13. InMode(o)
  <2>1. o.failed = oh.failed /\ o.state = oh.state /\ o.flags = oh.flags
    BY <1>9 DEF SameCounts, SamePlace
  <2>2. ActiveMode(o) = ActiveMode(oh) /\ Has(o, "SYSC") = Has(oh, "SYSC")
    BY <2>1 DEF ActiveMode, SmartMode, Has
  <2>3. oh.clocks > 0 <=> oh.state = "ENABLED"
    BY DEF Sound, Counted, On
  <2>4. CASE calm
    <3>1. oh.clocks > 0 /\ oh.cache = v
      BY <2>4 DEF Accessible
    <3>2. "woken" \in oh.odd \/ "crossed" \in oh.odd => "woken" \in o.odd \/ "crossed" \in o.odd
      BY <1>1, <1>3, <1>6, <1>8
    <3> HIDE DEF calm
    <3> QED BY <1>10, <2>1, <2>2, <2>3, <3>1, <3>2 DEF InMode
  <2>5. CASE ~calm
    <3>1. "crossed" \in o.odd
      BY <1>5, <1>8, <2>5
    <3> HIDE DEF calm
    <3> QED BY <1>10, <2>1, <2>3, <3>1 DEF InMode
  <2> QED BY <2>4, <2>5
<1> QED BY <1>8, <1>9, <1>10, <1>11, <1>12, <1>13 DEF Sound

\* What a driver that uses a block relies on.
Used(oh) == Serious(oh) \/ (oh.state = "ENABLED" /\ oh.modulemode)

\* _reidle, which ends with an idle of the block.
LEMMA ReidleFacts ==
    ASSUME NEW oh \in IpBlocks, Sound(oh), InMode(oh), Has(oh, "NEEDS_REIDLE"),
           NEW o \in _reidle(oh)
    PROVE  /\ Sound(o) /\ InMode(o)
           /\ o.flags = oh.flags
           /\ Serious(oh) => Serious(o)
<1> DEFINE Reset(p) == IF Resettable(p) THEN SecondWrite(p.cache, FirstWrite(p)) ELSE p
<1>1. PICK p \in _enable(oh) : o \in _idle(Reset(p))
  BY DEF _reidle, Then
<1>2. /\ p \in IpBlocks /\ Sound(p) /\ InMode(p)
      /\ p.flags = oh.flags
      /\ Serious(oh) => Serious(p)
  BY EnableFacts DEF Sound
<1> DEFINE a == FirstWrite(p)
           q == Reset(p)
<1>3. /\ q \in IpBlocks /\ Sound(q) /\ InMode(q) /\ SamePlace(q, p)
      /\ Serious(q) <=> Serious(p)
  <2>1. MayReset(p)
    BY <1>2 DEF MayReset, Has
  <2>2. /\ a \in IpBlocks /\ Sound(a) /\ InMode(a) /\ SamePlace(a, p)
        /\ Serious(a) <=> Serious(p)
    BY <1>2, <2>1, FirstWriteFacts DEF Sound
  <2> HIDE DEF a
  <2>3. MayReset(a)
    BY <1>2, <2>2 DEF MayReset, Has, SamePlace
  <2>4. CASE Resettable(p)
    <3>1. q = SecondWrite(p.cache, a) /\ p.cache \in Contents
      BY <1>2, <2>4 DEF a, IpBlocks
    <3> HIDE DEF q
    <3>2. Sound(q) /\ InMode(q) /\ SamePlace(q, a) /\ (Serious(q) <=> Serious(a))
      BY <2>2, <2>3, <3>1, SecondWriteFacts
    <3> QED BY <2>2, <3>2 DEF Sound, SamePlace
  <2>5. CASE ~Resettable(p)
    BY <1>2, <2>5 DEF SamePlace
  <2> QED BY <2>4, <2>5
<1>4. o \in _idle(q)
  BY <1>1
<1> HIDE DEF q
<1>5. Sound(o) /\ InMode(o) /\ o.flags = q.flags /\ (Serious(q) => Serious(o))
  BY <1>3, <1>4, IdleFacts
<1> QED BY <1>2, <1>3, <1>5 DEF SamePlace

\* Other lines in reset change nothing else.
LEMMA NewLines ==
    ASSUME NEW oh \in IpBlocks, NEW lines \in SUBSET Lines
    PROVE  LET o == [oh EXCEPT !.asserted = lines]
           IN  /\ o \in IpBlocks
               /\ SameCounts(o, oh) /\ SameSysc(o, oh) /\ SamePlace(o, oh)
  BY DEF IpBlocks, SameCounts, SameSysc, SamePlace

\* After a suspend, whether the context was lost or not.
LEMMA RestoreFacts ==
    ASSUME NEW oh \in IpBlocks, Sound(oh), InMode(oh),
           NEW context,
           NEW woken \in {oh, LoseContext(oh)},
           NEW o \in omap_hwmod_restore_context(woken, context)
    PROVE  /\ Sound(o) /\ InMode(o)
           /\ o.flags = oh.flags
           /\ Used(oh) => Used(o)
<1> DEFINE lines == RstLines(woken)
           kept == {line \in lines : context[line]}
           held == [woken EXCEPT !.asserted = kept]
           released == IF kept = lines THEN AssertAll(woken)
                       ELSE _omap4_disable_module(_omap4_enable_module(held))
           on == _omap4_enable_module(released)
           off == _omap4_disable_module(released)
<1>1. o \in IF woken.state = "ENABLED" THEN {on}
            ELSE IF Has(woken, "NEEDS_REIDLE") THEN _reidle(released)
            ELSE {off}
  BY DEF omap_hwmod_restore_context
<1>2. /\ woken \in IpBlocks /\ SameCounts(woken, oh)
      /\ woken.flags = oh.flags /\ woken.state = oh.state /\ woken.skip = oh.skip
      /\ woken.cache = oh.cache /\ woken.srst = oh.srst
      /\ woken.blind = oh.blind /\ woken.unlocked = oh.unlocked /\ woken.busy = oh.busy
      /\ woken.odd = oh.odd \/ woken.odd = oh.odd \cup {"lost"}
      /\ \/ woken.reg = oh.reg /\ woken.odd = oh.odd
         \/ "lost" \in woken.odd
         \/ ~Has(oh, "SYSC")
  <2>1. CASE woken = oh
    BY <2>1 DEF SameCounts
  <2>2. CASE woken = LoseContext(oh)
    <3> DEFINE w == IF Has(oh, "SYSC") THEN oh.odd \cup {"lost"} ELSE oh.odd
               ls == RstLines(oh)
    <3>1. woken = [oh EXCEPT !.reg = "reset", !.modulemode = FALSE, !.asserted = ls, !.odd = w]
      BY <2>2 DEF LoseContext
    <3>2. w \in SUBSET Marks /\ ls \in SUBSET Lines
      BY DEF IpBlocks, RstLines, Marks
    <3>3. /\ w = oh.odd \/ w = oh.odd \cup {"lost"}
          /\ "lost" \in w \/ ~Has(oh, "SYSC")
      OBVIOUS
    <3> HIDE DEF w, ls
    <3>4. woken \in IpBlocks
      BY <3>1, <3>2 DEF IpBlocks, Contents, Modes
    <3>5. /\ woken.flags = oh.flags /\ woken.state = oh.state /\ woken.skip = oh.skip
          /\ woken.cache = oh.cache /\ woken.srst = oh.srst
          /\ woken.blind = oh.blind /\ woken.unlocked = oh.unlocked /\ woken.busy = oh.busy /\ woken.odd = w
      BY <3>1 DEF IpBlocks
    <3>6. SameCounts(woken, oh)
      BY <3>1 DEF IpBlocks, SameCounts
    <3> QED BY <3>3, <3>4, <3>5, <3>6
  <2> QED BY <2>1, <2>2
<1>3. kept \in SUBSET Lines
  BY DEF RstLines
<1> HIDE DEF kept
<1>4. /\ released \in IpBlocks /\ SameCounts(released, woken) /\ SameSysc(released, woken)
      /\ released.flags = woken.flags /\ released.state = woken.state
      /\ released.skip = woken.skip
  <2>1. CASE kept = lines
    BY <1>2, <2>1, AssertFacts DEF SamePlace
  <2>2. CASE kept # lines
    <3>1. /\ held \in IpBlocks
          /\ SameCounts(held, woken) /\ SameSysc(held, woken) /\ SamePlace(held, woken)
      BY <1>2, <1>3, NewLines
    <3> HIDE DEF held
    <3> DEFINE e == _omap4_enable_module(held)
    <3>2. /\ e \in IpBlocks /\ SameCounts(e, held) /\ SameSysc(e, held)
          /\ e.flags = held.flags /\ e.state = held.state /\ e.skip = held.skip
      BY <3>1, ModuleFacts
    <3>3. released = _omap4_disable_module(e)
      BY <2>2
    <3> HIDE DEF e, released
    <3>4. /\ released \in IpBlocks /\ SameCounts(released, e) /\ SameSysc(released, e)
          /\ released.flags = e.flags /\ released.state = e.state /\ released.skip = e.skip
      BY <3>2, <3>3, ModuleFacts
    <3> QED BY <3>1, <3>2, <3>4 DEF SameCounts, SameSysc, SamePlace
  <2> QED BY <2>1, <2>2
<1> HIDE DEF released
<1>5. ASSUME NEW p \in IpBlocks, SameCounts(p, released), SameSysc(p, released),
             p.flags = released.flags, p.state = released.state, p.skip = released.skip,
             p.state = "ENABLED" => p.modulemode
      PROVE  /\ Sound(p) /\ InMode(p) /\ p.flags = oh.flags
             /\ Serious(p) <=> Serious(oh)
             /\ Used(oh) => Used(p)
  <2>1. /\ SameCounts(p, oh) /\ p.flags = oh.flags /\ p.state = oh.state
        /\ p.skip = oh.skip /\ p.cache = oh.cache /\ p.srst = oh.srst
        /\ p.blind = oh.blind /\ p.unlocked = oh.unlocked /\ p.busy = oh.busy
        /\ p.odd = oh.odd \/ p.odd = oh.odd \cup {"lost"}
        /\ \/ p.reg = oh.reg /\ p.odd = oh.odd
           \/ "lost" \in p.odd
           \/ ~Has(oh, "SYSC")
    BY <1>2, <1>4, <1>5 DEF SameCounts, SameSysc
  <2>2. Serious(p) <=> Serious(oh)
    BY <2>1 DEF Serious, Ways
  <2>3. Counted(p)
    BY <2>1 DEF Sound, Counted, SameCounts, On, One, Has
  <2>4. Regular(p) /\ ~p.blind
    BY <1>5, <2>1, <2>2 DEF Sound, Regular, Has
  <2>5. InMode(p)
    BY <2>1, <2>2 DEF InMode, SameCounts, Has, ActiveMode, IdleMode, SmartMode
  <2>6. Used(oh) => Used(p)
    BY <1>5, <2>1, <2>2 DEF Used
  <2> QED BY <1>5, <2>1, <2>2, <2>3, <2>4, <2>5, <2>6 DEF Sound
<1>6. CASE woken.state = "ENABLED"
  <2>1. o = on
    BY <1>1, <1>6
  <2>2. /\ on \in IpBlocks /\ SameCounts(on, released) /\ SameSysc(on, released)
        /\ on.flags = released.flags /\ on.state = released.state /\ on.skip = released.skip
        /\ on.modulemode
    BY <1>4, ModuleFacts
  <2> HIDE DEF on
  <2> QED BY <1>5, <2>1, <2>2
<1>7. CASE woken.state # "ENABLED" /\ Has(woken, "NEEDS_REIDLE")
  <2>1. o \in _reidle(released)
    BY <1>1, <1>7
  <2>2. /\ Sound(released) /\ InMode(released) /\ released.flags = oh.flags
        /\ Serious(released) <=> Serious(oh)
    BY <1>4, <1>5, <1>7 DEF SameCounts, SameSysc
  <2>3. Has(released, "NEEDS_REIDLE") /\ oh.state # "ENABLED"
    BY <1>2, <1>4, <1>7 DEF Has
  <2> QED BY <1>4, <2>1, <2>2, <2>3, ReidleFacts DEF Used
<1>8. CASE woken.state # "ENABLED" /\ ~Has(woken, "NEEDS_REIDLE")
  <2>1. o = off
    BY <1>1, <1>8
  <2>2. /\ off \in IpBlocks /\ SameCounts(off, released) /\ SameSysc(off, released)
        /\ off.flags = released.flags /\ off.state = released.state /\ off.skip = released.skip
    BY <1>4, ModuleFacts
  <2> HIDE DEF off
  <2> QED BY <1>4, <1>5, <1>8, <2>1, <2>2
<1> QED BY <1>6, <1>7, <1>8

\* The soft reset of an enabled block, whether it completes or not.
LEMMA OcpSoftresetFacts ==
    ASSUME NEW oh \in IpBlocks, Sound(oh), Has(oh, "SYSC"),
           oh.state = "ENABLED" \/ Serious(oh),
           NEW o \in _ocp_softreset(oh)
    PROVE  /\ o \in IpBlocks /\ SameCounts(o, oh) /\ SamePlace(o, oh)
           /\ Serious(o) <=> Serious(oh)
           /\ o.unlocked = oh.unlocked /\ o.busy = oh.busy /\ ~o.blind /\ Reached(o)
           /\ o.r \in {OK, EINVAL, ETIMEDOUT}
<1> DEFINE Kept(p) == /\ p \in IpBlocks /\ SameCounts(p, oh) /\ SamePlace(p, oh)
                      /\ Serious(p) <=> Serious(oh)
                      /\ p.unlocked = oh.unlocked /\ p.busy = oh.busy /\ ~p.blind /\ Reached(p)
           a == _set_softreset(oh)
           set == _write_sysconfig(oh.cache, a)
           going == [set EXCEPT !.reg = "resetting"]
           c == _clear_softreset(set)
           done == _write_sysconfig(oh.cache, c)
<1>1. oh.cache \in Contents /\ {OK, EINVAL, ETIMEDOUT} \subseteq Answers
  BY DEF IpBlocks, Answers
<1>2. Kept(oh)
  BY DEF Reached, Sound, Counted, On, SameCounts, SamePlace
<1>3. \/ o = Returns(oh, EINVAL)
      \/ o = Returns(set, ETIMEDOUT)
      \/ o = Returns(going, ETIMEDOUT)
      \/ o = Returns(done, OK)
  BY DEF _ocp_softreset
<1>4. ASSUME NEW p, Kept(p), NEW bit \in BOOLEAN, NEW q, q = [p EXCEPT !.srst = bit]
      PROVE  Kept(q)
  <2>1. /\ q \in IpBlocks /\ SameCounts(q, p) /\ SamePlace(q, p)
        /\ q.odd = p.odd /\ q.blind = p.blind /\ q.unlocked = p.unlocked /\ q.busy = p.busy
        /\ Reached(q) <=> Reached(p)
    BY <1>4, BitFacts
  <2> QED BY <1>4, <2>1 DEF SameCounts, SamePlace, Serious
<1>5. ASSUME NEW p, Kept(p), NEW q, q = _write_sysconfig(oh.cache, p)
      PROVE  Kept(q)
  <2>1. /\ q \in IpBlocks /\ SameCounts(q, p) /\ SamePlace(q, p)
        /\ q.odd \in {p.odd, p.odd \ {"lost"}}
        /\ ~q.blind /\ q.unlocked = p.unlocked /\ q.busy = p.busy
    BY <1>1, <1>5, WriteFacts
  <2>2. Serious(q) <=> Serious(p)
    BY <2>1 DEF Serious, Ways
  <2> QED BY <1>5, <2>1, <2>2 DEF SameCounts, SamePlace, Reached
<1>6. Kept(set)
  <2>1. Kept(a)
    BY <1>2, <1>4 DEF _set_softreset
  <2> HIDE DEF a, Kept
  <2> QED BY <1>5, <2>1
<1> HIDE DEF set
<1>7. Kept(going)
  <2>1. going \in IpBlocks
    BY <1>6 DEF IpBlocks, Contents, Modes
  <2>2. /\ SamePlace(going, set) /\ going.odd = set.odd
        /\ going.blind = set.blind /\ going.unlocked = set.unlocked /\ going.busy = set.busy
    BY <1>6 DEF IpBlocks, SamePlace
  <2>3. SameCounts(going, set)
    BY <1>6 DEF IpBlocks, SameCounts
  <2> QED BY <1>6, <2>1, <2>2, <2>3 DEF SameCounts, SamePlace, Reached, Serious
<1>8. Kept(done)
  <2>1. Kept(c)
    BY <1>4, <1>6 DEF _clear_softreset
  <2> HIDE DEF c, Kept
  <2> QED BY <1>5, <2>1
<1> HIDE DEF going, done
<1>9. ASSUME NEW p, Kept(p), NEW r \in {OK, EINVAL, ETIMEDOUT}, o = Returns(p, r)
      PROVE  Kept(o) /\ o.r \in {OK, EINVAL, ETIMEDOUT}
  <2>0. p \in IpBlocks /\ r \in Answers /\ o = Returns(p, r)
    BY <1>1, <1>9
  <2>1. o \in IpBlocks /\ o.r = r /\ SameCounts(o, p) /\ SameSysc(o, p) /\ SamePlace(o, p)
    BY <2>0, ReturnsFacts
  <2>2. SameCounts(o, oh)
    BY <1>9, <2>1 DEF SameCounts
  <2>3. SamePlace(o, oh) /\ (Serious(o) <=> Serious(p))
    BY <1>9, <2>1 DEF SamePlace, SameSysc, Serious
  <2>4. o.unlocked = p.unlocked /\ o.busy = p.busy /\ o.blind = p.blind /\ o.clocks = p.clocks /\ o.failed = p.failed
    BY <2>1 DEF SameCounts, SameSysc
  <2> QED BY <1>9, <2>1, <2>2, <2>3, <2>4 DEF Reached
<1>10. Kept(o) /\ o.r \in {OK, EINVAL, ETIMEDOUT}
  <2> HIDE DEF Kept
  <2> QED BY <1>2, <1>3, <1>6, <1>7, <1>8, <1>9
<1> QED BY <1>10

\* _reset programs OCP_SYSCONFIG again, whether the reset completed or not.
LEMMA ResetFacts ==
    ASSUME NEW oh \in IpBlocks, Sound(oh), InMode(oh),
           RstLines(oh) # {} \/ oh.state = "ENABLED" \/ Serious(oh),
           NEW o \in _reset(oh)
    PROVE  Sound(o) /\ InMode(o) /\ o.flags = oh.flags
<1>1. ASSUME NEW p \in IpBlocks, Sound(p), InMode(p), p.flags = oh.flags,
             NEW r \in Answers, o = Returns(p, r)
      PROVE  Sound(o) /\ InMode(o) /\ o.flags = oh.flags
  <2>1. o \in IpBlocks /\ SameCounts(o, p) /\ SameSysc(o, p) /\ SamePlace(o, p)
    BY <1>1, ReturnsFacts
  <2> QED BY <1>1, <2>1, SameSound DEF SameSysc, SamePlace, Serious
<1>2. CASE RstLines(oh) # {}
  <2>1. o = Returns(AssertAll(oh), OK) /\ OK \in Answers
    BY <1>2 DEF _reset, Answers
  <2> DEFINE p == AssertAll(oh)
  <2>2. p \in IpBlocks /\ SameCounts(p, oh) /\ SameSysc(p, oh) /\ SamePlace(p, oh)
    BY AssertFacts
  <2> HIDE DEF p
  <2>3. Sound(p) /\ InMode(p) /\ p.flags = oh.flags
    BY <2>2, SameSound DEF SameSysc, SamePlace, Serious
  <2> QED BY <1>1, <2>1, <2>2, <2>3 DEF p
<1>3. CASE RstLines(oh) = {} /\ ~Has(oh, "SYSC")
  <2>1. _ocp_softreset(oh) = {Returns(oh, "ENOENT")}
    BY <1>3 DEF _ocp_softreset
  <2> DEFINE p == Returns(oh, "ENOENT")
  <2>2. /\ p \in IpBlocks /\ p.r = "ENOENT"
        /\ SameCounts(p, oh) /\ SameSysc(p, oh) /\ SamePlace(p, oh)
    BY ReturnsFacts DEF Answers
  <2>3. o = Returns(p, OK) /\ OK \in Answers
    BY <1>3, <2>1, <2>2 DEF _reset, Answers, Has, SamePlace
  <2> HIDE DEF p
  <2>4. Sound(p) /\ InMode(p) /\ p.flags = oh.flags
    BY <2>2, SameSound DEF SameSysc, SamePlace, Serious
  <2> QED BY <1>1, <2>2, <2>3, <2>4
<1>4. CASE RstLines(oh) = {} /\ Has(oh, "SYSC")
  <2>1. PICK p \in _ocp_softreset(oh) :
             o = Returns(IF Has(p, "SYSC") THEN _enable_sysc(_update_sysc_cache(p)) ELSE p,
                         IF p.r = "ENOENT" THEN OK ELSE p.r)
    BY <1>4 DEF _reset
  <2>2. /\ p \in IpBlocks /\ SameCounts(p, oh) /\ SamePlace(p, oh)
        /\ Serious(p) <=> Serious(oh)
        /\ p.unlocked = oh.unlocked /\ p.busy = oh.busy /\ ~p.blind /\ Reached(p)
        /\ p.r \in {OK, EINVAL, ETIMEDOUT}
    BY <1>4, OcpSoftresetFacts
  <2> DEFINE c == _update_sysc_cache(p)
             e == _enable_sysc(c)
  <2>3. Has(p, "SYSC") /\ p.r \in Answers /\ p.r # "ENOENT"
    BY <1>4, <2>2 DEF Has, SamePlace, Answers, OK, EINVAL, ETIMEDOUT
  <2>4. o = Returns(e, p.r)
    BY <2>1, <2>3
  <2>5. /\ c \in IpBlocks /\ SameCounts(c, p) /\ SamePlace(c, p)
        /\ c.odd = p.odd /\ ~c.blind /\ c.unlocked = p.unlocked /\ (c.srst => c.busy)
    BY <2>2, CacheFacts
  <2> HIDE DEF c
  <2>6. Reached(c) /\ (Serious(c) <=> Serious(oh)) /\ Has(c, "SYSC")
    BY <2>2, <2>3, <2>5 DEF Reached, SameCounts, SamePlace, Serious, Has
  <2>7. /\ e \in IpBlocks /\ SameCounts(e, c) /\ SamePlace(e, c)
        /\ Serious(e) <=> Serious(c)
        /\ c.clocks > 0 => e.cache = ActiveMode(c) /\ (e.srst \/ e.reg = e.cache)
        /\ ~e.blind /\ e.unlocked = c.unlocked
        /\ e.busy = c.busy /\ e.srst = c.srst
    BY <2>5, <2>6, EnableSyscFacts
  <2> HIDE DEF e
  <2>8. SameCounts(e, oh) /\ SamePlace(e, oh) /\ (Serious(e) <=> Serious(oh))
    BY <2>2, <2>5, <2>6, <2>7 DEF SameCounts, SamePlace
  <2>9. Counted(e)
    BY <2>8 DEF Sound, Counted, SameCounts, SamePlace, On, One, Has
  <2>10. Regular(e)
    BY <2>2, <2>5, <2>7, <2>8 DEF Sound, Regular, SamePlace, Has
  <2>11. InMode(e)
    <3>1. CASE Serious(e)
      BY <3>1 DEF InMode
    <3>2. CASE ~Serious(e)
      <4>1. oh.state = "ENABLED" /\ oh.clocks > 0
        BY <1>4, <2>8, <3>2 DEF Sound, Counted, On
      <4>2. c.clocks > 0 /\ ActiveMode(c) = ActiveMode(e)
        BY <2>2, <2>5, <2>7, <4>1 DEF SameCounts, SamePlace, ActiveMode, SmartMode, Has
      <4> QED BY <2>7, <2>8, <4>1, <4>2 DEF InMode, SamePlace
    <3> QED BY <3>1, <3>2
  <2>12. Sound(e) /\ e.flags = oh.flags
    BY <2>7, <2>8, <2>9, <2>10 DEF Sound, SamePlace
  <2> QED BY <1>1, <2>3, <2>4, <2>7, <2>11, <2>12
<1> QED BY <1>2, <1>3, <1>4

\* The enable and the reset of the setup.
LEMMA SetupResetFacts ==
    ASSUME NEW oh \in IpBlocks, Sound(oh), InMode(oh), NEW o \in _setup_reset(oh)
    PROVE  Sound(o) /\ InMode(o) /\ o.flags = oh.flags
<1>1. ASSUME NEW p \in IpBlocks, Sound(p), InMode(p), p.flags = oh.flags,
             NEW r \in Answers, NEW q, q = Returns(p, r)
      PROVE  q \in IpBlocks /\ Sound(q) /\ InMode(q) /\ q.flags = oh.flags /\ q.r = r
  <2>1. q \in IpBlocks /\ q.r = r /\ SameCounts(q, p) /\ SameSysc(q, p) /\ SamePlace(q, p)
    BY <1>1, ReturnsFacts
  <2> QED BY <1>1, <2>1, SameSound DEF SameSysc, SamePlace, Serious
<1>2. OK \in Answers /\ EINVAL \in Answers /\ EPERM \in Answers
  BY DEF Answers
<1>3. CASE Has(oh, "EXT_OPT_MAIN_CLK")
  <2>1. o = Returns(oh, EPERM)
    BY <1>3 DEF _setup_reset
  <2> QED BY <1>1, <1>2, <2>1
<1>4. CASE ~Has(oh, "EXT_OPT_MAIN_CLK")
  <2>1. PICK p \in IF RstLines(oh) = {} THEN _enable(oh) ELSE {Returns(oh, OK)} :
             o \in IF p.r # OK THEN {Returns(p, EINVAL)}
                   ELSE IF Has(p, "INIT_NO_RESET") THEN {p} ELSE _reset(p)
    BY <1>4 DEF _setup_reset, Then
  <2>2. /\ p \in IpBlocks /\ Sound(p) /\ InMode(p) /\ p.flags = oh.flags
        /\ p.r = OK => RstLines(p) # {} \/ p.state = "ENABLED" \/ Serious(p)
    <3>1. CASE RstLines(oh) = {}
      BY <2>1, <3>1, EnableFacts DEF Sound
    <3>2. CASE RstLines(oh) # {}
      <4>1. p = Returns(oh, OK)
        BY <2>1, <3>2
      <4> QED BY <1>1, <1>2, <3>2, <4>1 DEF RstLines, Has
    <3> QED BY <3>1, <3>2
  <2>3. CASE p.r # OK
    <3>1. o = Returns(p, EINVAL)
      BY <2>1, <2>3
    <3>2. p \in IpBlocks /\ Sound(p) /\ InMode(p) /\ p.flags = oh.flags
      BY <2>2
    <3>3. EINVAL \in Answers
      BY <1>2
    <3> QED BY <1>1, <3>1, <3>2, <3>3
  <2>4. CASE p.r = OK
    <3>1. o = p \/ o \in _reset(p)
      BY <2>1, <2>4
    <3>2. CASE o = p
      BY <2>2, <3>2
    <3>3. CASE o \in _reset(p)
      BY <2>2, <2>4, <3>3, ResetFacts
    <3> QED BY <3>1, <3>2, <3>3
  <2> QED BY <2>3, <2>4
<1> QED BY <1>3, <1>4

\* The setup of a block: enable, reset, and its state after that.
LEMMA SetupBlockFacts ==
    ASSUME NEW oh \in IpBlocks, Sound(oh), InMode(oh), NEW o \in SetupBlock(oh)
    PROVE  Sound(o) /\ InMode(o)
<1>1. PICK p \in _setup_reset(oh) : o \in IF p.r = OK THEN _setup_postsetup(p) ELSE {p}
  BY DEF SetupBlock, Then
<1>2. p \in IpBlocks /\ Sound(p) /\ InMode(p)
  BY SetupResetFacts DEF Sound
<1>3. \/ o = p \/ o \in _shutdown(p) \/ o = [p EXCEPT !.skip = TRUE] \/ o \in _idle(p)
  BY <1>1 DEF _setup_postsetup
<1>4. CASE o = [p EXCEPT !.skip = TRUE]
  <2>1. o \in IpBlocks
    BY <1>2, <1>4 DEF IpBlocks
  <2>2. /\ SameSysc(o, p) /\ o.flags = p.flags /\ o.state = p.state
        /\ o.modulemode = p.modulemode
    BY <1>2, <1>4 DEF IpBlocks, SameSysc
  <2>3. SameCounts(o, p)
    BY <1>2, <1>4 DEF IpBlocks, SameCounts
  <2> QED BY <1>2, <2>1, <2>2, <2>3, SameSound DEF SameSysc, Serious
<1> QED BY <1>2, <1>3, <1>4, ShutdownFacts, IdleFacts

\* What the setup of a block does to its parent.
LEMMA ParentFacts ==
    ASSUME NEW oh \in IpBlocks, Sound(oh), InMode(oh),
           NEW o \in Then(_enable(oh), LeaveParent)
    PROVE  Sound(o) /\ InMode(o)
<1>1. PICK p \in _enable(oh) : o \in LeaveParent(p)
  BY DEF Then
<1>2. p \in IpBlocks /\ Sound(p) /\ InMode(p)
  BY EnableFacts DEF Sound
<1>3. p.postsetup \in {"IDLE", "ENABLED", "DISABLED"}
  BY <1>2 DEF IpBlocks
<1>4. o = p \/ o \in _shutdown(p) \/ o \in _idle(p)
  BY <1>1, <1>3 DEF LeaveParent
<1> QED BY <1>2, <1>4, ShutdownFacts, IdleFacts

AllSound(blocks) ==
    /\ blocks \in [Blocks -> IpBlocks]
    /\ \A b \in Blocks : Sound(blocks[b]) /\ InMode(blocks[b])

\* The setup of a block in the company of the others.
LEMMA SetupFacts ==
    ASSUME NEW blocks, AllSound(blocks), NEW b \in Blocks, NEW after \in _setup(blocks, b)
    PROVE  AllSound(after)
<1>1. CASE after = blocks
  BY <1>1
<1>2. ASSUME NEW oh \in SetupBlock(blocks[b]), after = [blocks EXCEPT ![b] = oh]
      PROVE  AllSound(after)
  <2>1. Sound(oh) /\ InMode(oh)
    BY <1>2, SetupBlockFacts DEF AllSound
  <2> QED BY <1>2, <2>1 DEF AllSound, Sound
<1>3. ASSUME b \in DOMAIN ParentOf,
             NEW x \in SetupBlock(blocks[b]), NEW y \in Then(_enable(blocks[ParentOf[b]]), LeaveParent),
             after = [blocks EXCEPT ![b] = x, ![ParentOf[b]] = y]
      PROVE  AllSound(after)
  <2>1. ParentOf[b] \in Blocks /\ ParentOf[b] # b
    BY <1>3, BlocksAreFamilies
  <2>2. Sound(x) /\ InMode(x)
    BY <1>3, SetupBlockFacts DEF AllSound
  <2>3. Sound(y) /\ InMode(y)
    BY <1>3, <2>1, ParentFacts DEF AllSound
  <2> QED BY <1>3, <2>1, <2>2, <2>3 DEF AllSound, Sound
<1>4. \/ after = blocks
      \/ \E oh \in SetupBlock(blocks[b]) : after = [blocks EXCEPT ![b] = oh]
      \/ /\ b \in DOMAIN ParentOf
         /\ \E o \in SetupBlock(blocks[b]) \X Then(_enable(blocks[ParentOf[b]]), LeaveParent) :
                after = [blocks EXCEPT ![b] = o[1], ![ParentOf[b]] = o[2]]
  BY DEF _setup
<1>5. CASE /\ b \in DOMAIN ParentOf
           /\ \E o \in SetupBlock(blocks[b]) \X Then(_enable(blocks[ParentOf[b]]), LeaveParent) :
                  after = [blocks EXCEPT ![b] = o[1], ![ParentOf[b]] = o[2]]
  <2>1. PICK o \in SetupBlock(blocks[b]) \X Then(_enable(blocks[ParentOf[b]]), LeaveParent) :
             after = [blocks EXCEPT ![b] = o[1], ![ParentOf[b]] = o[2]]
    BY <1>5
  <2>2. o[1] \in SetupBlock(blocks[b]) /\ o[2] \in Then(_enable(blocks[ParentOf[b]]), LeaveParent)
    OBVIOUS
  <2> QED BY <1>3, <1>5, <2>1, <2>2
<1> QED BY <1>1, <1>2, <1>4, <1>5

-----------------------------------------------------------------------------
(* All blocks.                                                             *)

TypeOK ==
    /\ hw \in [Blocks -> IpBlocks]
    /\ list \in Orders
    /\ phase \in {"early", "all", "run"}
    /\ next \in Nat
    /\ phase # "run" => next \in 1 .. Len(list)
    /\ inUse \subseteq Driven
    /\ resets \in [Blocks -> [Resetters -> Contents]]
    /\ stage \in [Blocks -> Stages]

UsedInv ==
    /\ phase # "run" => inUse = {}
    /\ \A b \in inUse : Used(hw[b])

(* A softreset is under way only in the notifier, on a block it reidles, or *)
(* in a driver that uses its block.                                        *)
Pending(b) ==
    /\ stage[b] # "rest" \/ resets[b]["notifier"] # "none" =>
           Has(hw[b], "NEEDS_REIDLE")
    /\ resets[b]["driver"] # "none" => b \in inUse
AtRest == \A b \in Blocks :
    stage[b] = "rest" /\ \A caller \in Resetters : resets[b][caller] = "none"
PendingInv ==
    /\ phase # "run" => AtRest
    /\ \A b \in Blocks : Pending(b)

Inv == TypeOK /\ AllSound(hw) /\ UsedInv /\ PendingInv

\* A fresh block.
LEMMA FreshFacts ==
    ASSUME NEW flags \in Flags
    PROVE  Fresh(flags) \in IpBlocks /\ Sound(Fresh(flags)) /\ InMode(Fresh(flags))
<1> DEFINE oh == Fresh(flags)
           lines == IF "LINES" \in flags THEN Lines ELSE {}
<1>1. oh = [flags |-> flags, state |-> "REGISTERED", postsetup |-> "ENABLED",
            skip |-> FALSE, loaded |-> FALSE, cache |-> "none", srst |-> FALSE,
            reg |-> "reset", asserted |-> lines,
            clocks |-> 0, clkdm |-> 0, deny |-> 0, dep |-> 0, poll |-> 0,
            modulemode |-> FALSE, mux |-> "none", r |-> OK,
            failed |-> 0, noauto |-> 0, blind |-> FALSE, unlocked |-> FALSE,
            busy |-> FALSE, odd |-> {}]
  BY DEF Fresh
<1>2. lines \in SUBSET Lines
  OBVIOUS
<1> HIDE DEF lines, oh
<1>3. oh \in IpBlocks
  BY <1>1, <1>2 DEF IpBlocks, States, Contents, Modes, Answers
<1>4. /\ oh.state = "REGISTERED" /\ oh.blind = FALSE /\ oh.unlocked = FALSE
      /\ oh.srst = FALSE
      /\ oh.clocks = 0 /\ oh.clkdm = 0 /\ oh.dep = 0 /\ oh.poll = 0 /\ oh.deny = 0
      /\ oh.failed = 0 /\ oh.noauto = 0
  BY <1>1
<1>5. Counted(oh)
  <2>1. On(oh) = 0 /\ One(oh, "BLOCK_WFI") * 0 = 0 /\ One(oh, "CLKDM_NOAUTO") * 0 = 0
    BY <1>4, OneFacts DEF On
  <2> QED BY <1>4, <2>1 DEF Counted
<1>6. Regular(oh) /\ InMode(oh)
  BY <1>4 DEF Regular, InMode
<1> QED BY <1>3, <1>4, <1>5, <1>6 DEF Sound, oh

\* The blocks before boot.
LEMMA InitInv == Init => Inv
<1> SUFFICES ASSUME Init PROVE Inv
  OBVIOUS
<1>1. PICK flags \in Choices : hw = [b \in Blocks |-> Fresh(flags[b])]
  BY DEF Init
<1>2. ASSUME NEW b \in Blocks PROVE flags[b] \in Flags
  <2>1. flags[b] \in {flags[c] : c \in Blocks}
    OBVIOUS
  <2> QED BY <2>1 DEF Flags
<1>3. \A b \in Blocks : hw[b] \in IpBlocks /\ Sound(hw[b]) /\ InMode(hw[b])
  BY <1>1, <1>2, FreshFacts
<1>4. AllSound(hw)
  BY <1>1, <1>3 DEF AllSound
<1>5. AtRest
  BY DEF Init, AtRest
<1>6. TypeOK /\ UsedInv
  <2>1. list \in Seq(Blocks) /\ list # <<>>
    BY OrdersAreLists DEF Init
  <2>2. 1 \in 1 .. Len(list)
    BY <2>1
  <2>3. resets \in [Blocks -> [Resetters -> Contents]] /\ stage \in [Blocks -> Stages]
    BY DEF Init, Contents, Stages
  <2> QED BY <1>4, <2>2, <2>3 DEF TypeOK, UsedInv, Init, AllSound
<1>7. PendingInv
  BY <1>5 DEF PendingInv, Pending, AtRest, Resetters
<1> QED BY <1>4, <1>6, <1>7 DEF Inv

\* The return value is nothing that a block keeps.
LEMMA QuietFacts ==
    ASSUME NEW oh \in IpBlocks, NEW o, o = Returns(oh, OK)
    PROVE  /\ o \in IpBlocks
           /\ Sound(oh) => Sound(o)
           /\ InMode(oh) => InMode(o)
           /\ Used(oh) => Used(o)
           /\ o.flags = oh.flags
<1>1. o \in IpBlocks /\ SameCounts(o, oh) /\ SameSysc(o, oh) /\ SamePlace(o, oh)
  BY ReturnsFacts DEF Answers
<1> QED BY <1>1, SameSound DEF SameSysc, SamePlace, Serious, Used

\* Likewise, for all blocks.
LEMMA AllQuiet ==
    ASSUME NEW blocks, AllSound(blocks) PROVE AllSound(Quiet(blocks))
  BY QuietFacts DEF AllSound, Quiet

\* Initialisation of a block.
LEMMA InitBlockFacts ==
    ASSUME NEW oh \in IpBlocks, Sound(oh), InMode(oh), NEW found, NEW o, o = _init(oh, found)
    PROVE  o \in IpBlocks /\ Sound(o) /\ InMode(o)
<1>1. ASSUME NEW p \in IpBlocks, Sound(p), InMode(p), NEW r \in Answers, o = Returns(p, r)
      PROVE  o \in IpBlocks /\ Sound(o) /\ InMode(o)
  <2>1. o \in IpBlocks /\ SameCounts(o, p) /\ SameSysc(o, p) /\ SamePlace(o, p)
    BY <1>1, ReturnsFacts
  <2> QED BY <1>1, <2>1, SameSound DEF SameSysc, SamePlace, Serious
<1>2. OK \in Answers /\ EINVAL \in Answers
  BY DEF Answers
<1>3. CASE ~Registered(oh) \/ found # "all"
  <2>1. o = Returns(oh, OK) \/ o = Returns(oh, EINVAL)
    BY <1>3 DEF _init
  <2> QED BY <1>1, <1>2, <2>1
<1>4. CASE Registered(oh) /\ found = "all"
  <2> DEFINE p == Initialized(oh)
  <2>1. o = Returns(p, OK)
    BY <1>4 DEF _init
  <2>2. /\ p \in IpBlocks /\ p.flags = oh.flags /\ p.state = "INITIALIZED" /\ SameSysc(p, oh)
        /\ oh.state = "REGISTERED"
    BY <1>4 DEF Initialized, Registered, IpBlocks, States, SameSysc
  <2>3. SameCounts(p, oh)
    BY DEF Initialized, IpBlocks, SameCounts
  <2> HIDE DEF p
  <2>4. Counted(p)
    BY <2>2, <2>3 DEF Sound, Counted, SameCounts, On, One, Has
  <2>5. Regular(p) /\ InMode(p) /\ ~p.blind
    BY <2>2, <2>3 DEF Sound, Regular, InMode, SameSysc, Serious, Has
  <2> QED BY <1>1, <1>2, <2>1, <2>2, <2>4, <2>5 DEF Sound
<1> QED BY <1>3, <1>4

\* Boot.
LEMMA BootSteps ==
    ASSUME Inv,
           \/ \E b \in Blocks, s \in {"IDLE", "ENABLED", "DISABLED"} :
                  omap_hwmod_set_postsetup_state(b, s)
           \/ \E b \in Blocks : omap_hwmod_setup_one(b)
           \/ setup_all_init \/ setup_all_setup
    PROVE  Inv'
<1>1. phase # "run" /\ inUse = {}
  BY DEF Inv, UsedInv, omap_hwmod_set_postsetup_state, omap_hwmod_setup_one,
         setup_all_init, setup_all_setup
<1>0. UNCHANGED <<resets, stage>> /\ PendingInv'
  <2>1. UNCHANGED <<resets, stage>>
    BY DEF omap_hwmod_set_postsetup_state, omap_hwmod_setup_one,
           setup_all_init, setup_all_setup
  <2>2. AtRest
    BY <1>1 DEF Inv, PendingInv
  <2> QED BY <2>1, <2>2 DEF PendingInv, Pending, AtRest, Resetters
<1>2. ASSUME NEW b \in Blocks, NEW s \in {"IDLE", "ENABLED", "DISABLED"},
             omap_hwmod_set_postsetup_state(b, s)
      PROVE  Inv'
  <2> DEFINE o == [hw[b] EXCEPT !.postsetup = s]
  <2>1. hw' = [hw EXCEPT ![b] = o]
    BY <1>2 DEF omap_hwmod_set_postsetup_state
  <2>2. hw[b] \in IpBlocks /\ Sound(hw[b]) /\ InMode(hw[b])
    BY DEF Inv, AllSound
  <2>3. o \in IpBlocks
    BY <2>2 DEF IpBlocks
  <2>4. SameSysc(o, hw[b]) /\ SamePlace(o, hw[b])
    BY <2>2 DEF IpBlocks, SameSysc, SamePlace
  <2>5. SameCounts(o, hw[b])
    BY <2>2 DEF IpBlocks, SameCounts
  <2> HIDE DEF o
  <2>6. Sound(o) /\ InMode(o)
    BY <2>2, <2>3, <2>4, <2>5, SameSound DEF SameSysc, SamePlace, Serious
  <2>7. AllSound(hw')
    BY <2>1, <2>3, <2>6 DEF Inv, AllSound
  <2> QED BY <1>0, <1>1, <1>2, <2>7
          DEF Inv, AllSound, TypeOK, UsedInv, omap_hwmod_set_postsetup_state
<1>3. ASSUME NEW b \in Blocks, omap_hwmod_setup_one(b) PROVE Inv'
  <2>1. PICK found \in Finds(hw[b]) :
             \E after \in _setup([hw EXCEPT ![b] = _init(@, found)], b) : hw' = Quiet(after)
    BY <1>3 DEF omap_hwmod_setup_one
  <2> DEFINE o == _init(hw[b], found)
             blocks == [hw EXCEPT ![b] = o]
  <2>2. PICK after \in _setup(blocks, b) : hw' = Quiet(after)
    BY <2>1
  <2>3. o \in IpBlocks /\ Sound(o) /\ InMode(o)
    BY InitBlockFacts DEF Inv, AllSound
  <2> HIDE DEF o
  <2>4. AllSound(blocks)
    BY <2>3 DEF Inv, AllSound
  <2> HIDE DEF blocks
  <2>5. AllSound(hw')
    BY <2>2, <2>4, SetupFacts, AllQuiet
  <2> QED BY <1>0, <1>1, <1>3, <2>5
          DEF Inv, AllSound, TypeOK, UsedInv, omap_hwmod_setup_one
<1>4. CASE setup_all_init
  <2>1. \A b \in Blocks : \E found :
            hw'[b] = hw[b] \/ hw'[b] = Returns(_init(hw[b], found), OK)
    BY <1>4 DEF setup_all_init
  <2>2. hw' \in [Blocks -> IpBlocks] /\ \A b \in Blocks : Sound(hw'[b]) /\ InMode(hw'[b])
    <3>1. ASSUME NEW b \in Blocks
          PROVE  hw'[b] \in IpBlocks /\ Sound(hw'[b]) /\ InMode(hw'[b])
      <4>1. hw[b] \in IpBlocks /\ Sound(hw[b]) /\ InMode(hw[b])
        BY DEF Inv, AllSound
      <4>2. CASE hw'[b] = hw[b]
        BY <4>1, <4>2
      <4>3. ASSUME NEW found, hw'[b] = Returns(_init(hw[b], found), OK)
            PROVE  hw'[b] \in IpBlocks /\ Sound(hw'[b]) /\ InMode(hw'[b])
        BY <4>1, <4>3, InitBlockFacts, QuietFacts
      <4> QED BY <2>1, <4>2, <4>3
    <3>2. \E f : hw' = [b \in Blocks |-> f[b]]
      BY <1>4 DEF setup_all_init
    <3> QED BY <3>1, <3>2
  <2>3. AllSound(hw')
    BY <2>2 DEF AllSound
  <2> QED BY <1>0, <1>1, <1>4, <2>3
          DEF Inv, AllSound, TypeOK, UsedInv, setup_all_init
<1>5. CASE setup_all_setup
  <2>1. list \in Seq(Blocks) /\ next \in 1 .. Len(list)
    BY <1>1, OrdersAreLists DEF Inv, TypeOK
  <2>2. list[next] \in Blocks
    BY <2>1
  <2>3. PICK after \in _setup(hw, list[next]) : hw' = Quiet(after)
    BY <1>5 DEF setup_all_setup
  <2>4. AllSound(hw')
    BY <2>2, <2>3, SetupFacts, AllQuiet DEF Inv
  <2>5. TypeOK' /\ UsedInv'
    BY <1>0, <1>1, <1>5, <2>1, <2>4
       DEF Inv, AllSound, TypeOK, UsedInv, setup_all_setup
  <2> QED BY <1>0, <2>4, <2>5 DEF Inv
<1> QED BY <1>2, <1>3, <1>4, <1>5

\* A step that leaves one block sound, and usable if it may be used, and starts
\* no softreset of its driver or the notifier that it may not.
LEMMA StepFacts ==
    ASSUME Inv, NEW b \in Blocks, phase = "run", UNCHANGED <<list, phase, next>>,
           NEW oh \in IpBlocks, Sound(oh), InMode(oh), oh.flags = hw[b].flags,
           hw' = [hw EXCEPT ![b] = oh],
           inUse' \subseteq Driven, \A c \in inUse' \ {b} : c \in inUse,
           b \in inUse' => Used(oh),
           resets' \in [Blocks -> [Resetters -> Contents]],
           stage' \in [Blocks -> Stages],
           \A c \in Blocks : Pending(c)'
    PROVE  Inv'
<1>1. AllSound(hw')
  BY DEF Inv, AllSound
<1>2. \A c \in inUse' : Used(hw'[c])
  BY BlocksAreFamilies DEF Inv, AllSound, TypeOK, UsedInv
<1>3. TypeOK' /\ UsedInv'
  BY <1>1, <1>2 DEF Inv, AllSound, TypeOK, UsedInv
<1> QED BY <1>1, <1>3 DEF Inv, PendingInv

\* A call of a driver.
LEMMA CallFacts ==
    ASSUME Inv, NEW b \in Driven, phase = "run",
           UNCHANGED <<list, phase, next, resets, stage>>,
           NEW oh \in IpBlocks, Sound(oh), InMode(oh), oh.flags = hw[b].flags,
           hw' = [hw EXCEPT ![b] = Returns(oh, OK)],
           inUse' \in {inUse \cup {b}, inUse \ {b}},
           b \in inUse' => Used(oh),
           b \in inUse' \/ Free(b)
    PROVE  Inv'
<1> DEFINE o == Returns(oh, OK)
<1>1. /\ o \in IpBlocks /\ Sound(o) /\ InMode(o) /\ (Used(oh) => Used(o))
      /\ o.flags = hw[b].flags
  BY QuietFacts
<1>2. b \in Blocks
  BY BlocksAreFamilies
<1> HIDE DEF o
<1>3. hw' = [hw EXCEPT ![b] = o]
  BY DEF o
<1>4. \A c \in Blocks : hw'[c].flags = hw[c].flags
  BY <1>1, <1>2, <1>3 DEF Inv, AllSound
<1>5. ASSUME NEW c \in Blocks PROVE Pending(c)'
  <2>1. Pending(c) /\ Has(hw'[c], "NEEDS_REIDLE") = Has(hw[c], "NEEDS_REIDLE")
    BY <1>4 DEF Inv, PendingInv, Has
  <2>2. resets[c]["driver"] # "none" => c \in inUse'
    BY <2>1 DEF Pending, Free
  <2> QED BY <2>1, <2>2 DEF Pending
<1>6. /\ resets' \in [Blocks -> [Resetters -> Contents]] /\ stage' \in [Blocks -> Stages]
      /\ inUse' \subseteq Driven /\ \A c \in inUse' \ {b} : c \in inUse
  BY DEF Inv, TypeOK
<1> QED BY <1>1, <1>2, <1>3, <1>5, <1>6, StepFacts

\* The calls of a driver.
LEMMA EnableStep == ASSUME Inv, NEW b \in Driven, omap_hwmod_enable(b) PROVE Inv'
<1> DEFINE e == Enabling(hw[b])
<1>1. PICK oh \in _enable(e) :
           /\ hw' = [hw EXCEPT ![b] = Returns(oh, OK)]
           /\ inUse' = IF oh.r = OK THEN inUse \cup {b} ELSE inUse \ {b}
  BY DEF omap_hwmod_enable, Call
<1>2. phase = "run" /\ UNCHANGED <<list, phase, next, resets, stage>>
  BY DEF omap_hwmod_enable, Call
<1>3. hw[b] \in IpBlocks /\ Sound(hw[b]) /\ InMode(hw[b])
  BY BlocksAreFamilies DEF Inv, AllSound
<1>4. e \in IpBlocks /\ Sound(e) /\ e.flags = hw[b].flags /\ (InMode(e) \/ (e.state \in Off /\ ~e.skip))
  <2>1. CASE e = hw[b]
    BY <1>3, <2>1
  <2>2. CASE hw[b].state \in Off /\ ~hw[b].skip /\ e = [hw[b] EXCEPT !.odd = hw[b].odd \cap {"lost"}]
    <3>1. hw[b].odd \cap {"lost"} \in SUBSET Marks
      BY DEF Marks
    <3>2. e \in IpBlocks
      BY <1>3, <2>2, <3>1 DEF IpBlocks
    <3>3. SamePlace(e, hw[b]) /\ e.odd = hw[b].odd \cap {"lost"} /\ e.blind = hw[b].blind
          /\ e.unlocked = hw[b].unlocked /\ e.busy = hw[b].busy /\ e.srst = hw[b].srst
      BY <1>3, <2>2 DEF IpBlocks, SamePlace
    <3>4. SameCounts(e, hw[b])
      BY <1>3, <2>2 DEF IpBlocks, SameCounts
    <3>5. Counted(e)
      BY <1>3, <3>3, <3>4 DEF Sound, Counted, SameCounts, SamePlace, On, One, Has
    <3>6. Regular(e)
      BY <1>3, <2>2, <3>3 DEF Sound, Regular, SamePlace, Off, Has
    <3> QED BY <1>3, <2>2, <3>2, <3>3, <3>5, <3>6 DEF Sound, SamePlace
  <2> QED BY <2>1, <2>2 DEF Enabling, Off
<1> HIDE DEF e
<1>5. /\ Sound(oh) /\ InMode(oh) /\ oh.flags = hw[b].flags
      /\ oh.r = OK => oh.state = "ENABLED" \/ Serious(oh)
  BY <1>1, <1>4, EnableFacts
<1>6. oh.r = OK => Used(oh)
  BY <1>5 DEF Used, Sound, Regular
<1>7. b \in inUse' => Used(oh)
  BY <1>1, <1>6
<1>8. inUse' \in {inUse \cup {b}, inUse \ {b}}
  BY <1>1
<1>9. Free(b)
  BY BlocksAreFamilies DEF omap_hwmod_enable, Inv, PendingInv, Pending, Free
<1> QED BY <1>1, <1>2, <1>5, <1>7, <1>8, <1>9, CallFacts DEF Sound

LEMMA IdleStep == ASSUME Inv, NEW b \in Driven, omap_hwmod_idle(b) PROVE Inv'
<1>1. PICK oh \in _idle(hw[b]) :
           hw' = [hw EXCEPT ![b] = Returns(oh, OK)] /\ inUse' = inUse \ {b}
  BY DEF omap_hwmod_idle, Call
<1>2. phase = "run" /\ UNCHANGED <<list, phase, next, resets, stage>>
  BY DEF omap_hwmod_idle, Call
<1>3. hw[b] \in IpBlocks /\ Sound(hw[b]) /\ InMode(hw[b])
  BY BlocksAreFamilies DEF Inv, AllSound
<1>4. Sound(oh) /\ InMode(oh) /\ oh.flags = hw[b].flags
  BY <1>1, <1>3, IdleFacts
<1>5. Free(b)
  BY DEF omap_hwmod_idle
<1> QED BY <1>1, <1>2, <1>4, <1>5, CallFacts DEF Sound

LEMMA ShutdownStep == ASSUME Inv, NEW b \in Driven, omap_hwmod_shutdown(b) PROVE Inv'
<1>1. PICK oh \in _shutdown(hw[b]) :
           /\ hw' = [hw EXCEPT ![b] = Returns(oh, OK)]
           /\ inUse' = IF b \in inUse /\ oh.r # OK THEN inUse \cup {b} ELSE inUse \ {b}
  BY DEF omap_hwmod_shutdown, Call
<1>2. phase = "run" /\ UNCHANGED <<list, phase, next, resets, stage>>
  BY DEF omap_hwmod_shutdown, Call
<1>3. hw[b] \in IpBlocks /\ Sound(hw[b]) /\ InMode(hw[b]) /\ (b \in inUse => Used(hw[b]))
  BY BlocksAreFamilies DEF Inv, AllSound, UsedInv
<1>4. /\ Sound(oh) /\ InMode(oh) /\ oh.flags = hw[b].flags
      /\ Serious(hw[b]) => Serious(oh)
      /\ hw[b].state = "ENABLED" /\ oh.r # OK =>
             oh.state = "ENABLED" /\ oh.modulemode = hw[b].modulemode /\ oh.skip = hw[b].skip
  BY <1>1, <1>3, ShutdownFacts
<1>5. b \in inUse' => Used(oh)
  BY <1>1, <1>3, <1>4 DEF Used
<1>6. inUse' \in {inUse \cup {b}, inUse \ {b}}
  BY <1>1
<1>7. Free(b)
  BY DEF omap_hwmod_shutdown
<1> QED BY <1>1, <1>2, <1>4, <1>5, <1>6, <1>7, CallFacts DEF Sound

\* Another wakeup mode, whatever the block is doing.
LEMMA WokenFacts ==
    ASSUME NEW oh \in IpBlocks, Sound(oh), InMode(oh),
           NEW mode \in {"smart", "smart_wkup"}, NEW o, o = Woken(oh, mode)
    PROVE  Sound(o) /\ InMode(o) /\ o.flags = oh.flags /\ (Used(oh) => Used(o))
<1>1. CASE ~(Has(oh, "SYSC") /\ Has(oh, "WAKEUP"))
  BY <1>1 DEF Woken
<1>2. CASE Has(oh, "SYSC") /\ Has(oh, "WAKEUP")
  <2> DEFINE a == _write_sysconfig(mode, oh)
             marks == a.odd \cup {"woken"}
             c == [a EXCEPT !.blind = oh.blind]
  <2>1. o = [c EXCEPT !.odd = marks]
    BY <1>2 DEF Woken, Odd
  <2>2. mode \in Contents /\ ~oh.blind /\ oh.blind \in BOOLEAN
    BY DEF Contents, Modes, Sound, IpBlocks
  <2>3. /\ a \in IpBlocks /\ SameCounts(a, oh) /\ SamePlace(a, oh)
        /\ a.cache = mode /\ a.srst = oh.srst /\ a.unlocked = oh.unlocked /\ a.busy = oh.busy
        /\ a.odd \in {oh.odd, oh.odd \ {"lost"}}
        /\ oh.clocks > 0 /\ ~oh.srst => a.reg = mode
        /\ ~(oh.clocks > 0) => a.reg = oh.reg /\ a.odd = oh.odd
    BY <2>2, WriteFacts
  <2> HIDE DEF a
  <2>4. marks \in SUBSET Marks
    BY <2>3 DEF IpBlocks, Marks
  <2>5. o \in IpBlocks
    <3> HIDE DEF marks
    <3>1. c \in IpBlocks
      BY <2>2, <2>3 DEF IpBlocks
    <3> HIDE DEF c
    <3> QED BY <2>1, <2>4, <3>1 DEF IpBlocks
  <2>6. /\ SamePlace(o, a) /\ o.odd = a.odd \cup {"woken"}
        /\ o.cache = a.cache /\ o.reg = a.reg /\ o.blind = oh.blind
          /\ o.srst = a.srst /\ o.unlocked = a.unlocked /\ o.busy = a.busy
    BY <2>1, <2>3 DEF IpBlocks, SamePlace
  <2>7. SameCounts(o, a)
    BY <2>1, <2>3 DEF IpBlocks, SameCounts
  <2>8. SameCounts(o, oh) /\ SamePlace(o, oh) /\ (Serious(o) <=> Serious(oh))
    BY <2>3, <2>6, <2>7 DEF SameCounts, SamePlace, Serious, Ways
  <2>9. Counted(o)
    BY <2>8 DEF Sound, Counted, SameCounts, SamePlace, On, One, Has
  <2>10. Regular(o)
    BY <2>3, <2>6, <2>8 DEF Sound, Regular, SamePlace, Has
  <2>11. InMode(o)
    <3>1. o.failed = oh.failed /\ o.state = oh.state /\ o.flags = oh.flags
      BY <2>8 DEF SameCounts, SamePlace
    <3>2. IdleMode(o) = IdleMode(oh) /\ Has(o, "SYSC") = Has(oh, "SYSC")
      BY <3>1 DEF IdleMode, SmartMode, Has
    <3>3. oh.clocks > 0 <=> oh.state = "ENABLED"
      BY DEF Sound, Counted, On
    <3>4. CASE oh.state = "ENABLED"
      BY <2>3, <2>6, <3>1, <3>3, <3>4 DEF InMode
    <3>5. CASE oh.state # "ENABLED"
      <4>1. o.reg = oh.reg /\ o.srst = oh.srst /\ o.odd = oh.odd \cup {"woken"}
        BY <2>3, <2>6, <3>3, <3>5
      <4> QED BY <2>8, <3>1, <3>2, <3>5, <4>1 DEF InMode
    <3> QED BY <3>4, <3>5
  <2> QED BY <2>2, <2>5, <2>6, <2>8, <2>9, <2>10, <2>11 DEF Sound, Used, SamePlace
<1> QED BY <1>1, <1>2

\* Setting one, by anyone.
LEMMA WakeupSteps ==
    ASSUME Inv, NEW b \in Driven,
           omap_hwmod_enable_wakeup(b) \/ omap_hwmod_disable_wakeup(b)
    PROVE  Inv'
<1>1. phase = "run" /\ UNCHANGED <<list, phase, next, resets, stage>>
  BY DEF omap_hwmod_enable_wakeup, omap_hwmod_disable_wakeup, Anyone, Call
<1>2. /\ hw[b] \in IpBlocks /\ Sound(hw[b]) /\ InMode(hw[b])
      /\ b \in inUse => Used(hw[b])
      /\ b \in inUse \/ Free(b)
  BY BlocksAreFamilies
     DEF Inv, AllSound, UsedInv, PendingInv, Pending, Free
<1>3. PICK oh \in {Woken(hw[b], "smart_wkup"), Woken(hw[b], "smart")} :
           /\ hw' = [hw EXCEPT ![b] = Returns(oh, OK)]
           /\ inUse' = IF b \in inUse THEN inUse \cup {b} ELSE inUse \ {b}
  BY DEF omap_hwmod_enable_wakeup, omap_hwmod_disable_wakeup, Anyone, Call
<1>4. /\ Sound(oh) /\ InMode(oh) /\ oh.flags = hw[b].flags
      /\ Used(hw[b]) => Used(oh)
  BY <1>2, <1>3, WokenFacts
<1>5. /\ inUse' \in {inUse \cup {b}, inUse \ {b}}
      /\ b \in inUse' => Used(oh)
      /\ b \in inUse' \/ Free(b)
  BY <1>2, <1>3, <1>4
<1> QED BY <1>1, <1>3, <1>4, <1>5, CallFacts DEF Sound

\* A softreset touches only a block of which it may.
LEMMA Resets ==
    ASSUME Inv, NEW b \in Blocks,
           b \in inUse \/ Has(hw[b], "NEEDS_REIDLE")
    PROVE  MayReset(hw[b])
  BY DEF Inv, AllSound, UsedInv, MayReset, Used, Reached, Sound, Counted, On

\* Pending of the blocks after a step that leaves their flags, from what the
\* step does to the one block whose resets or stage change.
LEMMA PendingFacts ==
    ASSUME Inv, NEW b \in Blocks, UNCHANGED inUse,
           \A c \in Blocks : hw'[c].flags = hw[c].flags,
           \A c \in Blocks \ {b} : stage'[c] = stage[c] /\ resets'[c] = resets[c],
           stage'[b] # "rest" => Has(hw[b], "NEEDS_REIDLE"),
           resets'[b]["notifier"] # "none" => Has(hw[b], "NEEDS_REIDLE"),
           resets'[b]["driver"] # "none" => b \in inUse
    PROVE  \A c \in Blocks : Pending(c)'
  BY DEF Inv, PendingInv, Pending, Has

\* The first write of a softreset, of the driver or of the notifier.
LEMMA BeginFacts ==
    ASSUME Inv, NEW b \in Blocks, NEW caller \in Resetters, Begin(b, caller),
           b \in inUse \/ Has(hw[b], "NEEDS_REIDLE")
    PROVE  /\ \E oh \in IpBlocks :
                  /\ hw' = [hw EXCEPT ![b] = oh]
                  /\ Sound(oh) /\ InMode(oh) /\ oh.flags = hw[b].flags
                  /\ Used(hw[b]) => Used(oh)
           /\ resets' \in [Blocks -> [Resetters -> Contents]]
           /\ \A c \in Blocks \ {b} : resets'[c] = resets[c]
           /\ \A k \in Resetters \ {caller} : resets'[b][k] = resets[b][k]
<1>1. hw[b] \in IpBlocks /\ Sound(hw[b]) /\ InMode(hw[b]) /\ MayReset(hw[b])
  BY Resets DEF Inv, AllSound
<1>2. CASE Resettable(hw[b])
  <2> DEFINE oh == FirstWrite(hw[b])
  <2>1. /\ hw' = [hw EXCEPT ![b] = oh]
        /\ resets' = [resets EXCEPT ![b][caller] = hw[b].cache]
    BY <1>2 DEF Begin
  <2>2. Sound(oh) /\ InMode(oh) /\ SamePlace(oh, hw[b]) /\ (Serious(oh) <=> Serious(hw[b]))
    BY <1>1, FirstWriteFacts
  <2> HIDE DEF oh
  <2>3. oh \in IpBlocks /\ oh.flags = hw[b].flags /\ (Used(hw[b]) => Used(oh))
    BY <2>2 DEF Sound, Used, SamePlace
  <2>4. hw[b].cache \in Contents /\ resets \in [Blocks -> [Resetters -> Contents]]
    BY <1>1 DEF IpBlocks, Inv, TypeOK
  <2>5. /\ resets' \in [Blocks -> [Resetters -> Contents]]
        /\ \A c \in Blocks \ {b} : resets'[c] = resets[c]
        /\ \A k \in Resetters \ {caller} : resets'[b][k] = resets[b][k]
    BY <2>1, <2>4
  <2> QED BY <2>1, <2>2, <2>3, <2>5
<1>3. CASE ~Resettable(hw[b])
  <2>1. hw' = hw /\ resets' = resets
    BY <1>3 DEF Begin
  <2>2. hw' = [hw EXCEPT ![b] = hw[b]]
    BY <2>1 DEF Inv, AllSound
  <2>3. resets \in [Blocks -> [Resetters -> Contents]]
    BY DEF Inv, TypeOK
  <2> QED BY <1>1, <2>1, <2>2, <2>3
<1> QED BY <1>2, <1>3

\* The softreset of a driver.
LEMMA SoftresetStep == ASSUME Inv, NEW b \in Driven, Softreset(b) PROVE Inv'
<1>1. /\ b \in inUse /\ Begin(b, "driver") /\ UNCHANGED <<list, phase, next, inUse, stage>>
      /\ b \in Blocks /\ "driver" \in Resetters
  BY BlocksAreFamilies DEF Softreset, Resetters
<1>2. phase = "run" /\ Used(hw[b]) /\ hw \in [Blocks -> IpBlocks]
  BY <1>1 DEF Inv, UsedInv, AllSound
<1>3. PICK oh \in IpBlocks :
           /\ hw' = [hw EXCEPT ![b] = oh]
           /\ Sound(oh) /\ InMode(oh) /\ oh.flags = hw[b].flags
           /\ Used(hw[b]) => Used(oh)
  BY <1>1, BeginFacts
<1>4. /\ resets' \in [Blocks -> [Resetters -> Contents]]
      /\ \A c \in Blocks \ {b} : resets'[c] = resets[c]
      /\ resets'[b]["notifier"] = resets[b]["notifier"]
  BY <1>1, BeginFacts DEF Resetters
<1>5. \A c \in Blocks : Pending(c)'
  <2>1. \A c \in Blocks : hw'[c].flags = hw[c].flags
    BY <1>1, <1>2, <1>3
  <2>2. Pending(b)
    BY <1>1 DEF Inv, PendingInv
  <2> QED BY <1>1, <1>4, <2>1, <2>2, PendingFacts DEF Pending
<1>6. stage' \in [Blocks -> Stages] /\ inUse' \subseteq Driven
  BY <1>1 DEF Inv, TypeOK
<1> QED BY <1>1, <1>2, <1>3, <1>4, <1>5, <1>6, StepFacts

\* The second write of one, the driver's or the notifier's.
LEMMA SecondWriteStep ==
    ASSUME Inv, NEW b \in Blocks, NEW caller \in Resetters, omap_hwmod_softreset(b, caller)
    PROVE  Inv'
<1> DEFINE oh == SecondWrite(resets[b][caller], hw[b])
<1>1. /\ resets[b][caller] # "none"
      /\ hw' = [hw EXCEPT ![b] = oh]
      /\ resets' = [resets EXCEPT ![b][caller] = "none"]
      /\ UNCHANGED <<list, phase, next, inUse, stage>>
  BY DEF omap_hwmod_softreset
<1>2. /\ phase = "run" /\ Pending(b)
      /\ hw \in [Blocks -> IpBlocks] /\ Sound(hw[b]) /\ InMode(hw[b])
      /\ b \in inUse => Used(hw[b])
      /\ resets \in [Blocks -> [Resetters -> Contents]]
  BY <1>1 DEF Inv, PendingInv, AtRest, UsedInv, AllSound, TypeOK
<1>3. MayReset(hw[b])
  BY <1>1, <1>2, Resets DEF Pending, Resetters
<1>4. resets[b][caller] \in Contents
  BY <1>2
<1>5. Sound(oh) /\ InMode(oh) /\ SamePlace(oh, hw[b]) /\ (Serious(oh) <=> Serious(hw[b]))
  BY <1>2, <1>3, <1>4, SecondWriteFacts
<1> HIDE DEF oh
<1>6. oh \in IpBlocks /\ oh.flags = hw[b].flags /\ (Used(hw[b]) => Used(oh))
  BY <1>5 DEF Sound, Used, SamePlace
<1>7. /\ resets' \in [Blocks -> [Resetters -> Contents]]
      /\ \A c \in Blocks \ {b} : resets'[c] = resets[c]
      /\ \A k \in Resetters : resets'[b][k] \in {"none", resets[b][k]}
  BY <1>1, <1>2 DEF Contents
<1>8. \A c \in Blocks : Pending(c)'
  <2>1. \A c \in Blocks : hw'[c].flags = hw[c].flags
    BY <1>1, <1>2, <1>6
  <2>2. {"driver", "notifier"} = Resetters
    BY DEF Resetters
  <2> QED BY <1>1, <1>2, <1>7, <2>1, <2>2, PendingFacts DEF Pending
<1>9. stage' \in [Blocks -> Stages] /\ inUse' \subseteq Driven
  BY <1>1 DEF Inv, TypeOK
<1> QED BY <1>1, <1>2, <1>5, <1>6, <1>7, <1>8, <1>9, StepFacts

\* The mark of a block that the notifier has idled in use.
LEMMA ReidledFacts ==
    ASSUME NEW b, NEW oh \in IpBlocks, Sound(oh), InMode(oh), NEW o, o = Reidled(b, oh)
    PROVE  /\ o \in IpBlocks /\ Sound(o) /\ InMode(o) /\ o.flags = oh.flags
           /\ b \in inUse => Used(o)
<1>1. CASE b \in inUse /\ oh.state # "ENABLED"
  <2> DEFINE w == oh.odd \cup {"reidled"}
  <2>1. o = [oh EXCEPT !.odd = w]
    BY <1>1 DEF Reidled, Odd
  <2>2. w \in SUBSET Marks /\ "reidled" \in w
    BY DEF IpBlocks, Ways, Marks
  <2> HIDE DEF w
  <2>3. o \in IpBlocks
    BY <2>1, <2>2 DEF IpBlocks
  <2>4. /\ SamePlace(o, oh) /\ o.odd = w /\ o.cache = oh.cache /\ o.srst = oh.srst
        /\ o.reg = oh.reg /\ o.blind = oh.blind /\ o.unlocked = oh.unlocked /\ o.busy = oh.busy
    BY <2>1 DEF IpBlocks, SamePlace
  <2>5. SameCounts(o, oh)
    BY <2>1 DEF IpBlocks, SameCounts
  <2>6. Serious(o)
    BY <2>2, <2>4 DEF Serious, Ways
  <2> QED BY <2>3, <2>4, <2>5, <2>6, SameSound DEF SamePlace, Used
<1>2. CASE ~(b \in inUse /\ oh.state # "ENABLED")
  BY <1>2 DEF Reidled, Used, Sound, Regular
<1> QED BY <1>1, <1>2

\* The calls of the notifier.
LEMMA NotifierSteps ==
    ASSUME Inv, NEW b \in Blocks,
           _reidle_all_enable(b) \/ _reidle_all_softreset(b) \/ _reidle_all_idle(b)
    PROVE  Inv'
<1>1. /\ phase = "run" /\ Has(hw[b], "NEEDS_REIDLE")
      /\ UNCHANGED <<list, phase, next, inUse>>
  BY DEF _reidle_all_enable, _reidle_all_softreset, _reidle_all_idle,
         Inv, PendingInv, AtRest, Pending
<1>2. /\ hw \in [Blocks -> IpBlocks] /\ Sound(hw[b]) /\ InMode(hw[b])
      /\ b \in inUse => Used(hw[b])
      /\ resets \in [Blocks -> [Resetters -> Contents]] /\ stage \in [Blocks -> Stages]
      /\ inUse \subseteq Driven /\ Pending(b)
  BY DEF Inv, AllSound, UsedInv, TypeOK, PendingInv
<1>3. ASSUME NEW oh \in IpBlocks, hw' = [hw EXCEPT ![b] = oh],
             Sound(oh), InMode(oh), oh.flags = hw[b].flags, b \in inUse => Used(oh),
             resets' \in [Blocks -> [Resetters -> Contents]],
             \A c \in Blocks \ {b} : resets'[c] = resets[c],
             resets'[b]["driver"] = resets[b]["driver"],
             NEW to \in Stages, stage' = [stage EXCEPT ![b] = to]
      PROVE  Inv'
  <2>1. /\ \A c \in Blocks : hw'[c].flags = hw[c].flags
        /\ \A c \in Blocks \ {b} : stage'[c] = stage[c]
        /\ stage' \in [Blocks -> Stages]
    BY <1>2, <1>3
  <2>2. \A c \in Blocks : Pending(c)'
    BY <1>1, <1>2, <1>3, <2>1, PendingFacts DEF Pending
  <2> QED BY <1>1, <1>2, <1>3, <2>1, <2>2, StepFacts
<1>4. CASE _reidle_all_enable(b)
  <2>1. PICK p \in _enable(hw[b]) : hw' = [hw EXCEPT ![b] = Returns(p, OK)]
    BY <1>4 DEF _reidle_all_enable
  <2>2. /\ p \in IpBlocks /\ Sound(p) /\ InMode(p) /\ p.flags = hw[b].flags
        /\ Serious(hw[b]) => Serious(p)
        /\ hw[b].state = "ENABLED" => p.state = "ENABLED"
    BY <1>2, EnableFacts DEF Sound
  <2>3. b \in inUse => Used(p)
    BY <1>2, <2>2 DEF Used, Sound, Regular
  <2> DEFINE oh == Returns(p, OK)
  <2>4. oh \in IpBlocks /\ Sound(oh) /\ InMode(oh) /\ oh.flags = hw[b].flags
        /\ (b \in inUse => Used(oh))
    BY <2>2, <2>3, QuietFacts
  <2>5. UNCHANGED resets /\ stage' = [stage EXCEPT ![b] = "enabled"] /\ "enabled" \in Stages
    BY <1>4 DEF _reidle_all_enable, Stages
  <2> HIDE DEF oh
  <2>6. hw' = [hw EXCEPT ![b] = oh]
    BY <2>1 DEF oh
  <2> QED BY <1>2, <1>3, <2>4, <2>5, <2>6
<1>5. CASE _reidle_all_softreset(b)
  <2>1. /\ Begin(b, "notifier") /\ "notifier" \in Resetters
        /\ stage' = [stage EXCEPT ![b] = "softreset"] /\ "softreset" \in Stages
    BY <1>5 DEF _reidle_all_softreset, Resetters, Stages
  <2>2. PICK oh \in IpBlocks :
             /\ hw' = [hw EXCEPT ![b] = oh]
             /\ Sound(oh) /\ InMode(oh) /\ oh.flags = hw[b].flags
             /\ Used(hw[b]) => Used(oh)
    BY <1>1, <2>1, BeginFacts
  <2>3. /\ resets' \in [Blocks -> [Resetters -> Contents]]
        /\ \A c \in Blocks \ {b} : resets'[c] = resets[c]
        /\ resets'[b]["driver"] = resets[b]["driver"]
    BY <1>1, <2>1, BeginFacts DEF Resetters
  <2> QED BY <1>2, <1>3, <2>1, <2>2, <2>3
<1>6. CASE _reidle_all_idle(b)
  <2>1. PICK p \in _idle(hw[b]) : hw' = [hw EXCEPT ![b] = Reidled(b, Returns(p, OK))]
    BY <1>6 DEF _reidle_all_idle
  <2>2. p \in IpBlocks /\ Sound(p) /\ InMode(p) /\ p.flags = hw[b].flags
    BY <1>2, IdleFacts DEF Sound
  <2> DEFINE q == Returns(p, OK)
             oh == Reidled(b, q)
  <2>3. q \in IpBlocks /\ Sound(q) /\ InMode(q) /\ q.flags = hw[b].flags
    BY <2>2, QuietFacts
  <2> HIDE DEF q
  <2>4. /\ oh \in IpBlocks /\ Sound(oh) /\ InMode(oh) /\ oh.flags = hw[b].flags
        /\ b \in inUse => Used(oh)
    BY <2>3, ReidledFacts
  <2>5. UNCHANGED resets /\ stage' = [stage EXCEPT ![b] = "rest"] /\ "rest" \in Stages
    BY <1>6 DEF _reidle_all_idle, Stages
  <2> HIDE DEF oh
  <2>6. hw' = [hw EXCEPT ![b] = oh]
    BY <2>1 DEF oh, q
  <2> QED BY <1>2, <1>3, <2>4, <2>5, <2>6
<1> QED BY <1>4, <1>5, <1>6

\* A line is released: the clocks that this needs are given back.
LEMMA DeassertFacts ==
    ASSUME NEW oh \in IpBlocks, Sound(oh), InMode(oh), NEW line \in Lines,
           NEW o, o = _deassert_hardreset(oh, line)
    PROVE  Sound(o) /\ InMode(o) /\ o.flags = oh.flags /\ (Used(oh) => Used(o))
<1>1. CASE line \notin RstLines(oh)
  <2>1. o = Returns(oh, "ENOENT") /\ "ENOENT" \in Answers
    BY <1>1 DEF _deassert_hardreset, Answers
  <2>2. o \in IpBlocks /\ SameCounts(o, oh) /\ SameSysc(o, oh) /\ SamePlace(o, oh)
    BY <2>1, ReturnsFacts
  <2> QED BY <2>2, SameSound DEF SameSysc, SamePlace, Serious, Used
<1>2. CASE line \in RstLines(oh)
  <2> DEFINE c == [oh EXCEPT !.clocks = oh.clocks + 1]
             on == _omap4_enable_module(c)
             lines == on.asserted \ {line}
             out == [on EXCEPT !.asserted = lines, !.r = OK]
             p == _disable_clocks(_omap4_disable_module(out))
             marks == IF oh.state = "ENABLED" THEN p.odd \cup {"deasserted"} ELSE p.odd
  <2>1. o = [p EXCEPT !.odd = marks]
    BY <1>2 DEF _deassert_hardreset, _enable_clocks
  <2>2. /\ c \in IpBlocks /\ SameSysc(c, oh)
        /\ c.flags = oh.flags /\ c.state = oh.state /\ c.skip = oh.skip
        /\ c.clocks = oh.clocks + 1 /\ c.clkdm = oh.clkdm /\ c.dep = oh.dep
        /\ c.poll = oh.poll /\ c.deny = oh.deny
        /\ c.failed = oh.failed /\ c.noauto = oh.noauto
    BY DEF IpBlocks, SameSysc
  <2> HIDE DEF c
  <2>3. /\ on \in IpBlocks /\ SameCounts(on, c) /\ SameSysc(on, c)
        /\ on.flags = c.flags /\ on.state = c.state /\ on.skip = c.skip
    BY <2>2, ModuleFacts
  <2> HIDE DEF on
  <2>4. lines \in SUBSET Lines /\ OK \in Answers
    BY <2>3 DEF IpBlocks, Answers
  <2> HIDE DEF lines
  <2>5. out \in IpBlocks
    BY <2>3, <2>4 DEF IpBlocks
  <2>6. /\ SameSysc(out, on)
        /\ out.flags = on.flags /\ out.state = on.state /\ out.skip = on.skip
    BY <2>3 DEF IpBlocks, SameSysc
  <2>7. SameCounts(out, on)
    BY <2>3 DEF IpBlocks, SameCounts
  <2> HIDE DEF out
  <2>8. /\ p \in IpBlocks /\ SameSysc(p, out)
        /\ p.flags = out.flags /\ p.state = out.state /\ p.skip = out.skip
        /\ p.clocks = out.clocks - 1 /\ p.clkdm = out.clkdm /\ p.dep = out.dep
        /\ p.poll = out.poll /\ p.deny = out.deny
        /\ p.failed = out.failed /\ p.noauto = out.noauto
    BY <2>5, DisableFacts
  <2> HIDE DEF p
  <2>9. marks \in SUBSET Marks
    BY <2>8 DEF IpBlocks, Ways, Marks
  <2> HIDE DEF marks
  <2>10. o \in IpBlocks
    BY <2>1, <2>8, <2>9 DEF IpBlocks
  <2>11. /\ SamePlace(o, p) /\ o.odd = marks
         /\ o.cache = p.cache /\ o.reg = p.reg /\ o.blind = p.blind
          /\ o.srst = p.srst /\ o.unlocked = p.unlocked /\ o.busy = p.busy
    BY <2>1, <2>8 DEF IpBlocks, SamePlace
  <2>12. SameCounts(o, p)
    BY <2>1, <2>8 DEF IpBlocks, SameCounts
  <2>13. SameCounts(o, oh)
    <3>1. oh.clocks \in Int
      BY DEF IpBlocks
    <3> QED BY <2>2, <2>3, <2>7, <2>8, <2>12, <3>1 DEF SameCounts
  <2>14. /\ o.flags = oh.flags /\ o.state = oh.state /\ o.skip = oh.skip
         /\ o.cache = oh.cache /\ o.reg = oh.reg /\ o.blind = oh.blind
          /\ o.srst = oh.srst /\ o.unlocked = oh.unlocked /\ o.busy = oh.busy
         /\ p.odd = oh.odd
    BY <2>2, <2>3, <2>6, <2>8, <2>11 DEF SameSysc, SamePlace
  <2>15. \/ oh.state = "ENABLED" /\ o.odd = oh.odd \cup {"deasserted"}
         \/ oh.state # "ENABLED" /\ o.odd = oh.odd
    BY <2>11, <2>14 DEF marks
  <2>16. (Serious(oh) => Serious(o)) /\ (o.state = "ENABLED" => Serious(o))
    BY <2>14, <2>15 DEF Serious, Ways
  <2>17. Sound(o) /\ InMode(o)
    BY <2>10, <2>13, <2>14, <2>15, <2>16, SameSound
  <2> QED BY <2>14, <2>16, <2>17 DEF Used
<1> QED BY <1>1, <1>2

\* A reset line of a block, held or released, whoever uses the block.
LEMMA LineSteps ==
    ASSUME Inv, NEW b \in Driven, NEW line \in Lines,
           \/ omap_hwmod_assert_hardreset(b, line)
           \/ omap_hwmod_deassert_hardreset(b, line)
    PROVE  Inv'
<1>1. phase = "run" /\ UNCHANGED <<list, phase, next, resets, stage>>
  BY DEF omap_hwmod_assert_hardreset, omap_hwmod_deassert_hardreset, Anyone, Call
<1>2. /\ hw[b] \in IpBlocks /\ Sound(hw[b]) /\ InMode(hw[b])
      /\ b \in inUse => Used(hw[b])
      /\ b \in inUse \/ Free(b)
  BY BlocksAreFamilies
     DEF Inv, AllSound, UsedInv, PendingInv, Pending, Free
<1>3. PICK oh \in {_assert_hardreset(hw[b], line), _deassert_hardreset(hw[b], line)} :
           /\ hw' = [hw EXCEPT ![b] = Returns(oh, OK)]
           /\ inUse' = IF b \in inUse THEN inUse \cup {b} ELSE inUse \ {b}
  BY DEF omap_hwmod_assert_hardreset, omap_hwmod_deassert_hardreset, Anyone, Call
<1>4. Sound(oh) /\ InMode(oh) /\ oh.flags = hw[b].flags /\ (b \in inUse => Used(oh))
  <2>1. CASE oh = _assert_hardreset(hw[b], line)
    <3> DEFINE lines == hw[b].asserted \cup {line}
               a == [hw[b] EXCEPT !.asserted = lines]
    <3>1. \/ oh = Returns(a, OK) /\ OK \in Answers
          \/ oh = Returns(hw[b], "ENOENT") /\ "ENOENT" \in Answers
      BY <2>1 DEF _assert_hardreset, Returns, Answers
    <3>2. lines \in SUBSET Lines
      BY <1>2 DEF IpBlocks
    <3> HIDE DEF lines
    <3>3. a \in IpBlocks /\ SameCounts(a, hw[b]) /\ SameSysc(a, hw[b]) /\ SamePlace(a, hw[b])
      BY <1>2, <3>2, NewLines
    <3> HIDE DEF a
    <3>4. /\ oh \in IpBlocks
          /\ SameCounts(oh, hw[b]) /\ SameSysc(oh, hw[b]) /\ SamePlace(oh, hw[b])
      BY <1>2, <3>1, <3>3, ReturnsFacts DEF SameCounts, SameSysc, SamePlace
    <3> QED BY <1>2, <3>4, SameSound DEF SameSysc, SamePlace, Serious, Used
  <2>2. CASE oh = _deassert_hardreset(hw[b], line)
    BY <1>2, <2>2, DeassertFacts
  <2> QED BY <1>3, <2>1, <2>2
<1>5. /\ inUse' \in {inUse \cup {b}, inUse \ {b}}
      /\ b \in inUse' => Used(oh)
      /\ b \in inUse' \/ Free(b)
  BY <1>2, <1>3, <1>4
<1> QED BY <1>1, <1>3, <1>4, <1>5, CallFacts DEF Sound

\* Suspend leaves each block as it is, or restores it by itself.
LEMMA SuspendStep == Inv /\ Suspend => Inv'
<1> SUFFICES ASSUME Inv, Suspend PROVE Inv'
  OBVIOUS
<1>1. /\ phase = "run" /\ UNCHANGED <<list, phase, next, inUse, resets>>
      /\ \A b \in Blocks, caller \in Resetters : resets[b][caller] = "none"
      /\ stage' = [b \in Blocks |-> IF Has(hw[b], "NEEDS_REIDLE") THEN "due" ELSE "rest"]
  BY DEF Suspend
<1>2. /\ hw' \in [Blocks -> IpBlocks]
      /\ \A b \in Blocks : /\ Sound(hw'[b]) /\ InMode(hw'[b]) /\ hw'[b].flags = hw[b].flags
                           /\ Used(hw[b]) => Used(hw'[b])
  <2>1. CASE hw' = hw
    BY <2>1 DEF Inv, AllSound
  <2>2. ASSUME NEW off, NEW after,
               \A b \in Blocks : after[b] \in Restored(b, off),
               hw' = Quiet(after)
        PROVE  /\ hw' \in [Blocks -> IpBlocks]
               /\ \A b \in Blocks :
                      /\ Sound(hw'[b]) /\ InMode(hw'[b]) /\ hw'[b].flags = hw[b].flags
                      /\ Used(hw[b]) => Used(hw'[b])
    <3>1. ASSUME NEW b \in Blocks
          PROVE  /\ hw'[b] \in IpBlocks /\ Sound(hw'[b]) /\ InMode(hw'[b])
                 /\ hw'[b].flags = hw[b].flags
                 /\ Used(hw[b]) => Used(hw'[b])
      <4>1. hw[b] \in IpBlocks /\ Sound(hw[b]) /\ InMode(hw[b])
        BY DEF Inv, AllSound
      <4>2. PICK woken \in {hw[b], LoseContext(hw[b])},
                 context \in {omap_hwmod_save_context(hw[b])} :
                 after[b] \in omap_hwmod_restore_context(woken, context)
        BY <2>2 DEF Restored
      <4>3. /\ Sound(after[b]) /\ InMode(after[b]) /\ after[b].flags = hw[b].flags
            /\ Used(hw[b]) => Used(after[b])
        BY <4>1, <4>2, RestoreFacts
      <4>4. hw'[b] = Returns(after[b], OK)
        BY <2>2 DEF Quiet
      <4>5. after[b] \in IpBlocks
        BY <4>3 DEF Sound
      <4>6. /\ hw'[b] \in IpBlocks /\ hw'[b].flags = after[b].flags
            /\ Sound(after[b]) => Sound(hw'[b])
            /\ InMode(after[b]) => InMode(hw'[b])
            /\ Used(after[b]) => Used(hw'[b])
        BY <4>4, <4>5, QuietFacts
      <4> QED BY <4>3, <4>6
    <3> QED BY <2>2, <3>1 DEF Quiet
  <2>3. \/ hw' = hw
        \/ \E off, after :
               (\A b \in Blocks : after[b] \in Restored(b, off)) /\ hw' = Quiet(after)
    BY Zenon DEF Suspend
  <2>4. PICK off, after :
             \/ hw' = hw
             \/ (\A b \in Blocks : after[b] \in Restored(b, off)) /\ hw' = Quiet(after)
    BY <2>3, Zenon
  <2>5. CASE (\A b \in Blocks : after[b] \in Restored(b, off)) /\ hw' = Quiet(after)
    BY <2>2, <2>5, Zenon
  <2> QED BY <2>1, <2>4, <2>5, Zenon
<1>3. AllSound(hw')
  BY <1>2 DEF AllSound
<1>4. \A b \in inUse : b \in Blocks
  BY BlocksAreFamilies DEF Inv, TypeOK
<1>5. TypeOK' /\ UsedInv'
  <2>1. stage' \in [Blocks -> Stages]
    BY <1>1 DEF Stages
  <2> QED BY <1>1, <1>2, <1>4, <2>1 DEF Inv, TypeOK, UsedInv
<1>6. PendingInv'
  <2>1. \A b \in Blocks : Pending(b)'
    BY <1>1, <1>2 DEF Pending, Has, Resetters
  <2> QED BY <1>1, <2>1 DEF PendingInv
<1> QED BY <1>3, <1>5, <1>6 DEF Inv

\* Every step keeps the invariant.
LEMMA NextInv == Inv /\ [Next]_vars => Inv'
<1> SUFFICES ASSUME Inv, [Next]_vars PROVE Inv'
  OBVIOUS
<1>1. CASE UNCHANGED vars
  BY <1>1 DEF vars, Inv, TypeOK, AllSound, UsedInv, PendingInv, Pending, AtRest
<1>2. CASE Suspend
  BY <1>2, SuspendStep
<1>3. ASSUME NEW b \in Blocks, NEW caller \in Resetters, omap_hwmod_softreset(b, caller)
      PROVE  Inv'
  BY <1>3, SecondWriteStep
<1>4. {"driver", "notifier"} = Resetters /\ Driven \subseteq Blocks
  BY BlocksAreFamilies DEF Resetters
<1> QED BY <1>1, <1>2, <1>3, <1>4, BootSteps, EnableStep, IdleStep, ShutdownStep, WakeupSteps,
           SoftresetStep, NotifierSteps, LineSteps DEF Next

\* The invariant holds in every state.
LEMMA AlwaysInv == Spec => []Inv
<1> QED BY InitInv, NextInv, PTL DEF Spec

-----------------------------------------------------------------------------
(* Theorems.                                                               *)

\* Each part of the state is of its type.
THEOREM HwmodTypes == Spec => []TypeOK
<1>1. Inv => TypeOK
  BY DEF Inv
<1> QED BY <1>1, AlwaysInv, PTL

\* What a block has enabled is given back exactly when it leaves ENABLED, but
\* for what failed enables and shutdowns of CLKDM_NOAUTO blocks leave behind,
\* over any number of calls, failures and suspends: the paths of _enable, _idle
\* and _shutdown balance.
THEOREM CountsAlwaysFollow == Spec => []CountsFollowState
<1>1. Inv => CountsFollowState
  BY DEF Inv, AllSound, Sound, Counted, On, CountsFollowState
<1> QED BY <1>1, AlwaysInv, PTL

\* OCP_SYSCONFIG says what the state of the block asks for, whatever flags
\* the blocks have.
THEOREM SyscAlwaysFollows == Spec => []SyscFollowsState
<1>1. Inv => SyscFollowsState
  BY DEF Inv, AllSound, Sound, Regular, InMode, Serious, SyscFollowsState
<1> QED BY <1>1, AlwaysInv, PTL

\* Nothing that turns a block on or off, or reads its OCP_SYSCONFIG back,
\* touches the register while its clocks are off, unless an enable failed or the
\* block went another way than the usual one; and a softreset, which takes no
\* lock, does so only on the blocks that the notifier reidles, whatever their
\* drivers, the notifier and those who set wakeups do in between.
THEOREM NeverBlind == Spec => []NoBlindAccess
<1>1. Inv => NoBlindAccess
  BY DEF Inv, AllSound, Sound, Regular, NoBlindAccess
<1> QED BY <1>1, AlwaysInv, PTL

\* A block that its driver was told is enabled is enabled, with its module
\* mode set, but for the four exceptions that the code makes.
THEOREM InUseAlwaysOn == Spec => []InUseIsOn
<1>1. Inv => InUseIsOn
  BY DEF Inv, UsedInv, Used, Serious, Ways, InUseIsOn
<1> QED BY <1>1, AlwaysInv, PTL
-----------------------------------------------------------------------------
(* Lists of entries, newest first. *)

Entries(s) == {s[i] : i \in DOMAIN s}
NewestFirst(s) == \A i, j \in DOMAIN s : i < j => s[i] > s[j]

\* A new entry in front of older ones.
LEMMA EntryAdded ==
    ASSUME NEW s \in Seq(Nat), NEW n \in Nat, NewestFirst(s),
           \A e \in Entries(s) : e < n
    PROVE  /\ <<n>> \o s \in Seq(Nat)
           /\ Entries(<<n>> \o s) = Entries(s) \cup {n}
           /\ NewestFirst(<<n>> \o s)
<1> DEFINE t == <<n>> \o s
<1>1. /\ t \in Seq(Nat) /\ Len(t) = Len(s) + 1
      /\ t[1] = n /\ \A i \in 1..Len(s) : t[i + 1] = s[i]
  OBVIOUS
<1>2. DOMAIN t = 1..Len(s) + 1 /\ DOMAIN s = 1..Len(s)
  BY <1>1
<1>3. \A i \in DOMAIN t : i = 1 \/ (i - 1 \in DOMAIN s /\ t[i] = s[i - 1])
  BY <1>1, <1>2
<1>4. Entries(t) = Entries(s) \cup {n}
  <2>1. \A e \in Entries(t) : e \in Entries(s) \cup {n}
    BY <1>1, <1>3 DEF Entries
  <2>2. n \in Entries(t)
    BY <1>1, <1>2 DEF Entries
  <2>3. ASSUME NEW i \in DOMAIN s PROVE s[i] \in Entries(t)
    <3>1. i + 1 \in DOMAIN t /\ t[i + 1] = s[i]
      BY <1>1, <1>2
    <3>. QED  BY <3>1 DEF Entries
  <2>. QED  BY <2>1, <2>2, <2>3 DEF Entries
<1>5. ASSUME NEW i \in DOMAIN t, NEW j \in DOMAIN t, i < j
      PROVE  t[i] > t[j]
  <2>1. j - 1 \in DOMAIN s /\ t[j] = s[j - 1]
    BY <1>2, <1>3, <1>5
  <2>2. CASE i = 1
    <3>1. s[j - 1] \in Entries(s)
      BY <2>1 DEF Entries
    <3>2. s[j - 1] < n /\ s[j - 1] \in Nat
      BY <3>1, <2>1, <1>2
    <3>. QED  BY <2>1, <2>2, <3>2, <1>1
  <2>3. CASE i # 1
    <3>1. i - 1 \in DOMAIN s /\ t[i] = s[i - 1] /\ i - 1 < j - 1
      BY <2>3, <1>3, <1>5, <1>2
    <3>. QED  BY <2>1, <3>1 DEF NewestFirst
  <2>. QED  BY <2>2, <2>3
<1>. QED  BY <1>1, <1>4, <1>5 DEF NewestFirst

LEMMA RemoveAtFacts ==
    ASSUME NEW S, NEW s \in Seq(S), NEW i \in 1 .. Len(s)
    PROVE  /\ MT!RemoveAt(s, i) \in Seq(S)
           /\ Len(MT!RemoveAt(s, i)) = Len(s) - 1
           /\ \A j \in 1 .. Len(s) - 1 :
                  MT!RemoveAt(s, i)[j] = IF j < i THEN s[j] ELSE s[j + 1]
<1> DEFINE a == SubSeq(s, 1, i - 1)
           b == SubSeq(s, i + 1, Len(s))
<1>1. a \in Seq(S) /\ Len(a) = i - 1 /\ \A j \in 1 .. i - 1 : a[j] = s[j]
  OBVIOUS
<1>2. b \in Seq(S) /\ Len(b) = Len(s) - i
  OBVIOUS
<1>3. \A j \in 1 .. Len(s) - i : b[j] = s[i + j]
  OBVIOUS
<1> HIDE DEF a, b
<1>4. a \o b \in Seq(S) /\ Len(a \o b) = Len(s) - 1
  <2>1. a \o b \in Seq(S) /\ Len(a \o b) = Len(a) + Len(b)
    BY <1>1, <1>2, ConcatProperties, Zenon
  <2>2. (i - 1) + (Len(s) - i) = Len(s) - 1
    OBVIOUS
  <2>. QED  BY <1>1, <1>2, <2>1, <2>2, Zenon
<1>5. \A j \in 1 .. Len(s) - 1 :
          (a \o b)[j] = IF j < i THEN s[j] ELSE s[j + 1]
  <2> TAKE j \in 1 .. Len(s) - 1
  <2>1. CASE j < i
    <3>1. j \in 1 .. i - 1
      BY <2>1
    <3>2. (a \o b)[j] = a[j]
      BY <1>1, <1>2, <3>1
    <3>. QED  BY <1>1, <2>1, <3>1, <3>2
  <2>2. CASE ~(j < i)
    <3>1. j - i + 1 \in 1 .. Len(s) - i /\ i + (j - i + 1) = j + 1
      BY <2>2
    <3>2. (a \o b)[j] = b[j - i + 1]
      BY <1>1, <1>2, <2>2
    <3>. QED  BY <1>3, <2>2, <3>1, <3>2
  <2>. QED  BY <2>1, <2>2
<1> QED
  BY <1>4, <1>5 DEF MT!RemoveAt, a, b

\* Where an entry stood before the i-th was taken out.
LEMMA EntryBefore ==
    ASSUME NEW n \in Nat, NEW i \in 1..n, NEW j \in 1..(n - 1)
    PROVE  /\ j \in 1..n /\ j + 1 \in 1..n
           /\ (IF j < i THEN j ELSE j + 1) \in 1..n
           /\ \A k \in 1..(n - 1) : j < k =>
                 (IF j < i THEN j ELSE j + 1) < (IF k < i THEN k ELSE k + 1)
OBVIOUS

\* Where it stands afterwards.
LEMMA EntryAfter ==
    ASSUME NEW n \in Nat, NEW i \in 1..n, NEW j \in 1..n
    PROVE  /\ j < i => j \in 1..(n - 1)
           /\ j > i => /\ j - 1 \in 1..(n - 1) /\ ~(j - 1 < i)
                       /\ (j - 1) + 1 = j
OBVIOUS

\* An entry taken out, and the oldest one taken.
LEMMA EntryRemoved ==
    ASSUME NEW s \in Seq(Nat), NEW i \in DOMAIN s, NewestFirst(s)
    PROVE  /\ MT!RemoveAt(s, i) \in Seq(Nat)
           /\ Entries(MT!RemoveAt(s, i)) = Entries(s) \ {s[i]}
           /\ NewestFirst(MT!RemoveAt(s, i))
<1> DEFINE t == MT!RemoveAt(s, i)
<1>1. /\ i \in 1..Len(s)
      /\ DOMAIN s = 1..Len(s)
      /\ t \in Seq(Nat) /\ Len(t) = Len(s) - 1
      /\ \A j \in 1..(Len(s) - 1) : t[j] = IF j < i THEN s[j] ELSE s[j + 1]
  <2>1. i \in 1..Len(s) /\ DOMAIN s = 1..Len(s)
    OBVIOUS
  <2>. QED  BY <2>1, RemoveAtFacts, Zenon
<1>2. DOMAIN t = 1..(Len(s) - 1)
  BY <1>1
<1>3. \A e \in Entries(s) \ {s[i]} : e \in Entries(t)
  <2> SUFFICES ASSUME NEW j \in DOMAIN s, j # i PROVE s[j] \in Entries(t)
    BY DEF Entries
  <2>0. Len(s) \in Nat /\ j \in 1..Len(s)
    BY <1>1
  <2>1. CASE j < i
    <3>1. j \in 1..(Len(s) - 1)
      BY <1>1, <2>0, <2>1, EntryAfter, Zenon
    <3>2. t[j] = s[j]
      BY <1>1, <2>1, <3>1, Zenon
    <3>. QED  BY <1>2, <3>1, <3>2, Zenon DEF Entries
  <2>2. CASE j > i
    <3>1. /\ j - 1 \in 1..(Len(s) - 1) /\ ~(j - 1 < i)
          /\ (j - 1) + 1 = j
      BY <1>1, <2>0, <2>2, EntryAfter, Zenon
    <3>2. t[j - 1] = s[j]
      BY <1>1, <3>1, Zenon
    <3>. QED  BY <1>2, <3>1, <3>2, Zenon DEF Entries
  <2>. QED  BY <2>1, <2>2, <1>1
<1>4. \A j \in DOMAIN s : j # i => s[j] # s[i]
  <2> TAKE j \in DOMAIN s
  <2> HAVE j # i
  <2>1. j < i \/ i < j
    BY <1>1
  <2>2. s[j] > s[i] \/ s[i] > s[j]
    BY <2>1 DEF NewestFirst
  <2>3. s[j] \in Nat /\ s[i] \in Nat
    BY <1>1
  <2>. QED  BY <2>2, <2>3
<1>5. \A e \in Entries(t) : e \in Entries(s) \ {s[i]}
  <2> SUFFICES ASSUME NEW j \in DOMAIN t
               PROVE  t[j] \in Entries(s) /\ t[j] # s[i]
    BY DEF Entries
  <2> HIDE DEF t
  <2>0. Len(s) \in Nat /\ j \in 1..(Len(s) - 1)
    BY <1>1, <1>2
  <2>1. CASE j < i
    <3>1. t[j] = s[j]
      BY <1>1, <2>0, <2>1, Zenon
    <3>2. j \in DOMAIN s
      BY <1>1, <2>0, EntryBefore, Zenon
    <3>3. j # i
      BY <2>0, <2>1
    <3>. QED  BY <1>4, <3>1, <3>2, <3>3 DEF Entries
  <2>2. CASE ~(j < i)
    <3>1. t[j] = s[j + 1]
      BY <1>1, <2>0, <2>2, Zenon
    <3>2. j + 1 \in DOMAIN s
      BY <1>1, <2>0, EntryBefore, Zenon
    <3>3. j + 1 # i
      BY <1>1, <2>0, <2>2
    <3>. QED  BY <1>4, <3>1, <3>2, <3>3 DEF Entries
  <2>. QED  BY <2>1, <2>2
<1>6. NewestFirst(t)
  <2> SUFFICES ASSUME NEW j \in DOMAIN t, NEW k \in DOMAIN t, j < k
               PROVE  t[j] > t[k]
    BY DEF NewestFirst
  <2> DEFINE at(n) == IF n < i THEN n ELSE n + 1
  <2> HIDE DEF t
  <2>0. Len(s) \in Nat /\ j \in 1..(Len(s) - 1) /\ k \in 1..(Len(s) - 1)
    BY <1>1, <1>2
  <2>1. at(j) \in DOMAIN s /\ at(k) \in DOMAIN s /\ at(j) < at(k)
    BY <1>1, <2>0, EntryBefore, Zenon
  <2>2. t[j] = s[at(j)] /\ t[k] = s[at(k)]
    BY <1>1, <2>0, Zenon
  <2> HIDE DEF at
  <2>. QED  BY <2>1, <2>2 DEF NewestFirst
<1>. QED  BY <1>1, <1>3, <1>5, <1>6

LEMMA OldestTaken ==
    ASSUME NEW s \in Seq(Nat), s # <<>>, NewestFirst(s)
    PROVE  /\ MT!Front(s) \in Seq(Nat)
           /\ Entries(MT!Front(s)) = Entries(s) \ {MT!Last(s)}
           /\ NewestFirst(MT!Front(s))
           /\ MT!Last(s) \in Entries(s)
           /\ \A e \in Entries(s) : MT!Last(s) <= e
<1>1. Len(s) \in DOMAIN s /\ DOMAIN s = 1..Len(s)
  OBVIOUS
<1>2. MT!Front(s) = MT!RemoveAt(s, Len(s))
  BY <1>1 DEF MT!Front, MT!RemoveAt
<1>3. ASSUME NEW i \in DOMAIN s PROVE s[Len(s)] <= s[i]
  <2>1. i = Len(s) \/ s[i] > s[Len(s)]
    BY <1>1 DEF NewestFirst
  <2>2. s[i] \in Nat /\ s[Len(s)] \in Nat
    BY <1>1
  <2>. QED  BY <2>1, <2>2
<1>. QED  BY <1>1, <1>2, <1>3, EntryRemoved DEF MT!Last, Entries

-----------------------------------------------------------------------------
(* The timer module. *)

TimerTypes ==
    /\ timer_list_head \in Seq(Nat) /\ NewestFirst(timer_list_head)
    /\ Entries(timer_list_head) \subseteq MT!Starts
    /\ idOf \in Seq(Timers)
    /\ pending \in [Timers -> Nat \cup {Nobody}]
    /\ firing \subseteq expired /\ expired \subseteq MT!Starts
    /\ timer_status \in Nat
    /\ pc \in [Callers -> {"closed", "open", "add", "remove", "count", "take",
                           "empty?", "first", "delete", "free"}]
    /\ id \in [Callers -> Timers \cup {Nobody}]
    /\ entry \in [Callers -> Nat \cup {Nobody}]

\* A timer runs, or is about to, for an entry of its own that has not expired.
OwnEntries ==
    /\ \A t \in Timers : pending[t] # Nobody =>
          pending[t] \in MT!Starts \ expired /\ idOf[pending[t]] = t
    /\ \A c \in Callers : pc[c] = "add" =>
          /\ id[c] \in Timers /\ pending[id[c]] = Nobody
          /\ entry[c] \in MT!Starts \ expired /\ idOf[entry[c]] = id[c]
    /\ \A c, d \in Callers :
          pc[c] = "add" /\ pc[d] = "add" /\ id[c] = id[d] => c = d

\* While nothing misleads a read, each expired entry on the list stands for
\* an expiry: one that is counted, still to be counted or with a reader; and
\* the expired entries are the oldest ones.
Takers == {c \in Callers : pc[c] = "take"}
CountFits ==
    odd = {} =>
        /\ Cardinality(MT!OnList \cap expired) =
              timer_status + Cardinality(firing) + Cardinality(Takers)
        /\ \A e \in MT!OnList \cap expired, d \in MT!OnList \ expired : e < d
        /\ ~wrong

TimerInv == TimerTypes /\ OwnEntries /\ CountFits

LEMMA StartsAre ==
    ASSUME idOf \in Seq(Timers)
    PROVE  MT!Starts = 1..Len(idOf) /\ Len(idOf) \in Nat
BY DEF MT!Starts

LEMMA ListedAre == MT!OnList = Entries(timer_list_head)
BY DEF MT!OnList, MT!ToSet, Entries

\* list_del takes one entry off, or finds it gone.
LEMMA ListDeleted ==
    ASSUME NEW e, MT!ListDel(e), timer_list_head \in Seq(Nat),
           NewestFirst(timer_list_head)
    PROVE  /\ timer_list_head' \in Seq(Nat) /\ NewestFirst(timer_list_head')
           /\ Entries(timer_list_head') = Entries(timer_list_head) \ {e}
<1>1. CASE e \notin Entries(timer_list_head)
  <2>1. timer_list_head' = timer_list_head
    BY <1>1, ListedAre DEF MT!ListDel
  <2>. QED  BY <1>1, <2>1
<1>2. CASE e \in Entries(timer_list_head)
  <2> DEFINE i == CHOOSE i \in DOMAIN timer_list_head :
                      timer_list_head[i] = e
  <2>1. i \in DOMAIN timer_list_head /\ timer_list_head[i] = e
    BY <1>2 DEF Entries
  <2>2. timer_list_head' = MT!RemoveAt(timer_list_head, i)
    BY <1>2, ListedAre DEF MT!ListDel
  <2> HIDE DEF i
  <2>. QED  BY <2>1, <2>2, EntryRemoved
<1>. QED  BY <1>1, <1>2

LEMMA TimersInit ==
    ASSUME MT!Init
    PROVE  TimerInv
<1>1. Entries(<<>>) = {} /\ NewestFirst(<<>>) /\ MT!Starts = {}
  BY DEF MT!Init, Entries, NewestFirst, MT!Starts
<1>2. TimerTypes /\ OwnEntries
  BY <1>1 DEF MT!Init, TimerTypes, OwnEntries
<1>3. MT!OnList = {} /\ Takers = {}
  BY <1>1, ListedAre DEF MT!Init, Takers
<1>4. MT!OnList \cap expired = {} /\ firing = {}
  BY <1>3 DEF MT!Init
<1>5. CountFits
  BY <1>3, <1>4, FS_EmptySet DEF CountFits, MT!Init
<1>. QED  BY <1>2, <1>5 DEF TimerInv

\* A start: a new entry at the head of the list.
LEMMA StartStep ==
    ASSUME TimerTypes, OwnEntries,
           NEW c \in Callers, NEW t \in Timers, MT!MULT_TIME_START(c, t)
    PROVE  /\ TimerTypes' /\ OwnEntries'
           /\ MT!OnList' = MT!OnList \cup {Len(idOf) + 1}
           /\ Len(idOf) + 1 \notin expired
           /\ \A e \in MT!OnList \cup expired : e < Len(idOf) + 1
<1> DEFINE n == Len(idOf) + 1
<1>1. /\ n \in Nat /\ MT!Starts = 1..Len(idOf) /\ MT!Starts' = 1..n
      /\ idOf' \in Seq(Timers) /\ idOf'[n] = t
      /\ \A e \in 1..Len(idOf) : idOf'[e] = idOf[e]
      /\ Len(idOf') = n
  BY StartsAre DEF TimerTypes, MT!MULT_TIME_START, MT!Starts
<1>2. \A e \in Entries(timer_list_head) \cup expired : e < n
  <2>1. Entries(timer_list_head) \cup expired \subseteq 1..Len(idOf)
    BY <1>1 DEF TimerTypes
  <2>. QED  BY <1>1, <2>1
<1>3. /\ timer_list_head' \in Seq(Nat) /\ NewestFirst(timer_list_head')
      /\ Entries(timer_list_head') = Entries(timer_list_head) \cup {n}
  <2>1. timer_list_head' = <<n>> \o timer_list_head
    BY <1>1 DEF MT!MULT_TIME_START
  <2>. QED  BY <1>1, <1>2, <2>1, EntryAdded DEF TimerTypes
<1>4. /\ pending' = pending /\ firing' = firing /\ expired' = expired
      /\ timer_status' = timer_status
      /\ pc' = [pc EXCEPT ![c] = "add"] /\ id' = [id EXCEPT ![c] = t]
      /\ entry' = [entry EXCEPT ![c] = n]
      /\ pending[t] = Nobody
      /\ \A d \in Callers : pc[d] = "add" => id[d] # t
  BY <1>1 DEF MT!MULT_TIME_START, MT!timers, MT!Goes, MT!Starting
<1>5. TimerTypes'
  <2>1. pc' \in [Callers -> {"closed", "open", "add", "remove", "count",
                             "take", "empty?", "first", "delete", "free"}]
    BY <1>4 DEF TimerTypes
  <2>2. /\ id' \in [Callers -> Timers \cup {Nobody}]
        /\ entry' \in [Callers -> Nat \cup {Nobody}]
    BY <1>1, <1>4 DEF TimerTypes
  <2>3. Entries(timer_list_head') \subseteq MT!Starts'
        /\ expired' \subseteq MT!Starts'
    BY <1>1, <1>3, <1>4 DEF TimerTypes
  <2>. QED  BY <1>1, <1>3, <1>4, <2>1, <2>2, <2>3 DEF TimerTypes
<1>6. OwnEntries'
  <2>1. ASSUME NEW u \in Timers, pending'[u] # Nobody
        PROVE  pending'[u] \in MT!Starts' \ expired'
               /\ idOf'[pending'[u]] = u
    BY <1>1, <1>4, <2>1 DEF OwnEntries
  <2>2. ASSUME NEW d \in Callers, pc'[d] = "add"
        PROVE  /\ id'[d] \in Timers /\ pending'[id'[d]] = Nobody
               /\ entry'[d] \in MT!Starts' \ expired'
               /\ idOf'[entry'[d]] = id'[d]
    <3>1. CASE d = c
      <4>1. id'[d] = t /\ entry'[d] = n
        BY <1>4, <3>1 DEF TimerTypes
      <4>2. n \in MT!Starts' \ expired'
        BY <1>1, <1>2, <1>4
      <4>. QED  BY <1>1, <1>4, <4>1, <4>2
    <3>2. CASE d # c
      <4>1. pc[d] = "add" /\ id'[d] = id[d] /\ entry'[d] = entry[d]
        BY <1>4, <2>2, <3>2 DEF TimerTypes
      <4>2. entry[d] \in 1..Len(idOf)
        BY <4>1, <1>1 DEF OwnEntries
      <4>. QED  BY <1>1, <1>4, <4>1, <4>2 DEF OwnEntries
    <3>. QED  BY <3>1, <3>2
  <2>3. ASSUME NEW d \in Callers, NEW f \in Callers,
               pc'[d] = "add", pc'[f] = "add", id'[d] = id'[f]
        PROVE  d = f
    <3>1. \A g \in Callers : g # c => pc'[g] = pc[g] /\ id'[g] = id[g]
      BY <1>4 DEF TimerTypes
    <3>2. id'[c] = t
      BY <1>4 DEF TimerTypes
    <3>. QED  BY <1>4, <2>3, <3>1, <3>2 DEF OwnEntries
  <2>. QED  BY <2>1, <2>2, <2>3 DEF OwnEntries
<1>7. MT!OnList' = Entries(timer_list_head')
  BY DEF MT!OnList, MT!ToSet, Entries
<1>8. Len(idOf) + 1 \notin expired
  BY <1>1, <1>2
<1>. QED  BY <1>2, <1>3, <1>5, <1>6, <1>7, <1>8, ListedAre

\* What most actions leave alone.
LEMMA OwnKept ==
    ASSUME OwnEntries, idOf' = idOf, expired' = expired,
           \A t \in Timers : pending'[t] \in {pending[t], Nobody},
           \A d \in Callers : pc'[d] = "add" =>
               pc[d] = "add" /\ id'[d] = id[d] /\ entry'[d] = entry[d]
    PROVE  OwnEntries'
<1>1. MT!Starts' = MT!Starts
  BY DEF MT!Starts
<1>2. ASSUME NEW t \in Timers, pending'[t] # Nobody
      PROVE  pending'[t] \in MT!Starts' \ expired' /\ idOf'[pending'[t]] = t
  BY <1>1, <1>2 DEF OwnEntries
<1>3. ASSUME NEW c \in Callers, pc'[c] = "add"
      PROVE  /\ id'[c] \in Timers /\ pending'[id'[c]] = Nobody
             /\ entry'[c] \in MT!Starts' \ expired'
             /\ idOf'[entry'[c]] = id'[c]
  <2>1. /\ pc[c] = "add" /\ id'[c] = id[c] /\ entry'[c] = entry[c]
    BY <1>3
  <2>2. id[c] \in Timers /\ pending[id[c]] = Nobody
    BY <2>1 DEF OwnEntries
  <2>3. pending'[id[c]] = Nobody
    BY <2>2
  <2>. QED  BY <1>1, <2>1, <2>2, <2>3 DEF OwnEntries
<1>4. ASSUME NEW c \in Callers, NEW d \in Callers,
             pc'[c] = "add", pc'[d] = "add", id'[c] = id'[d]
      PROVE  c = d
  BY <1>4 DEF OwnEntries
<1>. QED  BY <1>2, <1>3, <1>4 DEF OwnEntries

LEMMA AddStep ==
    ASSUME TimerTypes, OwnEntries, NEW c \in Callers, MT!add_timer(c)
    PROVE  TimerTypes' /\ OwnEntries'
<1>1. /\ idOf' = idOf /\ expired' = expired /\ MT!Starts' = MT!Starts
      /\ timer_list_head' = timer_list_head /\ firing' = firing
      /\ timer_status' = timer_status
      /\ pending' = [pending EXCEPT ![id[c]] = entry[c]]
      /\ pc' = [pc EXCEPT ![c] = "open"]
      /\ id' = [id EXCEPT ![c] = Nobody]
      /\ entry' = [entry EXCEPT ![c] = Nobody]
  BY DEF MT!add_timer, MT!list, MT!Returns, MT!Goes, MT!Starts
<1>2. /\ id[c] \in Timers /\ entry[c] \in MT!Starts \ expired
      /\ idOf[entry[c]] = id[c] /\ pc[c] = "add"
      /\ entry[c] \in Nat \cup {Nobody}
  BY DEF OwnEntries, MT!add_timer, TimerTypes
<1>3. TimerTypes'
  <2>1. pc' \in [Callers -> {"closed", "open", "add", "remove", "count",
                             "take", "empty?", "first", "delete", "free"}]
    BY <1>1 DEF TimerTypes
  <2>2. /\ id' \in [Callers -> Timers \cup {Nobody}]
        /\ entry' \in [Callers -> Nat \cup {Nobody}]
        /\ pending' \in [Timers -> Nat \cup {Nobody}]
    BY <1>1, <1>2 DEF TimerTypes
  <2>. QED  BY <1>1, <2>1, <2>2 DEF TimerTypes
<1>4. \A d \in Callers : pc'[d] = "add" =>
          d # c /\ pc[d] = "add" /\ id'[d] = id[d] /\ entry'[d] = entry[d]
  BY <1>1 DEF TimerTypes
<1>5. \A t \in Timers : pending'[t] = IF t = id[c] THEN entry[c] ELSE pending[t]
  BY <1>1, <1>2 DEF TimerTypes
<1>6. ASSUME NEW t \in Timers, pending'[t] # Nobody
      PROVE  pending'[t] \in MT!Starts' \ expired' /\ idOf'[pending'[t]] = t
  BY <1>1, <1>2, <1>5, <1>6 DEF OwnEntries
<1>7. ASSUME NEW d \in Callers, pc'[d] = "add"
      PROVE  /\ id'[d] \in Timers /\ pending'[id'[d]] = Nobody
             /\ entry'[d] \in MT!Starts' \ expired'
             /\ idOf'[entry'[d]] = id'[d]
  <2>1. d # c /\ pc[d] = "add" /\ id'[d] = id[d] /\ entry'[d] = entry[d]
    BY <1>4, <1>7
  <2>2. id[d] # id[c]
    BY <1>2, <2>1 DEF OwnEntries
  <2>. QED  BY <1>1, <1>5, <2>1, <2>2 DEF OwnEntries
<1>8. ASSUME NEW d \in Callers, NEW e \in Callers,
             pc'[d] = "add", pc'[e] = "add", id'[d] = id'[e]
      PROVE  d = e
  BY <1>4, <1>8 DEF OwnEntries
<1>. QED  BY <1>3, <1>6, <1>7, <1>8 DEF OwnEntries

LEMMA ExpireStep ==
    ASSUME TimerTypes, OwnEntries, NEW t \in Timers, MT!Expire(t)
    PROVE  TimerTypes' /\ OwnEntries'
<1>1. /\ idOf' = idOf /\ MT!Starts' = MT!Starts
      /\ timer_list_head' = timer_list_head /\ timer_status' = timer_status
      /\ firing' = firing \cup {pending[t]}
      /\ expired' = expired \cup {pending[t]}
      /\ pending' = [pending EXCEPT ![t] = Nobody]
      /\ pc' = pc /\ id' = id /\ entry' = entry
  BY DEF MT!Expire, MT!list, MT!caller, MT!Starts
<1>2. /\ pending[t] \in MT!Starts \ expired /\ idOf[pending[t]] = t
      /\ pending[t] # Nobody
  BY DEF OwnEntries, MT!Expire
<1>3. TimerTypes'
  <2>1. pending' \in [Timers -> Nat \cup {Nobody}]
    BY <1>1 DEF TimerTypes
  <2>. QED  BY <1>1, <1>2, <2>1 DEF TimerTypes
<1>4. ASSUME NEW u \in Timers, pending'[u] # Nobody
      PROVE  pending'[u] \in MT!Starts' \ expired' /\ idOf'[pending'[u]] = u
  <2>1. u # t /\ pending'[u] = pending[u]
    BY <1>1, <1>4 DEF TimerTypes
  <2>2. pending[u] \in MT!Starts \ expired /\ idOf[pending[u]] = u
    BY <2>1, <1>4 DEF OwnEntries
  <2>. QED  BY <1>1, <1>2, <2>1, <2>2
<1>5. ASSUME NEW d \in Callers, pc'[d] = "add"
      PROVE  /\ id'[d] \in Timers /\ pending'[id'[d]] = Nobody
             /\ entry'[d] \in MT!Starts' \ expired'
             /\ idOf'[entry'[d]] = id'[d]
  <2>1. /\ id[d] \in Timers /\ pending[id[d]] = Nobody
        /\ entry[d] \in MT!Starts \ expired /\ idOf[entry[d]] = id[d]
    BY <1>1, <1>5 DEF OwnEntries
  <2>2. id[d] # t
    BY <1>2, <2>1
  <2>3. entry[d] # pending[t]
    BY <1>2, <2>1, <2>2
  <2>. QED  BY <1>1, <2>1, <2>2, <2>3 DEF TimerTypes
<1>6. ASSUME NEW d \in Callers, NEW e \in Callers,
             pc'[d] = "add", pc'[e] = "add", id'[d] = id'[e]
      PROVE  d = e
  BY <1>1, <1>6 DEF OwnEntries
<1>. QED  BY <1>3, <1>4, <1>5, <1>6 DEF OwnEntries

\* The actions of one caller that start no entry and expire none.
LEMMA OtherSteps ==
    ASSUME TimerTypes, OwnEntries, NEW c \in Callers,
           \/ MT!misc_open(c) \/ MT!RemoveEntry(c) \/ MT!Read(c)
           \/ MT!Signal(c) \/ MT!Count(c) \/ MT!Take(c) \/ MT!misc_close(c)
           \/ MT!list_empty(c) \/ MT!First(c) \/ MT!list_del_init(c)
           \/ MT!Free(c) \/ \E t \in Timers : MT!MULT_TIME_STOP(c, t)
    PROVE  TimerTypes' /\ OwnEntries'
<1> DEFINE Places == {"closed", "open", "add", "remove", "count", "take",
                      "empty?", "first", "delete", "free"}
<1>1. idOf' = idOf /\ expired' = expired /\ MT!Starts' = MT!Starts
      /\ firing' = firing
  BY DEF MT!misc_open, MT!RemoveEntry, MT!Read, MT!Signal, MT!Count, MT!Take,
         MT!misc_close, MT!list_empty, MT!First, MT!list_del_init, MT!Free,
         MT!MULT_TIME_STOP, MT!list, MT!timers, MT!Starts
<1>2. \E p \in Places \ {"add"} : pc' = [pc EXCEPT ![c] = p]
  BY DEF MT!misc_open, MT!RemoveEntry, MT!Read, MT!Signal, MT!Count, MT!Take,
         MT!misc_close, MT!list_empty, MT!First, MT!list_del_init, MT!Free,
         MT!MULT_TIME_STOP, MT!Goes, MT!Returns
<1>3. \/ pending' = pending \/ pending' = [t \in Timers |-> Nobody]
      \/ \E t \in Timers : pending' = [pending EXCEPT ![t] = Nobody]
  BY DEF MT!misc_open, MT!RemoveEntry, MT!Read, MT!Signal, MT!Count, MT!Take,
         MT!misc_close, MT!list_empty, MT!First, MT!list_del_init, MT!Free,
         MT!MULT_TIME_STOP, MT!timers
<1>4. /\ pending' \in [Timers -> Nat \cup {Nobody}]
      /\ \A t \in Timers : pending'[t] \in {pending[t], Nobody}
  BY <1>3 DEF TimerTypes
<1>5. /\ timer_list_head' \in Seq(Nat) /\ NewestFirst(timer_list_head')
      /\ Entries(timer_list_head') \subseteq Entries(timer_list_head)
  <2>1. CASE MT!Take(c) /\ timer_list_head # <<>>
    BY <2>1, OldestTaken DEF MT!Take, TimerTypes
  <2>2. CASE MT!RemoveEntry(c)
    BY <2>2, ListDeleted DEF MT!RemoveEntry, TimerTypes
  <2>3. CASE MT!list_del_init(c)
    BY <2>3, ListDeleted DEF MT!list_del_init, TimerTypes
  <2>4. CASE timer_list_head' = timer_list_head
    BY <2>4 DEF TimerTypes
  <2>5. \/ timer_list_head' = timer_list_head
        \/ MT!RemoveEntry(c) \/ MT!list_del_init(c)
        \/ MT!Take(c) /\ timer_list_head # <<>>
    BY DEF MT!misc_open, MT!Read, MT!Signal, MT!Count, MT!Take,
           MT!misc_close, MT!list_empty, MT!First, MT!Free,
           MT!MULT_TIME_STOP, MT!list
  <2>. QED  BY <2>1, <2>2, <2>3, <2>4, <2>5
<1>6. \/ id' = id
      \/ \E v \in Timers \cup {Nobody} : id' = [id EXCEPT ![c] = v]
  BY DEF MT!misc_open, MT!RemoveEntry, MT!Read, MT!Signal, MT!Count, MT!Take,
         MT!misc_close, MT!list_empty, MT!First, MT!list_del_init, MT!Free,
         MT!MULT_TIME_STOP, MT!Returns
<1>7. \/ entry' = entry
      \/ \E v \in Nat \cup {Nobody} : entry' = [entry EXCEPT ![c] = v]
  <2>1. CASE MT!First(c)
    <3>1. timer_list_head # <<>> => Head(timer_list_head) \in Nat
      BY DEF TimerTypes
    <3>. QED  BY <2>1, <3>1 DEF MT!First
  <2>2. CASE ~MT!First(c)
    BY <2>2
    DEF MT!misc_open, MT!RemoveEntry, MT!Read, MT!Signal, MT!Count, MT!Take,
        MT!misc_close, MT!list_empty, MT!list_del_init, MT!Free,
        MT!MULT_TIME_STOP, MT!Returns
  <2>. QED  BY <2>1, <2>2
<1>8. timer_status' \in Nat
  <2>1. timer_status \in Nat
    BY DEF TimerTypes
  <2>2. timer_status' = timer_status \/ MT!Count(c)
    BY DEF MT!misc_open, MT!RemoveEntry, MT!Read, MT!Signal, MT!Take,
           MT!misc_close, MT!list_empty, MT!First, MT!list_del_init, MT!Free,
           MT!MULT_TIME_STOP, MT!timers
  <2>. QED  BY <2>1, <2>2 DEF MT!Count
<1>9. TimerTypes'
  <2>1. pc' \in [Callers -> Places]
    BY <1>2 DEF TimerTypes
  <2>2. id' \in [Callers -> Timers \cup {Nobody}]
    BY <1>6 DEF TimerTypes
  <2>3. entry' \in [Callers -> Nat \cup {Nobody}]
    BY <1>7 DEF TimerTypes
  <2>. QED  BY <1>1, <1>4, <1>5, <1>8, <2>1, <2>2, <2>3 DEF TimerTypes
<1>10. \A d \in Callers : pc'[d] = "add" =>
           pc[d] = "add" /\ id'[d] = id[d] /\ entry'[d] = entry[d]
  <2> TAKE d \in Callers
  <2> HAVE pc'[d] = "add"
  <2>1. d # c /\ pc[d] = "add"
    BY <1>2 DEF TimerTypes
  <2>. QED  BY <1>6, <1>7, <2>1 DEF TimerTypes
<1>. QED  BY <1>1, <1>4, <1>9, <1>10, OwnKept

LEMMA ProcessStep ==
    ASSUME TimerTypes, OwnEntries, NEW e, MT!mult_timer_process(e)
    PROVE  TimerTypes' /\ OwnEntries'
BY DEF TimerTypes, OwnEntries, MT!mult_timer_process, MT!list, MT!caller,
       MT!history, MT!Starts

LEMMA TypesStep ==
    ASSUME TimerTypes, OwnEntries, MT!Next
    PROVE  TimerTypes' /\ OwnEntries'
BY StartStep, AddStep, ExpireStep, OtherSteps, ProcessStep DEF MT!Next

\* The sets that CountFits compares are finite.
LEMMA CountsAreFinite ==
    ASSUME TimerTypes
    PROVE  /\ IsFiniteSet(MT!OnList \cap expired) /\ IsFiniteSet(firing)
           /\ IsFiniteSet(Takers)
           /\ Cardinality(MT!OnList \cap expired) \in Nat
           /\ Cardinality(firing) \in Nat /\ Cardinality(Takers) \in Nat
<1>1. IsFiniteSet(1..Len(idOf))
  BY FS_Interval, StartsAre DEF TimerTypes
<1>2. /\ MT!OnList \cap expired \subseteq 1..Len(idOf)
      /\ firing \subseteq 1..Len(idOf)
  BY StartsAre, ListedAre DEF TimerTypes
<1>3. Takers \subseteq Callers
  BY DEF Takers
<1>4. IsFiniteSet(MT!OnList \cap expired) /\ IsFiniteSet(firing)
      /\ IsFiniteSet(Takers)
  BY <1>1, <1>2, <1>3, TimersAssumption, FS_Subset
<1>. QED  BY <1>4, FS_CardinalityType

\* Who comes to take an entry, and who has taken one.
LEMMA TakersAre ==
    ASSUME TimerTypes, NEW c \in Callers, NEW p,
           pc' = [pc EXCEPT ![c] = p]
    PROVE  Takers' = IF p = "take" THEN Takers \cup {c} ELSE Takers \ {c}
BY DEF Takers, TimerTypes

\* Most actions change nothing that CountFits speaks of.
LEMMA CountKept ==
    ASSUME CountFits, odd' = {} => odd = {}, wrong' = wrong,
           MT!OnList' = MT!OnList, expired' = expired, firing' = firing,
           timer_status' = timer_status, Takers' = Takers
    PROVE  CountFits'
BY DEF CountFits

LEMMA OddStays ==
    ASSUME MT!Next, odd' = {}
    PROVE  odd = {}
BY DEF MT!Next, MT!MULT_TIME_START, MT!MULT_TIME_STOP, MT!misc_open,
       MT!add_timer, MT!RemoveEntry, MT!Read, MT!Signal, MT!Count, MT!Take,
       MT!misc_close, MT!list_empty, MT!First, MT!list_del_init, MT!Free,
       MT!Expire, MT!mult_timer_process, MT!history, MT!Sharing, MT!Stale

\* A new entry is younger than the expired ones.
LEMMA CountStart ==
    ASSUME TimerInv, NEW c \in Callers, NEW t \in Timers,
           MT!MULT_TIME_START(c, t)
    PROVE  CountFits'
<1>1. /\ MT!OnList' = MT!OnList \cup {Len(idOf) + 1}
      /\ Len(idOf) + 1 \notin expired
      /\ \A e \in MT!OnList \cup expired : e < Len(idOf) + 1
  BY StartStep DEF TimerInv
<1>2. /\ expired' = expired /\ firing' = firing /\ wrong' = wrong
      /\ timer_status' = timer_status /\ odd' = odd
      /\ pc' = [pc EXCEPT ![c] = "add"] /\ c \notin Takers
  BY DEF MT!MULT_TIME_START, MT!timers, MT!history, MT!Goes, Takers
<1>3. Takers' = Takers
  <2>1. TimerTypes /\ "add" # "take"
    BY DEF TimerInv
  <2>2. Takers' = Takers \ {c}
    BY <1>2, <2>1, TakersAre, Zenon
  <2>. QED  BY <1>2, <2>2
<1>4. MT!OnList' \cap expired' = MT!OnList \cap expired
  BY <1>1, <1>2
<1>5. odd = {} => \A e \in MT!OnList' \cap expired', d \in MT!OnList' \ expired' :
                      e < d
  BY <1>1, <1>2, <1>4 DEF TimerInv, CountFits
<1>. QED  BY <1>2, <1>3, <1>4, <1>5 DEF TimerInv, CountFits

\* An entry that a stop or a close takes off has not expired.
LEMMA CountRemoval ==
    ASSUME TimerInv, NEW c \in Callers,
           MT!RemoveEntry(c) \/ MT!list_del_init(c)
    PROVE  CountFits'
<1>1. \E e : odd' = MT!Stale(e) /\ MT!ListDel(e)
  BY DEF MT!RemoveEntry, MT!list_del_init
<1>2. PICK e : odd' = MT!Stale(e) /\ MT!ListDel(e)
  BY <1>1
<1>3. MT!OnList' = Entries(timer_list_head')
  BY DEF MT!OnList, MT!ToSet, Entries
<1>4. MT!OnList' = MT!OnList \ {e}
  BY <1>2, <1>3, ListDeleted, ListedAre DEF TimerInv, TimerTypes
<1>5. odd' = {} => odd = {} /\ e \notin expired
  BY <1>2 DEF MT!Stale
<1>6. /\ expired' = expired /\ firing' = firing /\ wrong' = wrong
      /\ timer_status' = timer_status /\ c \notin Takers
      /\ \E p \in {"open", "free"} : pc' = [pc EXCEPT ![c] = p]
  BY DEF MT!RemoveEntry, MT!list_del_init, MT!timers, MT!Returns, MT!Goes,
         Takers
<1>7. Takers' = Takers
  <2>1. PICK p \in {"open", "free"} : pc' = [pc EXCEPT ![c] = p]
    BY <1>6
  <2>2. TimerTypes /\ p # "take"
    BY DEF TimerInv
  <2>3. Takers' = Takers \ {c}
    BY <2>1, <2>2, TakersAre, Zenon
  <2>. QED  BY <1>6, <2>3
<1>8. odd' = {} => MT!OnList' \cap expired' = MT!OnList \cap expired
  BY <1>4, <1>5, <1>6
<1>9. odd' = {} => \A d \in MT!OnList' \cap expired', f \in MT!OnList' \ expired' :
                       d < f
  BY <1>4, <1>5, <1>6 DEF TimerInv, CountFits
<1>. QED  BY <1>5, <1>6, <1>7, <1>8, <1>9 DEF TimerInv, CountFits

\* A timer that expires is the oldest still to do so, and is on the list.
LEMMA CountExpire ==
    ASSUME TimerInv, NEW t \in Timers, MT!Expire(t)
    PROVE  CountFits'
<1> SUFFICES ASSUME odd' = {}
             PROVE  /\ Cardinality(MT!OnList' \cap expired') =
                          timer_status' + Cardinality(firing')
                              + Cardinality(Takers')
                    /\ \A e \in MT!OnList' \cap expired',
                          d \in MT!OnList' \ expired' : e < d
                    /\ ~wrong'
  BY DEF CountFits
<1> DEFINE p == pending[t]
<1>1. /\ odd = {} /\ p \in MT!OnList
      /\ \A e \in MT!OnList \ expired : ~(e < p)
  BY DEF MT!Expire
<1>2. p \in MT!Starts \ expired
  BY DEF TimerInv, OwnEntries, MT!Expire
<1>3. /\ firing' = firing \cup {p} /\ expired' = expired \cup {p}
      /\ wrong' = wrong /\ timer_status' = timer_status
      /\ MT!OnList' = MT!OnList /\ Takers' = Takers
  BY DEF MT!Expire, MT!list, MT!caller, MT!OnList, Takers
<1>4. MT!OnList' \cap expired' = (MT!OnList \cap expired) \cup {p}
      /\ p \notin MT!OnList \cap expired /\ p \notin firing
  BY <1>1, <1>2, <1>3 DEF TimerInv, TimerTypes
<1>5. /\ Cardinality(MT!OnList' \cap expired') =
             Cardinality(MT!OnList \cap expired) + 1
      /\ Cardinality(firing') = Cardinality(firing) + 1
  BY <1>3, <1>4, CountsAreFinite, FS_AddElement DEF TimerInv
<1>6. ASSUME NEW e \in MT!OnList' \cap expired',
             NEW d \in MT!OnList' \ expired'
      PROVE  e < d
  <2>1. d \in MT!OnList \ expired /\ d # p /\ ~(d < p)
    BY <1>1, <1>3
  <2>2. d \in Nat /\ p \in Nat
    BY <1>2, <2>1, ListedAre, StartsAre DEF TimerInv, TimerTypes
  <2>3. e = p \/ e \in MT!OnList \cap expired
    BY <1>3
  <2>. QED  BY <1>1, <2>1, <2>2, <2>3 DEF TimerInv, CountFits
<1>. QED
  BY <1>1, <1>3, <1>5, <1>6, CountsAreFinite
  DEF TimerInv, CountFits, TimerTypes

LEMMA CountProcess ==
    ASSUME TimerInv, NEW e, MT!mult_timer_process(e)
    PROVE  CountFits'
<1>1. /\ e \in firing /\ firing' = firing \ {e} /\ expired' = expired
      /\ wrong' = wrong /\ timer_status' = timer_status + 1
      /\ MT!OnList' = MT!OnList /\ Takers' = Takers /\ odd' = odd
  BY DEF MT!mult_timer_process, MT!list, MT!caller, MT!history, MT!OnList,
         Takers
<1>2. Cardinality(firing') = Cardinality(firing) - 1
  BY <1>1, CountsAreFinite, FS_RemoveElement DEF TimerInv
<1>. QED
  BY <1>1, <1>2, CountsAreFinite DEF TimerInv, CountFits, TimerTypes

LEMMA CountCount ==
    ASSUME TimerInv, NEW c \in Callers, MT!Count(c)
    PROVE  CountFits'
<1>1. /\ expired' = expired /\ firing' = firing /\ wrong' = wrong
      /\ MT!OnList' = MT!OnList /\ c \notin Takers
      /\ pc' = [pc EXCEPT ![c] = "take"]
  BY DEF MT!Count, MT!list, MT!Goes, MT!OnList, Takers
<1>2. odd' = {} => odd = {} /\ timer_status # 0
  BY DEF MT!Count
<1>3. odd' = {} => timer_status' = timer_status - 1
  BY <1>2 DEF MT!Count, TimerInv, TimerTypes
<1>4. Takers' = Takers \cup {c}
  BY <1>1, TakersAre DEF TimerInv
<1>5. Cardinality(Takers') = Cardinality(Takers) + 1
  BY <1>1, <1>4, CountsAreFinite, FS_AddElement DEF TimerInv
<1>. QED
  BY <1>1, <1>2, <1>3, <1>5, CountsAreFinite DEF TimerInv, CountFits, TimerTypes

\* The entry a reader takes is an expired one.
LEMMA CountTake ==
    ASSUME TimerInv, NEW c \in Callers, MT!Take(c)
    PROVE  CountFits'
<1> SUFFICES ASSUME odd' = {}
             PROVE  /\ Cardinality(MT!OnList' \cap expired') =
                          timer_status' + Cardinality(firing')
                              + Cardinality(Takers')
                    /\ \A e \in MT!OnList' \cap expired',
                          d \in MT!OnList' \ expired' : e < d
                    /\ ~wrong'
  BY DEF CountFits
<1>1. /\ expired' = expired /\ firing' = firing /\ odd = {}
      /\ timer_status' = timer_status /\ c \in Takers
      /\ pc' = [pc EXCEPT ![c] = "open"]
  BY DEF MT!Take, MT!timers, MT!Goes, Takers
<1>2. Takers' = Takers \ {c}
  <2>1. TimerTypes /\ "open" # "take"
    BY DEF TimerInv
  <2>. QED  BY <1>1, <2>1, TakersAre, Zenon
<1>3. /\ Cardinality(Takers') = Cardinality(Takers) - 1
      /\ Cardinality(Takers) # 0
  BY <1>1, <1>2, CountsAreFinite, FS_RemoveElement, FS_EmptySet DEF TimerInv
<1>4. Cardinality(MT!OnList \cap expired) # 0
  BY <1>1, <1>3, CountsAreFinite DEF TimerInv, CountFits, TimerTypes
<1>5. PICK e \in MT!OnList : e \in expired
  BY <1>4, FS_EmptySet
<1>6. timer_list_head # <<>>
  BY <1>5, ListedAre DEF Entries
<1> DEFINE o == MT!Last(timer_list_head)
<1>7. /\ o \in MT!OnList /\ \A d \in MT!OnList : o <= d
      /\ Entries(MT!Front(timer_list_head)) = MT!OnList \ {o}
  BY <1>6, OldestTaken, ListedAre DEF TimerInv, TimerTypes
<1>8. o \in expired
  <2>1. SUFFICES ASSUME o \notin expired PROVE FALSE
    OBVIOUS
  <2>2. e < o
    BY <1>1, <1>5, <1>7, <2>1 DEF TimerInv, CountFits
  <2>3. o <= e /\ o \in Nat /\ e \in Nat
    BY <1>5, <1>7, ListedAre, StartsAre DEF TimerInv, TimerTypes
  <2>. QED  BY <2>2, <2>3
<1>9. ~wrong' /\ timer_list_head' = MT!Front(timer_list_head)
  BY <1>1, <1>6, <1>8 DEF MT!Take, TimerInv, CountFits
<1>10. MT!OnList' = MT!OnList \ {o}
  BY <1>7, <1>9 DEF MT!OnList, MT!ToSet, Entries
<1>11. MT!OnList' \cap expired' = (MT!OnList \cap expired) \ {o}
       /\ MT!OnList' \ expired' = MT!OnList \ expired
       /\ o \in MT!OnList \cap expired
  BY <1>1, <1>7, <1>8, <1>10
<1>12. Cardinality(MT!OnList' \cap expired') =
           Cardinality(MT!OnList \cap expired) - 1
  <2> DEFINE due == MT!OnList \cap expired
  <2>1. IsFiniteSet(due)
    BY CountsAreFinite DEF TimerInv
  <2>2. o \in due /\ MT!OnList' \cap expired' = due \ {o}
    BY <1>11, Zenon
  <2> HIDE DEF due, o
  <2>3. Cardinality(due \ {o}) = Cardinality(due) - 1
    BY <2>1, <2>2, FS_RemoveElement
  <2>. QED  BY <2>2, <2>3, Zenon DEF due
<1>. QED
  BY <1>1, <1>3, <1>9, <1>11, <1>12, CountsAreFinite
  DEF TimerInv, CountFits, TimerTypes

LEMMA TimersStepInv ==
    ASSUME TimerInv, MT!Next
    PROVE  TimerInv'
<1>1. TimerTypes' /\ OwnEntries'
  BY TypesStep DEF TimerInv
<1>2. ASSUME NEW c \in Callers,
             \/ MT!misc_open(c) \/ MT!add_timer(c) \/ MT!Read(c)
             \/ MT!Signal(c) \/ MT!misc_close(c) \/ MT!list_empty(c)
             \/ MT!First(c) \/ MT!Free(c)
             \/ \E t \in Timers : MT!MULT_TIME_STOP(c, t)
      PROVE  CountFits'
  <2>1. /\ timer_list_head' = timer_list_head /\ expired' = expired
        /\ firing' = firing /\ timer_status' = timer_status
        /\ wrong' = wrong /\ pc[c] # "take"
    BY <1>2
    DEF MT!misc_open, MT!add_timer, MT!Read, MT!Signal, MT!misc_close,
        MT!list_empty, MT!First, MT!Free, MT!MULT_TIME_STOP, MT!list,
        MT!timers, MT!history
  <2>2. \E p : p # "take" /\ pc' = [pc EXCEPT ![c] = p]
    BY <1>2
    DEF MT!misc_open, MT!add_timer, MT!Read, MT!Signal, MT!misc_close,
        MT!list_empty, MT!First, MT!Free, MT!MULT_TIME_STOP, MT!Goes,
        MT!Returns
  <2>3. Takers' = Takers
    BY <2>1, <2>2, TakersAre DEF TimerInv, Takers
  <2>4. MT!OnList' = MT!OnList
    BY <2>1 DEF MT!OnList
  <2>. QED  BY <2>1, <2>3, <2>4, OddStays, CountKept DEF TimerInv
<1>3. CountFits'
  BY <1>2, CountStart, CountRemoval, CountExpire, CountProcess, CountCount,
     CountTake
  DEF MT!Next
<1>. QED  BY <1>1, <1>3 DEF TimerInv

-----------------------------------------------------------------------------
(* The clock: what is written can be read. *)

LEMMA Bcd ==
    ASSUME NEW v \in 0..99
    PROVE  RX!bcd2bin(RX!bin2bcd(v)) = v
BY DEF RX!bin2bcd, RX!bcd2bin

\* Where a field leaves its register's upper bits free.
Short == 0..79
LowBytes == 0..127
LEMMA BcdIsShort ==
    /\ \A v \in Short : RX!bin2bcd(v) \in LowBytes
    /\ \A v \in 0..23 : RX!bin2bcd(v) \in 0..63
BY DEF RX!bin2bcd, Short, LowBytes

\* A year counted from 1900 is its last two digits and its century.
Digits(y) == y % 100
Century(y) == (y + 1900) \div 100

LEMMA YearParts ==
    ASSUME NEW y \in Years
    PROVE  /\ Digits(y) \in 0..99 /\ Century(y) \in 0..99
           /\ Digits(y) + Century(y) * 100 - 1900 = y
           /\ y < 200 => Century(y) \in 19..20
<1>1. Digits(y) \in 0..99
  BY DEF Digits, Years
<1>2. Century(y) \in 0..99
  BY DEF Century, Years
<1>3. y = 100 * (y \div 100) + Digits(y)
  BY DEF Digits, Years
<1>4. /\ Century(y) = (y \div 100) + 19 /\ y \div 100 \in Int
      /\ y \in Int
  BY DEF Century, Years
<1>5. ASSUME y < 200 PROVE Century(y) \in 19..20
  BY <1>5 DEF Century, Years
<1>. QED  BY <1>1, <1>2, <1>3, <1>4, <1>5

LEMMA ClockReadsBack ==
    ASSUME NEW tm \in AllTimes
    PROVE  RX!x1226_get_datetime(RX!ClockRegisters(tm)) = tm
<1> DEFINE y == Digits(tm.year)
           c == Century(tm.year)
<1>1. y \in 0..99 /\ c \in 0..99 /\ y + c * 100 - 1900 = tm.year
  <2>1. tm.year \in Years
    BY DEF AllTimes
  <2>2. /\ Digits(tm.year) \in 0..99 /\ Century(tm.year) \in 0..99
        /\ Digits(tm.year) + Century(tm.year) * 100 - 1900 = tm.year
    BY <2>1, YearParts
  <2>. QED  BY <2>2
<1>2. /\ RX!bcd2bin(RX!bin2bcd(tm.sec)) = tm.sec
      /\ RX!bcd2bin(RX!bin2bcd(tm.min)) = tm.min
      /\ RX!bcd2bin(RX!bin2bcd(tm.mday)) = tm.mday
      /\ RX!bcd2bin(RX!bin2bcd(tm.mon + 1)) - 1 = tm.mon
      /\ RX!bcd2bin(RX!bin2bcd(y)) = y
      /\ RX!bcd2bin(RX!bin2bcd(c)) = c
  <2>1. tm.sec \in 0..99 /\ tm.min \in 0..99 /\ tm.mday \in 0..99
    BY DEF AllTimes
  <2>2. tm.mon \in Int /\ tm.mon + 1 \in 0..99
    BY DEF AllTimes
  <2>3. RX!bcd2bin(RX!bin2bcd(tm.mon + 1)) = tm.mon + 1
    BY <2>2, Bcd, Zenon
  <2>4. /\ RX!bcd2bin(RX!bin2bcd(tm.sec)) = tm.sec
        /\ RX!bcd2bin(RX!bin2bcd(tm.min)) = tm.min
        /\ RX!bcd2bin(RX!bin2bcd(tm.mday)) = tm.mday
    BY <2>1, Bcd, Zenon
  <2> HIDE DEF y, c
  <2>5. /\ RX!bcd2bin(RX!bin2bcd(y)) = y
        /\ RX!bcd2bin(RX!bin2bcd(c)) = c
    <3>1. y \in 0..99
      BY <1>1
    <3>2. c \in 0..99
      BY <1>1
    <3>. QED  BY <3>1, <3>2, Bcd, Zenon
  <2>. QED  BY <2>2, <2>3, <2>4, <2>5
<1>3. RX!bcd2bin(RX!HighBit(RX!bin2bcd(tm.hour)) % 64) = tm.hour
  <2>1. tm.hour \in 0..99 /\ tm.hour \in 0..23
    BY DEF AllTimes
  <2>2. /\ RX!bin2bcd(tm.hour) \in 0..63
        /\ RX!bcd2bin(RX!bin2bcd(tm.hour)) = tm.hour
    BY <2>1, Bcd, BcdIsShort
  <2>3. RX!HighBit(RX!bin2bcd(tm.hour)) % 64 = RX!bin2bcd(tm.hour)
    BY <2>2 DEF RX!HighBit
  <2>. QED  BY <2>2, <2>3
<1>4. tm.wday % 8 = tm.wday
  BY DEF AllTimes
<1> HIDE DEF y, c
<1>5. RX!x1226_get_datetime(RX!ClockRegisters(tm)) =
          [sec |-> tm.sec, min |-> tm.min, hour |-> tm.hour,
           mday |-> tm.mday, mon |-> tm.mon, year |-> tm.year,
           wday |-> tm.wday]
  BY <1>1, <1>2, <1>3, <1>4
  DEF RX!x1226_get_datetime, RX!ClockRegisters, y, c, Digits, Century
<1>6. tm = [sec |-> tm.sec, min |-> tm.min, hour |-> tm.hour,
            mday |-> tm.mday, mon |-> tm.mon, year |-> tm.year,
            wday |-> tm.wday]
  BY DEF AllTimes
<1>. QED  BY <1>5, <1>6

\* The alarm's registers without their enable bits are the clock's.
LEMMA AlarmReadsBack ==
    ASSUME NEW tm \in AllTimes
    PROVE  RX!x1226_rtc_read_alarm(RX!AlarmRegisters(tm)) = tm
<1> DEFINE a == RX!AlarmRegisters(tm)
           r == RX!ClockRegisters(tm)
           buf == [f \in RX!Fields |->
                      IF f \in RX!Compared THEN a[f] % 128 ELSE a[f]]
<1>1. /\ r.sec \in 0..127 /\ r.min \in 0..127 /\ r.mday \in 0..127
      /\ r.month \in 0..127
  <2>1. tm.sec \in Short /\ tm.min \in Short /\ tm.mday \in Short
    BY DEF AllTimes, Short
  <2>3. tm.mon + 1 \in Short
    BY DEF AllTimes, Short
  <2>2. /\ r.sec = RX!bin2bcd(tm.sec) /\ r.min = RX!bin2bcd(tm.min)
        /\ r.mday = RX!bin2bcd(tm.mday) /\ r.month = RX!bin2bcd(tm.mon + 1)
    BY DEF RX!ClockRegisters
  <2> HIDE DEF r
  <2>4. \A v \in Short : RX!bin2bcd(v) \in LowBytes
    BY BcdIsShort, Zenon
  <2>5. r.month \in LowBytes
    BY <2>2, <2>3, <2>4, Zenon
  <2>6. r.sec \in LowBytes /\ r.min \in LowBytes /\ r.mday \in LowBytes
    BY <2>1, <2>2, <2>4, Zenon
  <2>. QED  BY <2>5, <2>6, Zenon DEF LowBytes
<1>2. /\ r.hour \in 128..191 /\ r.hour = RX!HighBit(RX!bin2bcd(tm.hour))
  <2>1. tm.hour \in 0..99 /\ tm.hour \in 0..23
    BY DEF AllTimes
  <2>2. RX!bin2bcd(tm.hour) \in 0..63
    BY <2>1, BcdIsShort
  <2>. QED  BY <2>2 DEF RX!ClockRegisters, RX!HighBit
<1>3. DOMAIN r = RX!Fields
  BY DEF RX!ClockRegisters, RX!Fields
<1>4. /\ buf.sec = r.sec /\ buf.min = r.min /\ buf.mday = r.mday
      /\ buf.month = r.month /\ buf.hour = r.hour - 128
      /\ buf.year = r.year /\ buf.wday = r.wday /\ buf.y2k = r.y2k
  <2>1. \A f \in RX!Fields : a[f] =
            IF f \in RX!Compared THEN RX!HighBit(r[f]) ELSE r[f]
    BY DEF RX!AlarmRegisters
  <2>2. \A v \in 0..127 : RX!HighBit(v) % 128 = v
    BY DEF RX!HighBit
  <2>3. \A v \in 128..191 : RX!HighBit(v) % 128 = v - 128
    BY DEF RX!HighBit
  <2> HIDE DEF a, r
  <2>. QED  BY <1>1, <1>2, <2>1, <2>2, <2>3 DEF RX!Fields, RX!Compared
<1>5. (r.hour - 128) % 64 = r.hour % 64
  BY <1>2
<1>6. RX!x1226_get_datetime(buf) = RX!x1226_get_datetime(r)
  <2> HIDE DEF buf, r
  <2>. QED  BY <1>4, <1>5 DEF RX!x1226_get_datetime
<1>. QED  BY <1>6, ClockReadsBack DEF RX!x1226_rtc_read_alarm

\* A time before 2100 is one the probe accepts.
LEMMA ProbeAccepts ==
    ASSUME NEW tm \in AllTimes, tm.year < 200
    PROVE  RX!x1226_validate_client(RX!ClockRegisters(tm))
<1> DEFINE y == Digits(tm.year)
           c == Century(tm.year)
           r == RX!ClockRegisters(tm)
<1>1. y \in 0..99 /\ c \in 19..20 /\ tm.wday % 8 \in 0..6
  <2>1. tm.year \in Years /\ tm.wday \in 0..6
    BY DEF AllTimes
  <2>2. y \in 0..99 /\ c \in 19..20
    BY <2>1, YearParts
  <2>. QED  BY <2>1, <2>2
<1>2. /\ RX!bcd2bin(r.y2k) = c /\ RX!bcd2bin(r.year) = y
      /\ RX!bcd2bin(r.month) = tm.mon + 1 /\ RX!bcd2bin(r.mday) = tm.mday
      /\ RX!bcd2bin(r.min) = tm.min /\ RX!bcd2bin(r.sec) = tm.sec
  <2>1. /\ tm.sec \in 0..99 /\ tm.min \in 0..99 /\ tm.mday \in 0..99
        /\ tm.mon + 1 \in 0..99 /\ c \in 0..99
    BY <1>1 DEF AllTimes
  <2>2. /\ r.y2k = RX!bin2bcd(c) /\ r.year = RX!bin2bcd(y)
        /\ r.month = RX!bin2bcd(tm.mon + 1) /\ r.mday = RX!bin2bcd(tm.mday)
        /\ r.min = RX!bin2bcd(tm.min) /\ r.sec = RX!bin2bcd(tm.sec)
    BY DEF RX!ClockRegisters, Digits, Century
  <2> HIDE DEF y, c, r
  <2>. QED  BY <1>1, <2>1, <2>2, Bcd
<1>3. RX!bcd2bin(r.hour % 128) = tm.hour
  <2>1. tm.hour \in 0..99 /\ tm.hour \in 0..23
    BY DEF AllTimes
  <2>2. /\ RX!bin2bcd(tm.hour) \in 0..63
        /\ RX!bcd2bin(RX!bin2bcd(tm.hour)) = tm.hour
    BY <2>1, Bcd, BcdIsShort
  <2>3. RX!HighBit(RX!bin2bcd(tm.hour)) % 128 = RX!bin2bcd(tm.hour)
    BY <2>2 DEF RX!HighBit
  <2>. QED  BY <2>2, <2>3 DEF RX!ClockRegisters
<1>4. /\ tm.sec \in 0..59 /\ tm.min \in 0..59 /\ tm.hour \in 0..23
      /\ tm.mday \in 0..31 /\ tm.mon + 1 \in 0..12
  BY DEF AllTimes
<1>5. r.wday = tm.wday % 8
  BY DEF RX!ClockRegisters
<1> HIDE DEF y, c, r
<1>6. RX!x1226_validate_client(r)
  BY <1>1, <1>2, <1>3, <1>4, <1>5 DEF RX!x1226_validate_client
<1>. QED  BY <1>6 DEF r

LEMMA DigitalReadsBack ==
    ASSUME NEW ppm \in Int, RX!x1226_set_dtrim(ppm) >= 0
    PROVE  RX!x1226_get_dtrim(RX!x1226_set_dtrim(ppm)) = ppm
<1>1. ppm \in {-30, -20, -10, 0, 10, 20, 30}
  BY DEF RX!x1226_set_dtrim
<1>. QED  BY <1>1 DEF RX!x1226_set_dtrim, RX!x1226_get_dtrim

LEMMA RoundedIsStep ==
    ASSUME NEW fF \in Int
    PROVE  \E k \in 12..75 : RX!Rounded(fF) = k * 250
<1> DEFINE k == (fF + 125) \div 250
<1>1. k \in Int
  OBVIOUS
<1> HIDE DEF k
<1>2. CASE k * 250 > 18750
  BY <1>1, <1>2 DEF RX!Rounded, k
<1>3. CASE k * 250 < 3000
  BY <1>1, <1>3 DEF RX!Rounded, k
<1>4. CASE ~(k * 250 > 18750) /\ ~(k * 250 < 3000)
  <2>1. k \in 12..75
    BY <1>1, <1>4
  <2>2. RX!Rounded(fF) = k * 250
    BY <1>4 DEF RX!Rounded, k
  <2>. QED  BY <2>1, <2>2
<1>. QED  BY <1>2, <1>3, <1>4

LEMMA AnalogReadsBack ==
    ASSUME NEW k \in 12..75
    PROVE  RX!x1226_get_atrim(RX!x1226_set_atrim(k * 250)) = k * 250
<1>1. (k * 250 - 11000) \div 250 = k - 44
  OBVIOUS
<1>2. (k - 44) % 64 = IF k < 44 THEN k + 20 ELSE k - 44
  OBVIOUS
<1>3. RX!x1226_set_atrim(k * 250) = IF k < 44 THEN k + 20 ELSE k - 44
  BY <1>1, <1>2 DEF RX!x1226_set_atrim
<1>. QED  BY <1>3 DEF RX!x1226_get_atrim
-----------------------------------------------------------------------------
(* The clock: the registers hold what was asked for. *)

ChipFields == {"sr", "clock", "alarm", "al0e", "dtr", "atr", "rtcf"}
Trims == {ppm \in Int : RX!x1226_set_dtrim(ppm) >= 0}

Jobs(op, values, steps) ==
    [op : {op}, value : values, on : BOOLEAN, step : steps, crossed : BOOLEAN]
AllJobs == Jobs("none", {0}, {1}) \cup Jobs("clock", AllTimes, 1..4)
           \cup Jobs("alarm", AllTimes, 1..6) \cup Jobs("dtr", Trims, 1..4)
           \cup Jobs("atr", Int, 1..4)

ClockTypes ==
    /\ DOMAIN chip = ChipFields /\ chip.sr \subseteq {"WEL", "RWEL"}
    /\ job \in [RX!Tasks -> AllJobs]
    /\ DOMAIN asked = {"clock", "alarm", "al0e", "dtr", "atr"}
    /\ asked.clock \in AllTimes /\ asked.alarm \in AllTimes
    /\ asked.dtr \in Trims
    /\ \E k \in 12..75 : asked.atr = k * 250

Meaning ==
    /\ chip.clock = RX!ClockRegisters(asked.clock)
    /\ chip.alarm = RX!AlarmRegisters(asked.alarm)
    /\ chip.dtr = RX!x1226_set_dtrim(asked.dtr)
    /\ chip.atr = RX!x1226_set_atrim(asked.atr)

\* Where a sequence nobody crosses is: what is unlocked, what is stored.
AlarmStored(c, j) == c.alarm = RX!AlarmRegisters(j.value)
Progress(c, j) ==
    /\ j.step = 2 => c.sr = {"WEL"}
    /\ j.step = 3 => RX!Unlocked(c)
    /\ j.step = 4 => IF j.op = "alarm" THEN c.sr = {"WEL"} /\ AlarmStored(c, j)
                     ELSE RX!Stored(c, j)
    /\ j.step = 5 => RX!Unlocked(c) /\ AlarmStored(c, j)
    /\ j.step = 6 => AlarmStored(c, j) /\ c.al0e = j.on

Undisturbed ==
    \A t \in RX!Active : ~job[t].crossed =>
        RX!Active = {t} /\ Progress(chip, job[t])

ClockInv == ClockTypes /\ Meaning /\ Undisturbed /\ ~lost

LEMMA OfJobs ==
    ASSUME NEW j \in AllJobs
    PROVE  /\ j.op \in {"none", "clock", "alarm", "dtr", "atr"}
           /\ j.on \in BOOLEAN /\ j.crossed \in BOOLEAN /\ j.step \in 1..6
           /\ j.op # "alarm" => j.step \in 1..4
           /\ j.op \in {"clock", "alarm"} => j.value \in AllTimes
           /\ j.op = "dtr" => j.value \in Trims
           /\ j.op = "atr" => j.value \in Int
BY DEF AllJobs, Jobs

LEMMA IdleIsJob == RX!Idle \in AllJobs
BY DEF RX!Idle, AllJobs, Jobs

LEMMA CrossedIsJob ==
    ASSUME NEW j \in AllJobs
    PROVE  /\ [j EXCEPT !.crossed = TRUE] \in AllJobs
           /\ [j EXCEPT !.crossed = TRUE].op = j.op
           /\ [j EXCEPT !.crossed = TRUE].crossed = TRUE
<1>1. PICK op, values, steps :
          /\ j \in Jobs(op, values, steps)
          /\ Jobs(op, values, steps) \subseteq AllJobs
  BY DEF AllJobs
<1>. QED  BY <1>1 DEF Jobs

LEMMA NextIsJob ==
    ASSUME NEW j \in AllJobs, j.op # "none",
           j.step < 4 \/ (j.op = "alarm" /\ j.step < 6)
    PROVE  /\ [j EXCEPT !.step = @ + 1] \in AllJobs
           /\ [j EXCEPT !.step = @ + 1].step = j.step + 1
           /\ [j EXCEPT !.step = @ + 1].op = j.op
           /\ [j EXCEPT !.step = @ + 1].value = j.value
           /\ [j EXCEPT !.step = @ + 1].on = j.on
           /\ [j EXCEPT !.step = @ + 1].crossed = j.crossed
BY DEF AllJobs, Jobs

\* What a sequence sends.
LEMMA SendOrder ==
    ASSUME NEW op, NEW steps, steps = RX!x1226_set_datetime(op)
    PROVE  /\ steps[1] = "wel" /\ steps[2] = "rwel" /\ steps[3] = "data"
           /\ op # "alarm" => Len(steps) = 4 /\ steps[4] = "diswe"
           /\ op = "alarm" => /\ Len(steps) = 6 /\ steps[4] = "rwel"
                              /\ steps[5] = "al0e" /\ steps[6] = "diswe"
<1>1. CASE op = "alarm"
  <2>1. steps = RX!Unlock \o <<"rwel", "al0e", "diswe">>
    BY <1>1 DEF RX!x1226_set_datetime
  <2>. QED  BY <1>1, <2>1 DEF RX!Unlock
<1>2. CASE op # "alarm"
  <2>1. steps = RX!Unlock \o <<"diswe">>
    BY <1>2 DEF RX!x1226_set_datetime, RX!x1226_set_reg
  <2>. QED  BY <1>2, <2>1 DEF RX!Unlock
<1>. QED  BY <1>1, <1>2

LEMMA ClockInit == RX!Init => ClockInv
<1> SUFFICES ASSUME RX!Init PROVE ClockInv
  OBVIOUS
<1>1. RX!FirstTime \in AllTimes
  BY ClockAssumption DEF RX!FirstTime
<1>2. RX!x1226_set_dtrim(0) = 0 /\ 0 \in Trims
  BY DEF RX!x1226_set_dtrim, Trims
<1>3. RX!x1226_set_atrim(11000) = 0 /\ 11000 = 44 * 250
  BY DEF RX!x1226_set_atrim
<1>4. ClockTypes
  BY <1>1, <1>2, <1>3, IdleIsJob DEF RX!Init, ClockTypes, ChipFields
<1>5. Meaning
  BY <1>2, <1>3 DEF RX!Init, Meaning
<1>6. Undisturbed /\ ~lost
  BY DEF RX!Init, RX!Active, RX!Idle, Undisturbed
<1>. QED  BY <1>4, <1>5, <1>6 DEF ClockInv

\* A sequence begins: whoever is under way is crossed, and so is it then.
LEMMA BeginStep ==
    ASSUME ClockInv, NEW t \in RX!Tasks, NEW op, NEW value, NEW on,
           RX!Begin(t, op, value, on), op # "none",
           \A b \in BOOLEAN : [op |-> op, value |-> value, on |-> on,
                               step |-> 1, crossed |-> b] \in AllJobs
    PROVE  ClockInv'
<1> DEFINE begun == [op |-> op, value |-> value, on |-> on, step |-> 1,
                     crossed |-> RX!Active # {}]
<1>1. /\ job[t].op = "none"
      /\ job' = [u \in RX!Tasks |->
                    IF u = t THEN begun
                    ELSE IF u \in RX!Active
                    THEN [job[u] EXCEPT !.crossed = TRUE] ELSE job[u]]
      /\ chip' = chip /\ asked' = asked /\ lost' = lost
  BY DEF RX!Begin
<1>2. begun \in AllJobs /\ begun.op = op /\ begun.step = 1
      /\ begun.crossed = (RX!Active # {})
  OBVIOUS
<1> HIDE DEF begun
<1>3. \A u \in RX!Tasks : job[u] \in AllJobs
  BY DEF ClockInv, ClockTypes
<1>4. job' \in [RX!Tasks -> AllJobs]
  BY <1>1, <1>2, <1>3, CrossedIsJob
<1>5. ClockTypes' /\ Meaning' /\ ~lost'
  BY <1>1, <1>4 DEF ClockInv, ClockTypes, Meaning, ChipFields
<1>6. ASSUME NEW u \in RX!Active', ~job'[u].crossed
      PROVE  RX!Active' = {u} /\ Progress(chip', job'[u])
  <2>1. u \in RX!Tasks /\ job'[u].op # "none"
    BY DEF RX!Active, RX!Tasks
  <2>2. u = t
    <3> SUFFICES ASSUME u # t PROVE FALSE
      OBVIOUS
    <3>1. CASE u \in RX!Active
      BY <1>1, <1>3, <1>6, <2>1, <3>1, CrossedIsJob
    <3>2. CASE u \notin RX!Active
      BY <1>1, <2>1, <3>2 DEF RX!Active
    <3>. QED  BY <3>1, <3>2
  <2>3. RX!Active = {} /\ job'[u] = begun
    BY <1>1, <1>2, <1>6, <2>2
  <2>4. \A v \in RX!Tasks : v # t => job'[v].op = "none"
    BY <1>1, <2>3 DEF RX!Active
  <2>5. RX!Active' = {u}
    BY <2>1, <2>2, <2>4 DEF RX!Active, RX!Tasks
  <2>6. job'[u].step = 1
    BY <1>2, <2>3
  <2>. QED  BY <2>5, <2>6 DEF Progress
<1>. QED  BY <1>5, <1>6 DEF ClockInv, Undisturbed

\* Two records of the chip that differ in the status register only.
LEMMA SameStore ==
    ASSUME NEW c, NEW d, NEW j, NEW s, d = [c EXCEPT !.sr = s],
           DOMAIN c = ChipFields
    PROVE  /\ DOMAIN d = ChipFields /\ d.sr = s
           /\ d.clock = c.clock /\ d.alarm = c.alarm /\ d.al0e = c.al0e
           /\ d.dtr = c.dtr /\ d.atr = c.atr
           /\ RX!Stored(d, j) = RX!Stored(c, j)
<1>1. /\ DOMAIN d = ChipFields /\ d.sr = s
      /\ d.clock = c.clock /\ d.alarm = c.alarm /\ d.al0e = c.al0e
      /\ d.dtr = c.dtr /\ d.atr = c.atr
  BY DEF ChipFields
<1>. QED  BY <1>1 DEF RX!Stored

\* What the data transfer stores is what it is taken to mean.
LEMMA DataMeans ==
    ASSUME ClockInv, NEW j \in AllJobs, j.op # "none", RX!Unlocked(chip),
           NEW c, c = RX!Data(chip, j), NEW m, m = RX!Meant(chip, j, "data")
    PROVE  /\ DOMAIN c = ChipFields /\ c.sr \subseteq {"WEL", "RWEL"}
           /\ DOMAIN m = DOMAIN asked
           /\ m.clock \in AllTimes /\ m.alarm \in AllTimes
           /\ m.dtr \in Trims /\ \E k \in 12..75 : m.atr = k * 250
           /\ c.clock = RX!ClockRegisters(m.clock)
           /\ c.alarm = RX!AlarmRegisters(m.alarm)
           /\ c.dtr = RX!x1226_set_dtrim(m.dtr)
           /\ c.atr = RX!x1226_set_atrim(m.atr)
           /\ j.op = "alarm" =>
                  c.alarm = RX!AlarmRegisters(j.value) /\ c.sr = {"WEL"}
           /\ j.op # "alarm" => RX!Stored(c, j)
<1>1. /\ DOMAIN chip = ChipFields /\ chip.sr \subseteq {"WEL", "RWEL"}
      /\ DOMAIN asked = {"clock", "alarm", "al0e", "dtr", "atr"}
      /\ asked.clock \in AllTimes /\ asked.alarm \in AllTimes
      /\ asked.dtr \in Trims /\ \E k \in 12..75 : asked.atr = k * 250
      /\ chip.clock = RX!ClockRegisters(asked.clock)
      /\ chip.alarm = RX!AlarmRegisters(asked.alarm)
      /\ chip.dtr = RX!x1226_set_dtrim(asked.dtr)
      /\ chip.atr = RX!x1226_set_atrim(asked.atr)
  BY DEF ClockInv, ClockTypes, Meaning
<1>2. /\ j.op \in {"clock", "alarm", "dtr", "atr"}
      /\ j.op \in {"clock", "alarm"} => j.value \in AllTimes
      /\ j.op = "dtr" => j.value \in Trims
      /\ j.op = "atr" => j.value \in Int
  BY OfJobs
<1>3. m = [asked EXCEPT ![j.op] = IF j.op = "atr" THEN RX!Rounded(j.value)
                                  ELSE j.value]
  BY DEF RX!Meant
<1>4. CASE j.op = "clock"
  <2>1. c = [chip EXCEPT !.clock = RX!ClockRegisters(j.value), !.rtcf = FALSE]
    BY <1>4 DEF RX!Data
  <2>2. m = [asked EXCEPT !.clock = j.value]
    BY <1>3, <1>4
  <2>3. j.value \in AllTimes
    BY <1>2, <1>4
  <2>. QED  BY <1>1, <1>4, <2>1, <2>2, <2>3 DEF RX!Stored, ChipFields
<1>5. CASE j.op = "alarm"
  <2>1. c = [chip EXCEPT !.alarm = RX!AlarmRegisters(j.value), !.sr = {"WEL"}]
    BY <1>5 DEF RX!Data
  <2>2. m = [asked EXCEPT !.alarm = j.value]
    BY <1>3, <1>5
  <2>3. j.value \in AllTimes
    BY <1>2, <1>5
  <2>. QED  BY <1>1, <1>5, <2>1, <2>2, <2>3 DEF ChipFields
<1>6. CASE j.op = "dtr"
  <2>1. c = [chip EXCEPT !.dtr = RX!x1226_set_dtrim(j.value), !.sr = {"WEL"}]
    BY <1>6 DEF RX!Data
  <2>2. m = [asked EXCEPT !.dtr = j.value]
    BY <1>3, <1>6
  <2>3. j.value \in Trims
    BY <1>2, <1>6
  <2>. QED  BY <1>1, <1>6, <2>1, <2>2, <2>3 DEF RX!Stored, ChipFields
<1>7. CASE j.op = "atr"
  <2>1. c = [chip EXCEPT !.atr = RX!x1226_set_atrim(RX!Rounded(j.value)),
                         !.sr = {"WEL"}]
    BY <1>7 DEF RX!Data
  <2>2. m = [asked EXCEPT !.atr = RX!Rounded(j.value)]
    BY <1>3, <1>7
  <2>3. \E k \in 12..75 : RX!Rounded(j.value) = k * 250
    BY <1>2, <1>7, RoundedIsStep
  <2>. QED  BY <1>1, <1>7, <2>1, <2>2, <2>3 DEF RX!Stored, ChipFields
<1>. QED  BY <1>2, <1>4, <1>5, <1>6, <1>7

\* Every transfer leaves the registers with the meaning they have.
LEMMA TransferMeans ==
    ASSUME ClockInv, NEW j \in AllJobs, j.op # "none",
           NEW what \in {"wel", "rwel", "data", "al0e", "diswe"},
           NEW c, c = RX!i2c_master_send(chip, j, what),
           NEW m, m = RX!Meant(chip, j, what)
    PROVE  /\ DOMAIN c = ChipFields /\ c.sr \subseteq {"WEL", "RWEL"}
           /\ DOMAIN m = DOMAIN asked
           /\ m.clock \in AllTimes /\ m.alarm \in AllTimes
           /\ m.dtr \in Trims /\ \E k \in 12..75 : m.atr = k * 250
           /\ c.clock = RX!ClockRegisters(m.clock)
           /\ c.alarm = RX!AlarmRegisters(m.alarm)
           /\ c.dtr = RX!x1226_set_dtrim(m.dtr)
           /\ c.atr = RX!x1226_set_atrim(m.atr)
<1>1. /\ DOMAIN chip = ChipFields /\ chip.sr \subseteq {"WEL", "RWEL"}
      /\ DOMAIN asked = {"clock", "alarm", "al0e", "dtr", "atr"}
      /\ asked.clock \in AllTimes /\ asked.alarm \in AllTimes
      /\ asked.dtr \in Trims /\ \E k \in 12..75 : asked.atr = k * 250
      /\ chip.clock = RX!ClockRegisters(asked.clock)
      /\ chip.alarm = RX!AlarmRegisters(asked.alarm)
      /\ chip.dtr = RX!x1226_set_dtrim(asked.dtr)
      /\ chip.atr = RX!x1226_set_atrim(asked.atr)
  BY DEF ClockInv, ClockTypes, Meaning
<1>2. CASE what = "data" /\ RX!Unlocked(chip)
  <2>1. c = RX!Data(chip, j)
    BY <1>2 DEF RX!i2c_master_send
  <2>. QED  BY <1>2, <2>1, DataMeans
<1>3. CASE ~(what = "data" /\ RX!Unlocked(chip))
  <2>1. \/ m = asked
        \/ m = [asked EXCEPT !.al0e = j.on]
    BY <1>3 DEF RX!Meant
  <2>2. \/ c = chip
        \/ \E s \in SUBSET {"WEL", "RWEL"} : c = [chip EXCEPT !.sr = s]
        \/ c = [chip EXCEPT !.al0e = j.on, !.sr = {"WEL"}]
    <3>1. CASE what = "wel"
      BY <3>1 DEF RX!i2c_master_send
    <3>2. CASE what = "rwel"
      BY <1>1, <3>2 DEF RX!i2c_master_send
    <3>3. CASE what \in {"data", "al0e"}
      BY <1>3, <3>3 DEF RX!i2c_master_send
    <3>4. CASE what = "diswe"
      BY <3>4 DEF RX!i2c_master_send
    <3>. QED  BY <3>1, <3>2, <3>3, <3>4
  <2>3. /\ DOMAIN m = DOMAIN asked /\ m.clock = asked.clock
        /\ m.alarm = asked.alarm /\ m.dtr = asked.dtr /\ m.atr = asked.atr
    BY <1>1, <2>1
  <2>4. /\ DOMAIN c = ChipFields /\ c.sr \subseteq {"WEL", "RWEL"}
        /\ c.clock = chip.clock /\ c.alarm = chip.alarm
        /\ c.dtr = chip.dtr /\ c.atr = chip.atr
    <3>1. CASE c = chip
      BY <1>1, <3>1
    <3>2. ASSUME NEW s \in SUBSET {"WEL", "RWEL"}, c = [chip EXCEPT !.sr = s]
          PROVE  /\ DOMAIN c = ChipFields /\ c.sr \subseteq {"WEL", "RWEL"}
                 /\ c.clock = chip.clock /\ c.alarm = chip.alarm
                 /\ c.dtr = chip.dtr /\ c.atr = chip.atr
      BY <1>1, <3>2, SameStore
    <3>3. CASE c = [chip EXCEPT !.al0e = j.on, !.sr = {"WEL"}]
      BY <1>1, <3>3 DEF ChipFields
    <3>. QED  BY <2>2, <3>1, <3>2, <3>3
  <2>. QED  BY <1>1, <2>3, <2>4
<1>. QED  BY <1>2, <1>3

\* A sequence that goes on, or ends, alone has come as far as its step says.
LEMMA SendStep ==
    ASSUME ClockInv, NEW t \in RX!Tasks, RX!Send(t)
    PROVE  ClockInv'
<1> DEFINE j == job[t]
           steps == RX!x1226_set_datetime(j.op)
           what == steps[j.step]
           last == j.step = Len(steps)
           after == [j EXCEPT !.step = @ + 1]
<1>1. /\ t \in RX!Active /\ j.op # "none" /\ j \in AllJobs
      /\ chip' = RX!i2c_master_send(chip, j, what)
      /\ asked' = RX!Meant(chip, j, what)
      /\ job' = [job EXCEPT ![t] = IF last THEN RX!Idle ELSE after]
      /\ lost' = (lost \/ (last /\ ~j.crossed /\ ~RX!Stored(chip', j)))
  BY DEF RX!Send, RX!Active, ClockInv, ClockTypes
<1>2. /\ steps[1] = "wel" /\ steps[2] = "rwel" /\ steps[3] = "data"
      /\ j.op # "alarm" => Len(steps) = 4 /\ steps[4] = "diswe"
      /\ j.op = "alarm" => /\ Len(steps) = 6 /\ steps[4] = "rwel"
                           /\ steps[5] = "al0e" /\ steps[6] = "diswe"
  BY SendOrder
<1>3. /\ j.op \in {"clock", "alarm", "dtr", "atr"}
      /\ j.step \in 1..6 /\ (j.op # "alarm" => j.step \in 1..4)
      /\ j.on \in BOOLEAN /\ j.crossed \in BOOLEAN
  BY <1>1, OfJobs
<1>4. what \in {"wel", "rwel", "data", "al0e", "diswe"}
  <2>1. j.step \in {1, 2, 3, 4, 5, 6} /\ (j.step \in {5, 6} => j.op = "alarm")
    BY <1>3
  <2>. QED  BY <1>2, <2>1
<1>5. ~last => /\ after \in AllJobs /\ after.step = j.step + 1
               /\ after.op = j.op /\ after.value = j.value
               /\ after.on = j.on /\ after.crossed = j.crossed
  <2>1. ~last => j.step < 4 \/ (j.op = "alarm" /\ j.step < 6)
    <3>1. j.op = "alarm" => Len(steps) = 6
      BY <1>2
    <3>2. j.op # "alarm" => Len(steps) = 4
      BY <1>2
    <3>3. j.step \in 1..6 /\ (j.op # "alarm" => j.step \in 1..4)
      BY <1>3
    <3> HIDE DEF j, steps, what, after
    <3>4. CASE j.op = "alarm"
      BY <3>1, <3>3, <3>4 DEF last
    <3>5. CASE j.op # "alarm"
      <4>1. j.step \in 1..4 /\ Len(steps) = 4
        BY <3>2, <3>3, <3>5
      <4>2. j.step # Len(steps) => j.step < 4
        BY <4>1
      <4>. QED  BY <4>2 DEF last
    <3>. QED  BY <3>4, <3>5
  <2>. QED  BY <1>1, <2>1, NextIsJob
<1>6. /\ DOMAIN chip = ChipFields /\ chip.sr \subseteq {"WEL", "RWEL"}
      /\ job \in [RX!Tasks -> AllJobs] /\ Undisturbed /\ ~lost
  BY DEF ClockInv, ClockTypes
<1> HIDE DEF j, steps, last, after
<1>7. ClockTypes' /\ Meaning'
  <2>1. /\ DOMAIN chip' = ChipFields /\ chip'.sr \subseteq {"WEL", "RWEL"}
        /\ DOMAIN asked' = DOMAIN asked
        /\ asked'.clock \in AllTimes /\ asked'.alarm \in AllTimes
        /\ asked'.dtr \in Trims /\ \E k \in 12..75 : asked'.atr = k * 250
        /\ chip'.clock = RX!ClockRegisters(asked'.clock)
        /\ chip'.alarm = RX!AlarmRegisters(asked'.alarm)
        /\ chip'.dtr = RX!x1226_set_dtrim(asked'.dtr)
        /\ chip'.atr = RX!x1226_set_atrim(asked'.atr)
    BY <1>1, <1>4, TransferMeans
  <2>2. job' \in [RX!Tasks -> AllJobs]
    BY <1>1, <1>5, <1>6, IdleIsJob
  <2>3. DOMAIN asked = {"clock", "alarm", "al0e", "dtr", "atr"}
    BY DEF ClockInv, ClockTypes
  <2>. QED  BY <2>1, <2>2, <2>3 DEF ClockTypes, Meaning
<1>8. /\ job'[t] = IF last THEN RX!Idle ELSE after
      /\ \A u \in RX!Tasks : u # t => job'[u] = job[u]
  BY <1>1, <1>6
<1>9. \A u \in RX!Active' : u \in RX!Active /\ (u = t => ~last)
  BY <1>1, <1>8 DEF RX!Active, RX!Tasks, RX!Idle
<1>10. ~j.crossed => RX!Active = {t} /\ Progress(chip, j)
  BY <1>1, <1>6 DEF Undisturbed, j
\* What the transfer of each step does.
<1>11. ASSUME ~j.crossed
       PROVE  IF last THEN RX!Stored(chip', j) ELSE Progress(chip', after)
  <2>1. CASE j.step = 1
    <3>1. what = "wel" /\ ~last
      BY <1>2, <1>3, <2>1 DEF last
    <3>2. chip'.sr = {"WEL"}
      BY <1>1, <1>6, <3>1, SameStore DEF RX!i2c_master_send
    <3>3. after.step = 2
      BY <1>5, <2>1, <3>1
    <3>. QED  BY <3>1, <3>2, <3>3 DEF Progress
  <2>2. CASE j.step = 2
    <3>1. what = "rwel" /\ ~last /\ chip.sr = {"WEL"}
      BY <1>2, <1>3, <1>10, <1>11, <2>2 DEF last, Progress
    <3>2. chip' = [chip EXCEPT !.sr = {"WEL", "RWEL"}]
      <4>1. chip' = [chip EXCEPT !.sr = IF "WEL" \in chip.sr
                                        THEN chip.sr \cup {"RWEL"} ELSE chip.sr]
        BY <1>1, <3>1 DEF RX!i2c_master_send
      <4>2. {"WEL"} \cup {"RWEL"} = {"WEL", "RWEL"}
        OBVIOUS
      <4>. QED  BY <3>1, <4>1, <4>2
    <3>3. RX!Unlocked(chip')
      BY <1>6, <3>2, SameStore DEF RX!Unlocked
    <3>4. after.step = 3
      BY <1>5, <2>2, <3>1
    <3>. QED  BY <3>1, <3>3, <3>4 DEF Progress
  <2>3. CASE j.step = 3
    <3>1. what = "data" /\ ~last /\ RX!Unlocked(chip)
      BY <1>2, <1>3, <1>10, <1>11, <2>3 DEF last, Progress
    <3>2. chip' = RX!Data(chip, j)
      BY <1>1, <3>1 DEF RX!i2c_master_send
    <3>3. /\ j.op = "alarm" =>
                AlarmStored(chip', j) /\ chip'.sr = {"WEL"}
          /\ j.op # "alarm" => RX!Stored(chip', j)
      BY <1>1, <3>1, <3>2, DataMeans DEF AlarmStored
    <3>4. after.step = 4 /\ after.op = j.op /\ after.value = j.value
      BY <1>5, <2>3, <3>1
    <3>5. RX!Stored(chip', j) /\ j.op # "alarm" => RX!Stored(chip', after)
      BY <1>3, <3>4 DEF RX!Stored
    <3>. QED  BY <3>1, <3>3, <3>4, <3>5 DEF Progress, AlarmStored
  <2>4. CASE j.step = 4 /\ j.op # "alarm"
    <3>1. what = "diswe" /\ last /\ RX!Stored(chip, j)
      BY <1>2, <1>10, <1>11, <2>4 DEF last, Progress
    <3>2. chip' = [chip EXCEPT !.sr = {}]
      BY <1>1, <3>1 DEF RX!i2c_master_send
    <3>. QED  BY <1>6, <3>1, <3>2, SameStore
  <2>5. CASE j.step = 4 /\ j.op = "alarm"
    <3>1. what = "rwel" /\ ~last /\ chip.sr = {"WEL"} /\ AlarmStored(chip, j)
      BY <1>2, <1>10, <1>11, <2>5 DEF last, Progress
    <3>2. chip' = [chip EXCEPT !.sr = {"WEL", "RWEL"}]
      <4>1. chip' = [chip EXCEPT !.sr = IF "WEL" \in chip.sr
                                        THEN chip.sr \cup {"RWEL"} ELSE chip.sr]
        BY <1>1, <3>1 DEF RX!i2c_master_send
      <4>2. {"WEL"} \cup {"RWEL"} = {"WEL", "RWEL"}
        OBVIOUS
      <4>. QED  BY <3>1, <4>1, <4>2
    <3>3. RX!Unlocked(chip') /\ AlarmStored(chip', j)
      BY <1>6, <3>1, <3>2, SameStore DEF RX!Unlocked, AlarmStored
    <3>4. after.step = 5 /\ after.value = j.value
      BY <1>5, <2>5, <3>1
    <3>. QED  BY <3>1, <3>3, <3>4 DEF Progress, AlarmStored
  <2>6. CASE j.step = 5
    <3>1. /\ what = "al0e" /\ ~last /\ RX!Unlocked(chip)
          /\ AlarmStored(chip, j)
      BY <1>2, <1>3, <1>10, <1>11, <2>6 DEF last, Progress
    <3>2. chip' = [chip EXCEPT !.al0e = j.on, !.sr = {"WEL"}]
      BY <1>1, <3>1 DEF RX!i2c_master_send
    <3>3. AlarmStored(chip', j) /\ chip'.al0e = j.on
      BY <1>6, <3>1, <3>2 DEF AlarmStored, ChipFields
    <3>4. after.step = 6 /\ after.value = j.value /\ after.on = j.on
      BY <1>5, <2>6, <3>1
    <3>. QED  BY <3>1, <3>3, <3>4 DEF Progress, AlarmStored
  <2>7. CASE j.step = 6
    <3>1. /\ what = "diswe" /\ last /\ j.op = "alarm"
          /\ AlarmStored(chip, j) /\ chip.al0e = j.on
      BY <1>2, <1>3, <1>10, <1>11, <2>7 DEF last, Progress
    <3>2. chip' = [chip EXCEPT !.sr = {}]
      BY <1>1, <3>1 DEF RX!i2c_master_send
    <3>3. RX!Stored(chip, j)
      BY <3>1 DEF RX!Stored, AlarmStored
    <3>. QED  BY <1>6, <3>1, <3>2, <3>3, SameStore
  <2>. QED  BY <1>3, <2>1, <2>2, <2>3, <2>4, <2>5, <2>6, <2>7
<1>12. ~lost'
  BY <1>1, <1>3, <1>6, <1>11
<1>13. ASSUME NEW u \in RX!Active', ~job'[u].crossed
       PROVE  RX!Active' = {u} /\ Progress(chip', job'[u])
  <2>1. u \in RX!Active /\ u \in RX!Tasks /\ (u = t => ~last)
    BY <1>9 DEF RX!Active
  <2>2. CASE u = t
    <3>1. ~last /\ job'[u] = after /\ ~j.crossed
      BY <1>5, <1>8, <1>13, <2>1, <2>2
    <3>2. RX!Active = {t} /\ Progress(chip', after)
      BY <1>10, <1>11, <3>1
    <3>3. RX!Active' = {t}
      BY <1>9, <2>2, <3>2
    <3>. QED  BY <2>2, <3>1, <3>2, <3>3
  <2>3. CASE u # t
    <3>1. ~job[u].crossed
      BY <1>8, <1>13, <2>1, <2>3
    <3>2. RX!Active = {u}
      BY <1>6, <2>1, <3>1 DEF Undisturbed
    <3>. QED  BY <1>1, <2>3, <3>2
  <2>. QED  BY <2>2, <2>3
<1>. QED  BY <1>7, <1>12, <1>13 DEF ClockInv, Undisturbed

\* A transfer that fails ends its sequence and changes nothing else.
LEMMA SendFailsStep ==
    ASSUME ClockInv, NEW t \in RX!Tasks, RX!SendFails(t)
    PROVE  ClockInv'
<1>1. /\ job' = [job EXCEPT ![t] = RX!Idle]
      /\ chip' = chip /\ asked' = asked /\ lost' = lost
  BY DEF RX!SendFails
<1>2. job \in [RX!Tasks -> AllJobs]
  BY DEF ClockInv, ClockTypes
<1>3. job'[t] = RX!Idle /\ \A u \in RX!Tasks : u # t => job'[u] = job[u]
  BY <1>1, <1>2
<1>4. ClockTypes' /\ Meaning' /\ ~lost'
  <2>1. job' \in [RX!Tasks -> AllJobs]
    BY <1>1, <1>2, IdleIsJob
  <2>. QED  BY <1>1, <2>1 DEF ClockInv, ClockTypes, Meaning
<1>5. ASSUME NEW u \in RX!Active', ~job'[u].crossed
      PROVE  RX!Active' = {u} /\ Progress(chip', job'[u])
  <2>1. \A v \in RX!Active' : v \in RX!Active /\ v # t
    BY <1>3 DEF RX!Active, RX!Tasks, RX!Idle
  <2>2. u \in RX!Tasks /\ job'[u] = job[u]
    BY <1>3, <2>1 DEF RX!Active
  <2>3. RX!Active = {u} /\ Progress(chip, job[u])
    BY <1>5, <2>1, <2>2 DEF ClockInv, Undisturbed
  <2>. QED  BY <1>1, <1>5, <2>1, <2>2, <2>3
<1>. QED  BY <1>4, <1>5 DEF ClockInv, Undisturbed

LEMMA ClockStands ==
    ASSUME ClockInv, UNCHANGED <<chip, job, asked, lost>>
    PROVE  ClockInv'
BY DEF ClockInv, ClockTypes, Meaning, Undisturbed, RX!Active, RX!Tasks

LEMMA ClockStepInv == ClockInv /\ RX!Next => ClockInv'
<1> SUFFICES ASSUME ClockInv, RX!Next PROVE ClockInv'
  OBVIOUS
<1>1. ASSUME NEW v \in AllTimes, NEW on \in BOOLEAN,
             NEW op \in {"clock", "alarm"}, NEW b \in BOOLEAN
      PROVE  [op |-> op, value |-> v, on |-> on, step |-> 1,
              crossed |-> b] \in AllJobs
  BY DEF AllJobs, Jobs
<1>2. Times \subseteq AllTimes /\ Digital \subseteq Int /\ Analog \subseteq Int
  BY ClockAssumption
<1>3. Prober \in RX!Tasks /\ Class \in RX!Tasks
      /\ Trimmers \subseteq RX!Tasks
  BY DEF RX!Tasks
<1>4. CASE \/ RX!x1226_probe \/ RX!StatusUnread \/ RX!x1226_sysfs_register
           \/ RX!x1226_remove
  BY <1>4, ClockStands
  DEF RX!x1226_probe, RX!StatusUnread, RX!x1226_sysfs_register,
      RX!x1226_remove
<1>5. CASE RX!rtc_device_register
  <2>1. CASE chip.rtcf
    <3>1. RX!Begin(Prober, "clock", RX!FixedTime, FALSE)
      BY <1>5, <2>1 DEF RX!rtc_device_register
    <3>2. RX!FixedTime \in AllTimes
      BY DEF RX!FixedTime, AllTimes, Years
    <3>3. \A b \in BOOLEAN : [op |-> "clock", value |-> RX!FixedTime,
                              on |-> FALSE, step |-> 1,
                              crossed |-> b] \in AllJobs
      BY <1>1, <3>2
    <3>. QED  BY <1>3, <3>1, <3>3, BeginStep
  <2>2. CASE ~chip.rtcf
    BY <1>5, <2>2, ClockStands DEF RX!rtc_device_register
  <2>. QED  BY <2>1, <2>2
<1>6. ASSUME NEW tm \in Times, RX!x1226_rtc_set_time(tm)
      PROVE  ClockInv'
  <2>1. RX!Begin(Class, "clock", tm, FALSE)
    BY <1>6 DEF RX!x1226_rtc_set_time
  <2>2. \A b \in BOOLEAN : [op |-> "clock", value |-> tm, on |-> FALSE,
                            step |-> 1, crossed |-> b] \in AllJobs
    BY <1>1, <1>2
  <2>. QED  BY <1>3, <2>1, <2>2, BeginStep
<1>7. ASSUME NEW tm \in Times, NEW on \in BOOLEAN,
             RX!x1226_rtc_set_alarm(tm, on)
      PROVE  ClockInv'
  <2>1. RX!Begin(Class, "alarm", tm, on)
    BY <1>7 DEF RX!x1226_rtc_set_alarm
  <2>2. \A b \in BOOLEAN : [op |-> "alarm", value |-> tm, on |-> on,
                            step |-> 1, crossed |-> b] \in AllJobs
    BY <1>1, <1>2
  <2>. QED  BY <1>3, <2>1, <2>2, BeginStep
<1>8. ASSUME NEW t \in Trimmers, NEW ppm \in Digital,
             RX!x1226_sysfs_store_dtrim(t, ppm)
      PROVE  ClockInv'
  <2>1. RX!Begin(t, "dtr", ppm, FALSE) /\ ppm \in Trims
    BY <1>2, <1>8 DEF RX!x1226_sysfs_store_dtrim, Trims
  <2>2. \A b \in BOOLEAN : [op |-> "dtr", value |-> ppm, on |-> FALSE,
                            step |-> 1, crossed |-> b] \in AllJobs
    BY <2>1 DEF AllJobs, Jobs
  <2>. QED  BY <1>3, <2>1, <2>2, BeginStep
<1>9. ASSUME NEW t \in Trimmers, NEW fF \in Analog,
             RX!x1226_sysfs_store_atrim(t, fF)
      PROVE  ClockInv'
  <2>1. RX!Begin(t, "atr", fF, FALSE) /\ fF \in Int
    BY <1>2, <1>9 DEF RX!x1226_sysfs_store_atrim
  <2>2. \A b \in BOOLEAN : [op |-> "atr", value |-> fF, on |-> FALSE,
                            step |-> 1, crossed |-> b] \in AllJobs
    BY <2>1 DEF AllJobs, Jobs
  <2>. QED  BY <1>3, <2>1, <2>2, BeginStep
<1>. QED  BY <1>4, <1>5, <1>6, <1>7, <1>8, <1>9, SendStep, SendFailsStep
     DEF RX!Next

-----------------------------------------------------------------------------
(* The two drivers side by side. *)

DriversInv == TimerInv /\ ClockInv

LEMMA TimersStand ==
    ASSUME TimerInv, UNCHANGED ofTimers
    PROVE  TimerInv'
BY DEF TimerInv, TimerTypes, OwnEntries, CountFits, Takers, ofTimers,
       MT!Starts, MT!OnList

(* The invariant of both drivers: their types; a pending timer has an      *)
(* entry of its own, the expired entries are as many as the expiries that  *)
(* wait; the registers mean what was accepted, a sequence that nobody has  *)
(* crossed finds the chip as far unlocked as its step needs.               *)
THEOREM DriversInductive == DriversSpec => []DriversInv
<1>1. DriversInit => DriversInv
  BY TimersInit, ClockInit DEF DriversInit, DriversInv
<1>2. DriversInv /\ [DriversNext]_driversVars => DriversInv'
  <2> SUFFICES ASSUME DriversInv, [DriversNext]_driversVars PROVE DriversInv'
    OBVIOUS
  <2>1. CASE TimersStep
    <3>1. TimerInv'
      BY <2>1, TimersStepInv DEF DriversInv, TimersStep
    <3>2. ClockInv'
      BY <2>1, ClockStands DEF DriversInv, TimersStep, ofClock
    <3>. QED  BY <3>1, <3>2 DEF DriversInv
  <2>2. CASE ClockStep
    <3>1. ClockInv'
      BY <2>2, ClockStepInv DEF DriversInv, ClockStep
    <3>2. TimerInv'
      BY <2>2, TimersStand DEF DriversInv, ClockStep
    <3>. QED  BY <3>1, <3>2 DEF DriversInv
  <2>3. CASE UNCHANGED driversVars
    <3>1. TimerInv'
      BY <2>3, TimersStand DEF DriversInv, driversVars
    <3>2. ClockInv'
      BY <2>3, ClockStands DEF DriversInv, driversVars, ofClock
    <3>. QED  BY <3>1, <3>2 DEF DriversInv
  <2>. QED  BY <2>1, <2>2, <2>3 DEF DriversNext
<1>. QED  BY <1>1, <1>2, PTL DEF DriversSpec

(* ReportsExpired of MultTime: while no entry is misled a timer that read  *)
(* takes off the list has expired, with any callers, timers and starts.    *)
THEOREM ReadReportsExpired == DriversSpec => []ReportsExpired
<1>1. DriversInv => ReportsExpired
  BY DEF DriversInv, TimerInv, CountFits, ReportsExpired, MT!ReportsExpired
<1>. QED  BY <1>1, DriversInductive, PTL

(* EndMeansStored of RtcX1226: a sequence nobody crosses stores its value, *)
(* whatever the times and trims, with any number of failing transfers.     *)
THEOREM SequencesStore == DriversSpec => []EndMeansStored
<1>1. DriversInv => EndMeansStored
  BY DEF DriversInv, ClockInv, EndMeansStored, RX!EndMeansStored
<1>. QED  BY <1>1, DriversInductive, PTL

(* ReadsBack of RtcX1226: for every time of 1970 to 9999 and every trim,   *)
(* what the registers are read as is what was last accepted.               *)
THEOREM WhatIsSetIsRead == DriversSpec => []ReadsBack
<1>1. ASSUME DriversInv PROVE ReadsBack
  <2>1. /\ chip.clock = RX!ClockRegisters(asked.clock)
        /\ chip.alarm = RX!AlarmRegisters(asked.alarm)
        /\ chip.dtr = RX!x1226_set_dtrim(asked.dtr)
        /\ chip.atr = RX!x1226_set_atrim(asked.atr)
        /\ asked.clock \in AllTimes /\ asked.alarm \in AllTimes
        /\ asked.dtr \in Trims /\ \E k \in 12..75 : asked.atr = k * 250
    BY <1>1 DEF DriversInv, ClockInv, ClockTypes, Meaning
  <2>2. RX!x1226_get_datetime(chip.clock) = asked.clock
    BY <2>1, ClockReadsBack
  <2>3. RX!x1226_rtc_read_alarm(chip.alarm) = asked.alarm
    BY <2>1, AlarmReadsBack
  <2>4. RX!x1226_get_dtrim(chip.dtr) = asked.dtr
    BY <2>1, DigitalReadsBack DEF Trims
  <2>5. RX!x1226_get_atrim(chip.atr) = asked.atr
    BY <2>1, AnalogReadsBack
  <2>6. asked.clock.year < 200 => RX!x1226_validate_client(chip.clock)
    BY <2>1, ProbeAccepts
  <2>. QED  BY <2>2, <2>3, <2>4, <2>5, <2>6 DEF ReadsBack, RX!ReadsBack
<1>2. DriversInv => ReadsBack
  BY <1>1
<1>. QED  BY <1>2, DriversInductive, PTL
=============================================================================
