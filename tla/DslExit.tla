----------------------------- MODULE DslExit -----------------------------
(***************************************************************************)
(* The exit engine of one position: pathiel/agents/dsl_exit.DSLTracker.    *)
(*                                                                         *)
(* check() is called with a mark every tick; what it decides depends on    *)
(* the tracker's entry, peak, last floor and breach count, and those live  *)
(* in .dsl-state.json only as of the last _save_state.  Between two checks *)
(* the exchange may report a new average entry or leverage, and the        *)
(* process may restart from the file.                                      *)
(*                                                                         *)
(* A short is the mirror image of a long, so both are one computation on   *)
(* signed prices.  Percentages are whole numbers of the entry price and a  *)
(* floor is kept times 100, which makes every comparison exact.            *)
(***************************************************************************)
EXTENDS Integers, Sequences, FiniteSetsExt

CONSTANTS
    Prices,             \* marks and entries
    Leverages, Atrs,    \* leverages, and entry_atr_pct values (0 = none captured)
    MaxLossPct, MaxLossRoePct, ProtectPct, RetracePct,
    Tiers,              \* phase2_tiers
    BreakevenLock, AtrStop, AtrMult, AtrFloor, AtrCeiling,
    NoiseMult,
    Policies,           \* what else the books' exit policies differ in
    HardTimeout, StaleTimeout,      \* in clock ticks; StaleTimeout 0 = off
    Events,             \* "add", "leverage", "restart"
    MaxAdds, MaxRestarts   \* bounds

ASSUME DslAssumption ==
    /\ Prices \subseteq Nat \ {0}
    /\ Leverages \subseteq Nat \ {0} /\ Atrs \subseteq Nat
    /\ MaxLossPct \in Nat /\ MaxLossRoePct \in Nat
    /\ ProtectPct \in Nat /\ RetracePct \in 0..100
    /\ Tiers \in Seq([pct : Nat, retrace : 0..100])
    /\ BreakevenLock \in Nat /\ AtrStop \in BOOLEAN
    /\ AtrMult \in Nat /\ AtrFloor \in Nat /\ AtrCeiling \in Nat /\ NoiseMult \in Nat
    /\ Policies \subseteq [trigger : Nat, noise : BOOLEAN, required : Nat \ {0}]
    /\ HardTimeout \in Nat /\ StaleTimeout \in Nat
    /\ MaxAdds \in Nat /\ MaxRestarts \in Nat

\* The ROE cap divides exactly, so that a percentage stays a whole number.
ASSUME RoeDivides == \A l \in Leverages : MaxLossRoePct % l = 0

VARIABLES
    status,     \* "none", "open", "closed"
    side,       \* 1 for a long, -1 for a short
    lev, atr,
    policy,     \* breakeven_trigger_pct, noise_band_enabled, consecutive_breaches_required
    age,        \* clock ticks since entry_time
    entry,      \* signed
    peak,       \* signed: the best mark seen
    hasFloor, floor,    \* _last_floor, signed and times 100
    breaches,   \* consecutive_breaches
    saved,      \* what the state file holds of the tracker
    verdict,    \* the reason the last check gave
    mark,       \* ghost: the mark it looked at, signed
    armed,      \* ghost: a check on this basis set a phase-2 floor
    losing,     \* ghost: checks in a row that found it losing since, and held it
    adds, restarts

tracker == <<side, lev, atr, policy, age, entry, peak, hasFloor, floor, breaches>>
vars    == <<status, tracker, saved, verdict, mark, armed, losing, adds, restarts>>
---------------------------------------------------------------------------
BreakevenTrigger == policy.trigger
NoiseBand        == policy.noise
BreachesRequired == policy.required

\* Percent of the entry price, in hundredths of the price unit.
Pct(p) == p * (entry * side)

Gain(px) == (px - entry) * 100

SpotCap ==
    IF AtrStop /\ atr > 0
    THEN Min({Max({atr * AtrMult, AtrFloor}), AtrCeiling})
    ELSE MaxLossPct

EffectiveMaxLoss == Min({SpotCap, MaxLossRoePct \div lev})

\* _active_tier, given the peak: the last tier of the list that it reached.
Retrace(best) ==
    LET reached == {i \in DOMAIN Tiers : Gain(best) >= Pct(Tiers[i].pct)}
    IN  IF reached = {} THEN RetracePct ELSE Tiers[Max(reached)].retrace

\* The floor of this mark before it is ratcheted.
Protected(m) == Gain(m) >= Pct(ProtectPct)

\* Mutant: the give-back is taken from the price and not from the profit.
TrailingFloorOfPrice(m, best) ==
    IF Protected(m)
    THEN 100 * best - Pct(Retrace(best))
    ELSE 100 * entry - Pct(EffectiveMaxLoss)

TrailingFloor(m, best) ==
    IF Protected(m)
    THEN 100 * entry + (best - entry) * (100 - Retrace(best))
    ELSE 100 * entry - Pct(EffectiveMaxLoss)

BreakevenFloor(m, best) ==
    IF BreakevenTrigger > 0 /\ Gain(best) >= Pct(BreakevenTrigger)
    THEN Max({TrailingFloor(m, best), 100 * entry + Pct(BreakevenLock)})
    ELSE TrailingFloor(m, best)

\* Mutants: no ratchet; a ratchet the wrong way round.
UnratchetedFloor(m, best) == BreakevenFloor(m, best)
LoosestFloor(m, best) ==
    IF hasFloor THEN Min({BreakevenFloor(m, best), floor})
                ELSE BreakevenFloor(m, best)

RatchetedFloor(m, best) ==
    IF hasFloor THEN Max({BreakevenFloor(m, best), floor})
                ELSE BreakevenFloor(m, best)

\* Below the first tier, a pull-back inside the noise band is held.
FirstTier == IF DOMAIN Tiers = {} THEN 3 ELSE Min({Tiers[i].pct : i \in DOMAIN Tiers})

\* Mutant: the pull-back is measured from the entry.
InNoiseBandOfEntry(m, best) ==
    /\ NoiseBand /\ atr > 0
    /\ Gain(best) < Pct(FirstTier)
    /\ (entry - m) * 100 <= Pct(NoiseMult * atr)

InNoiseBand(m, best) ==
    /\ NoiseBand /\ atr > 0
    /\ Gain(best) < Pct(FirstTier)
    /\ (best - m) * 100 <= Pct(NoiseMult * atr)
---------------------------------------------------------------------------
Snapshot == [entry |-> entry, peak |-> peak, hasFloor |-> hasFloor, floor |-> floor,
             breaches |-> breaches, lev |-> lev]

Init ==
    /\ status = "none"
    /\ side = 1 /\ lev = 1 /\ atr = 0 /\ age = 0
    /\ policy = [trigger |-> 0, noise |-> FALSE, required |-> 1]
    /\ entry = 0 /\ peak = 0 /\ hasFloor = FALSE /\ floor = 0 /\ breaches = 0
    /\ saved = Snapshot
    /\ verdict = "none" /\ mark = 0 /\ armed = FALSE /\ losing = 0
    /\ adds = 0 /\ restarts = 0

Register ==
    /\ status = "none"
    /\ \E px \in Prices, s \in {1, -1}, l \in Leverages, a \in Atrs :
          /\ side' = s /\ lev' = l /\ atr' = a /\ policy' \in Policies
          /\ entry' = s * px /\ peak' = s * px
    /\ status' = "open" /\ age' = 0
    /\ UNCHANGED <<hasFloor, floor, breaches, verdict, mark, armed, losing,
                   adds, restarts>>
    /\ saved' = Snapshot'

\* check(): stale-flat timeout, hard timeout, max loss, then the floor.
Best(m) == Max({peak, m})

StaleFlat(m, contended) ==
    /\ StaleTimeout > 0 /\ age >= StaleTimeout /\ contended
    /\ Gain(Best(m)) < Pct(ProtectPct)

TimedOut   == age >= HardTimeout
MaxLoss(m) == - Gain(m) >= Pct(EffectiveMaxLoss)

Early(m, contended) == StaleFlat(m, contended) \/ TimedOut \/ MaxLoss(m)

EarlyVerdict(m, contended) ==
    CASE StaleFlat(m, contended) -> "stale_flat_timeout"
      [] TimedOut                -> "hard_timeout"
      [] OTHER                   -> "max_loss"

\* An early verdict keeps the new peak in memory only.
CheckEarly(m, contended) ==
    /\ Early(m, contended)
    /\ peak' = Best(m)
    /\ verdict' = EarlyVerdict(m, contended)
    /\ UNCHANGED <<hasFloor, floor, breaches, saved, armed>>

\* Mutant: counts down.
CountedDown(n) == n - 1

\* A breach count is only ever compared with BreachesRequired: it stops there.
Counted(n) == Min({n + 1, BreachesRequired})

NextBreaches(breached) == IF breached THEN Counted(breaches) ELSE 0

\* The floor is saved when it or the peak moved; the breach count changes after.
CheckFloor(m) ==
    LET breached == 100 * m < floor'
        held     == breached /\ InNoiseBand(m, peak')
    IN  /\ peak' = Best(m)
        /\ hasFloor' = TRUE /\ floor' = RatchetedFloor(m, Best(m))
        /\ saved' = IF peak' # peak \/ ~hasFloor \/ floor' # floor
                    THEN [Snapshot EXCEPT !.peak = peak', !.hasFloor = TRUE, !.floor = floor']
                    ELSE saved
        /\ breaches' = NextBreaches(breached /\ ~held)
        /\ armed' = (armed \/ Protected(m))
        /\ verdict' = CASE held -> "noise_band_hold"
                        [] breached /\ ~held /\ breaches' >= BreachesRequired -> "floor_breach"
                        [] OTHER -> "hold"

\* An exit verdict is followed by a market close, which may fail.
ExitVerdicts == {"stale_flat_timeout", "hard_timeout", "max_loss", "floor_breach"}

Check ==
    /\ status = "open"
    /\ \E px \in Prices, contended \in BOOLEAN :
          /\ mark' = side * px
          /\ \/ CheckEarly(side * px, contended)
             \/ ~Early(side * px, contended) /\ CheckFloor(side * px)
    /\ status' \in IF verdict' \in ExitVerdicts THEN {"open", "closed"} ELSE {"open"}
    /\ losing' = IF armed /\ mark' < entry /\ verdict' \notin ExitVerdicts
                 THEN losing + 1 ELSE 0
    /\ UNCHANGED <<side, lev, atr, policy, age, entry, adds, restarts>>

\* refresh_entry_basis: an ADD or a re-open moved the exchange's average entry.
Add ==
    /\ "add" \in Events /\ adds < MaxAdds /\ status = "open"
    /\ \E px \in Prices :
          /\ side * px # entry
          /\ entry' = side * px
          /\ peak' = Max({peak, side * px})
    /\ armed' = FALSE /\ losing' = 0 /\ verdict' = "none"
    /\ adds' = adds + 1
    /\ UNCHANGED <<status, side, lev, atr, policy, age, hasFloor, floor, breaches,
                   mark, restarts>>
    /\ saved' = Snapshot'

\* rehydrate_from_exchange adopts a leverage changed by hand.
Leverage ==
    /\ "leverage" \in Events /\ status = "open"
    /\ \E l \in Leverages \ {lev} : lev' = l
    /\ verdict' = "none"
    /\ UNCHANGED <<status, side, atr, policy, age, entry, peak, hasFloor, floor, breaches,
                   mark, armed, losing, adds, restarts>>
    /\ saved' = Snapshot'

\* A restart reads the tracker back from the file.
Restart ==
    /\ "restart" \in Events /\ restarts < MaxRestarts /\ status = "open"
    /\ entry' = saved.entry /\ peak' = saved.peak /\ lev' = saved.lev
    /\ hasFloor' = saved.hasFloor /\ floor' = saved.floor /\ breaches' = saved.breaches
    /\ restarts' = restarts + 1 /\ verdict' = "none"
    /\ UNCHANGED <<status, side, atr, policy, age, saved, mark, armed, losing, adds>>

\* The clock stops mattering once the hard timeout has passed.
Wait ==
    /\ status = "open" /\ age < HardTimeout /\ age' = age + 1
    /\ UNCHANGED <<status, side, lev, atr, policy, entry, peak, hasFloor, floor, breaches,
                   saved, verdict, mark, armed, losing, adds, restarts>>

Next == Register \/ Check \/ Add \/ Leverage \/ Restart \/ Wait

Spec == Init /\ [][Next]_vars
---------------------------------------------------------------------------
TypeOK ==
    /\ status \in {"none", "open", "closed"}
    /\ side \in {1, -1} /\ lev \in Nat \ {0} /\ atr \in Nat
    /\ policy \in [trigger : Nat, noise : BOOLEAN, required : Nat \ {0}]
    /\ age \in Nat
    /\ entry \in Int /\ peak \in Int /\ hasFloor \in BOOLEAN /\ floor \in Int
    /\ breaches \in Nat /\ mark \in Int /\ armed \in BOOLEAN /\ losing \in Nat
    /\ saved \in [entry : Int, peak : Int, hasFloor : BOOLEAN, floor : Int,
                  breaches : Nat, lev : Nat \ {0}]
    /\ verdict \in ExitVerdicts \cup {"none", "hold", "noise_band_hold"}
    /\ adds \in Nat /\ restarts \in Nat

\* The trailing floor of a position never loosens: not by a retrace, not by a
\* leverage change or a new entry basis, not over a restart.
FloorRatchets ==
    [][ (status = "open" /\ hasFloor) => (hasFloor' /\ floor' >= floor) ]_vars

\* Once a check has put a position in phase 2, its floor is at or above entry.
LockedAboveEntry == armed => hasFloor /\ floor >= 100 * entry

\* Under a policy without noise band that wants one breach, a position that
\* reached phase 2 is told to exit by the first check that finds it losing.
WinnerNeverHeldAtLoss ==
    [][ (armed /\ BreachesRequired = 1 /\ ~NoiseBand /\ Check /\ mark' < entry)
          => verdict' \in ExitVerdicts ]_vars

\* Whatever the policy: a position that reached phase 2 is held at a loss for one
\* check less than the breaches it wants, in each life of the process (the count of
\* a life may be lost, or come back, with a restart), adds, leverage changes and
\* noise band included, as long as that band is not wider than what phase 2 takes.
NarrowBand == NoiseBand => NoiseMult * atr <= ProtectPct
WinnerNotHeldForLong ==
    NarrowBand => losing <= (BreachesRequired - 1) * (restarts + 1)
===========================================================================
