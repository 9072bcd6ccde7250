----------------------------- MODULE Degradation -----------------------------
(***************************************************************************)
(* The degradation ladder of v2/execution/degradation.py: `step` maps the  *)
(* exposure a family held before a decision tick, and what happened at the *)
(* tick, to the exposure it holds after.  The ladder is pure; PaperLive    *)
(* calls it once per tick.                                                 *)
(*                                                                         *)
(* A target exposure is a float in [-1, 1]; here it is an integer number   *)
(* of units in -Unit..Unit, and decay rounds toward zero the way the code  *)
(* snaps a decayed target below 1e-12 to 0.0.                              *)
(***************************************************************************)
EXTENDS Integers

CONSTANTS
    Unit,         \* how many units make a full (1.0) exposure
    n_soft,       \* abstain ticks during which the last target is held
    DecayNum,     \* decay_lambda = DecayNum / DecayDen
    DecayDen,
    NULL          \* Python's None

ASSUME LadderAssumption ==
    /\ Unit \in Nat \ {0}
    /\ n_soft \in Nat
    /\ DecayNum \in Nat /\ DecayDen \in Nat \ {0} /\ DecayNum <= DecayDen
    /\ NULL \notin Int

HEALTHY == "healthy"
SOFT_ABSTAIN == "soft_abstain"
AGED == "aged"
HARD_FAIL == "hard_fail"
DegradationState == {HEALTHY, SOFT_ABSTAIN, AGED, HARD_FAIL}

Exposure == (-Unit)..Unit
ExposureState == [state : DegradationState, current_target : Exposure,
                  last_valid_target : Exposure, ticks_since_valid : Nat]
FlatExposure == [state |-> HEALTHY, current_target |-> 0,
                 last_valid_target |-> 0, ticks_since_valid |-> 0]

\* b_t is NULL exactly when the family abstained.
TickEvent == [b_t : Exposure \cup {NULL}, ttl_breached : BOOLEAN,
              kill_switch_halting : BOOLEAN]

Decay(x) ==
    IF x >= 0 THEN (x * (DecayDen - DecayNum)) \div DecayDen
              ELSE -(((-x) * (DecayDen - DecayNum)) \div DecayDen)

ForceFlat(s) == [s EXCEPT !.state = HARD_FAIL, !.current_target = 0,
                          !.ticks_since_valid = @ + 1]

Rebalance(b) == [state |-> HEALTHY, current_target |-> b,
                 last_valid_target |-> b, ticks_since_valid |-> 0]

\* Mutant: the held tick is not counted.
HoldUncounted(s) == [s EXCEPT !.state = SOFT_ABSTAIN, !.current_target = s.last_valid_target]
Hold(s) == [s EXCEPT !.state = SOFT_ABSTAIN, !.current_target = s.last_valid_target,
                     !.ticks_since_valid = @ + 1]
Age(s) == [s EXCEPT !.state = AGED, !.current_target = Decay(@),
                    !.ticks_since_valid = @ + 1]

\* The precedence of `step`: kill-switch, fresh decision, TTL, soft window, age.
Step(s, e) ==
    CASE e.kill_switch_halting -> ForceFlat(s)
      [] ~ e.kill_switch_halting /\ e.b_t # NULL -> Rebalance(e.b_t)
      [] ~ e.kill_switch_halting /\ e.b_t = NULL /\ e.ttl_breached -> ForceFlat(s)
      [] ~ e.kill_switch_halting /\ e.b_t = NULL /\ ~ e.ttl_breached
            /\ s.ticks_since_valid + 1 <= n_soft -> Hold(s)
      [] OTHER -> Age(s)

=============================================================================
