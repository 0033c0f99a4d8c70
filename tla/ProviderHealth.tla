--------------------------- MODULE ProviderHealth ---------------------------
(***************************************************************************)
(* The record Atlas keeps for each registered provider, and the operations *)
(* on it.  Each method of the class holds the record's lock for its whole  *)
(* body, so each is one operator from the record to the new record.        *)
(*                                                                         *)
(* The code stores cooldown_until, an absolute monotonic time, and         *)
(* compares it with the clock.  Only the difference is ever read, so       *)
(* cooldown is that difference: the time left, 0 when there is none.       *)
(***************************************************************************)
EXTENDS Integers

CONSTANTS
    BaseCooldown,   \* Cascade(base_cooldown_seconds)
    MaxCooldown     \* Cascade(max_cooldown_seconds)

\* Both are positive numbers of clock units (30.0 and 600.0 by default).
ASSUME CooldownAssumption ==
    /\ BaseCooldown \in Nat \ {0}
    /\ MaxCooldown \in Nat \ {0}
    /\ BaseCooldown <= MaxCooldown

HealthRecord ==
    [consecutive_failures : Nat, total_calls : Nat, total_failures : Nat,
     cooldown : Int]

Health(consecutive, total, failures, cooldown) ==
    [consecutive_failures |-> consecutive, total_calls |-> total,
     total_failures |-> failures, cooldown |-> cooldown]

NewHealth == Health(0, 0, 0, 0)

IsHealthy(h) == h.cooldown <= 0

\* Mutant: the cooldown is left to run out.
RecordSuccess_KeepsCooldown(h) ==
    Health(0, h.total_calls + 1, h.total_failures, h.cooldown)

RecordSuccess(h) == Health(0, h.total_calls + 1, h.total_failures, 0)

\* Mutant: a failure is not counted as a call.
RecordFailure_Uncounted(h, cooldown) ==
    Health(h.consecutive_failures + 1, h.total_calls, h.total_failures + 1,
           cooldown)

\* The new window replaces the old one, whichever of the two is longer.
RecordFailure(h, cooldown) ==
    Health(h.consecutive_failures + 1, h.total_calls + 1, h.total_failures + 1,
           cooldown)

\* The lifetime totals survive a reset.
Reset(h) == Health(0, h.total_calls, h.total_failures, 0)

\* One unit of the monotonic clock goes by.
Elapse(h) == [h EXCEPT !.cooldown = IF @ > 0 THEN @ - 1 ELSE @]

\* 2 ** n, as a function: what the provers know of ^ is only its name.
PowerOfTwo[n \in Nat] == IF n = 0 THEN 1 ELSE 2 * PowerOfTwo[n - 1]

\* Cascade's window for the failure that follows n consecutive ones.
Backoff(n) ==
    IF BaseCooldown * PowerOfTwo[n] < MaxCooldown
    THEN BaseCooldown * PowerOfTwo[n] ELSE MaxCooldown
=============================================================================
