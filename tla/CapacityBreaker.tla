---------------------------- MODULE CapacityBreaker ----------------------------
(***************************************************************************)
(* One scope of adapter_health: the row that decides whether an adapter's  *)
(* model pool may be called, and the dispatches that read and write it     *)
(* from threads and processes that share only the database.  Time is the   *)
(* number of ticks left until a deadline, so no clock is bounded.          *)
(***************************************************************************)
EXTENDS Integers

CONSTANTS Callers,      \* dispatches that may run side by side
          Timeouts,     \* DispatchRequest.timeout_s, as callers choose it
          Hints,        \* retry_after_s of a provider; 0 when it gives none
          Base,         \* cooldown.default_seconds
          Maximum,      \* cooldown.maximum_seconds
          FailCap,      \* failures are counted up to here
          Lag,          \* ticks at most from the clock a check reads to the
                        \* start of the dispatch that it lets in
          DbBusy        \* a check may meet a database that stays locked

ASSUME BreakerAssumption ==
  /\ Base \in Nat \ {0} /\ Maximum \in Nat /\ Maximum >= Base
  /\ FailCap \in Nat \ {0} /\ Base * 2^(FailCap - 1) >= Maximum
  /\ \A n \in 1..FailCap : Base * 2^(n - 1) \in Nat
  /\ Timeouts \subseteq Nat \ {0} /\ Hints \subseteq Nat
  /\ Lag \in Nat /\ DbBusy \in BOOLEAN

VARIABLES
  row,     \* the row of the scope; no row is a healthy one without failures
  call,    \* what each caller is doing
  barred   \* ghost: ticks left of the cooldown that the last capacity report
           \* gave the scope, which no success and no operator has lifted

breaker == <<row, call, barred>>

Lower(a, b) == IF a < b THEN a ELSE b
Minus(a, b) == IF a > b THEN a - b ELSE 0

Row == [state: {"healthy", "cooling_down", "half_open"}, cool: 0..Maximum,
        lease: 0..Maximum, fails: 0..FailCap]
(* Of a running call: via, the state it was admitted on; left, the ticks    *)
(* until its timeout; probe, whether it is a probe that nobody has ended by *)
(* rewriting the row.  seen is the failure count it read for its report.    *)
Call == [phase: {"idle", "running", "returned", "counted"},
         via: {"healthy", "half_open", "unknown", "none"},
         left: Nat, probe: BOOLEAN, seen: 0..FailCap]

Idle == [phase |-> "idle", via |-> "none", left |-> 0, probe |-> FALSE, seen |-> 0]
Healthy(n) == [state |-> "healthy", cool |-> 0, lease |-> 0, fails |-> n]

BreakerInit ==
  /\ row = Healthy(0)
  /\ call = [c \in Callers |-> Idle]
  /\ barred = 0

-------------------------------------------------------------------------------
(* check_capacity: one BEGIN IMMEDIATE transaction.  Its clock was read      *)
(* before the wait for the lock, so that it refuses longer if anything.      *)
RefusedHalfOpen ==    \* defect: a half-open row refuses past its lease
  \/ row.state = "cooling_down" /\ row.cool > 0
  \/ row.state = "half_open"

Refused ==
  \/ row.state = "cooling_down" /\ row.cool > 0
  \/ row.state \in {"cooling_down", "half_open"} /\ row.lease > 0

LeaseFixed(timeout) == 1    \* defect: the lease does not follow the timeout
Lease(timeout) == Lower(timeout, Maximum)

(* The dispatch starts slow ticks after the check and ends by its timeout.  *)
Admit(c, ends, via) ==
  call' = [call EXCEPT ![c] =
             [phase |-> "running", via |-> via, left |-> ends,
              probe |-> via = "half_open", seen |-> 0]]

AdmitHealthy(c) == \E timeout \in Timeouts, slow \in 0..Lag :
  /\ call[c].phase = "idle" /\ row.state = "healthy"
  /\ Admit(c, timeout + slow, "healthy")
  /\ UNCHANGED <<row, barred>>

(* The lease counts from the clock, read late ticks before the row is       *)
(* written; the run that it is for starts slow ticks after that.            *)
AdmitProbe(c) == \E timeout \in Timeouts, late, slow \in 0..Lag :
  /\ call[c].phase = "idle" /\ row.state # "healthy" /\ ~Refused
  /\ late + slow <= Lag
  /\ row' = [row EXCEPT !.state = "half_open", !.lease = Minus(Lease(timeout), late)]
  /\ Admit(c, timeout + slow, "half_open")
  /\ UNCHANGED barred

(* The database stayed busy: the breaker fails open.                        *)
AdmitBlind(c) == \E timeout \in Timeouts, slow \in 0..Lag :
  /\ DbBusy /\ call[c].phase = "idle"
  /\ Admit(c, timeout + slow, "unknown")
  /\ UNCHANGED <<row, barred>>

Returns(c) ==
  /\ call[c].phase = "running"
  /\ call' = [call EXCEPT ![c] = [Idle EXCEPT !.phase = "returned"]]
  /\ UNCHANGED <<row, barred>>

-------------------------------------------------------------------------------
(* The row becomes r, which is not half_open and so ends every probe;       *)
(* callers in gone have finished.                                           *)
Rewrite(r, gone) ==
  /\ row' = r
  /\ call' = [d \in Callers |->
                IF d \in gone THEN Idle ELSE [call[d] EXCEPT !.probe = FALSE]]

(* record_result(success): whatever the row says by then.                   *)
Succeeds(c) ==
  /\ call[c].phase = "returned"
  /\ Rewrite(Healthy(0), {c})
  /\ barred' = 0

(* _RELEASE_PROBE_SQL: after an exception, or a failure of another kind.    *)
ReleasedAny == Healthy(row.fails)    \* defect: no state = 'half_open'
Released == IF row.state = "half_open" THEN Healthy(row.fails) ELSE row

FailsOtherwise(c) ==
  /\ call[c].phase = "returned"
  /\ Rewrite(Released, {c})
  /\ UNCHANGED barred

(* A capacity failure reads the count in one statement ...                  *)
CountsFailures(c) ==
  /\ call[c].phase = "returned"
  /\ call' = [call EXCEPT ![c].phase = "counted", ![c].seen = row.fails]
  /\ UNCHANGED <<row, barred>>

DelayUncapped(n, hint) == IF hint > 0 THEN hint ELSE Lower(Maximum, Base * 2^(n - 1))
Delay(n, hint) == IF hint > 0 THEN Lower(Maximum, hint)
                  ELSE Lower(Maximum, Base * 2^(n - 1))

(* ... and writes the count and the cooldown in another, over whatever      *)
(* cooldown the row has by then, a longer one included.  The delay counts   *)
(* from the clock at the report's entry: cool of its ticks are left.        *)
CoolsDown(c) == \E hint \in Hints :
  LET n == Lower(call[c].seen + 1, FailCap)
  IN \E cool \in 0..Delay(n, hint) :
       /\ call[c].phase = "counted"
       /\ Rewrite([state |-> "cooling_down", cool |-> cool, lease |-> 0, fails |-> n], {c})
       /\ barred' = cool

(* The caller dies, or its report meets a busy database and is dropped.     *)
Unreported(c) ==
  /\ call[c].phase # "idle"
  /\ call' = [call EXCEPT ![c] = Idle]
  /\ UNCHANGED <<row, barred>>

(* clear_health: the operator deletes the row.                              *)
Clear ==
  /\ row # Healthy(0)
  /\ Rewrite(Healthy(0), {})
  /\ barred' = 0

(* A running dispatch returns before its timeout has passed.                *)
Tick ==
  /\ \A c \in Callers : call[c].phase = "running" => call[c].left > 0
  /\ row' = [row EXCEPT !.cool = Minus(@, 1), !.lease = Minus(@, 1)]
  /\ call' = [c \in Callers |-> [call[c] EXCEPT !.left = Minus(@, 1)]]
  /\ barred' = Minus(barred, 1)

CallNext(c) ==
  \/ AdmitHealthy(c) \/ AdmitProbe(c) \/ AdmitBlind(c)
  \/ Returns(c) \/ Succeeds(c) \/ FailsOtherwise(c)
  \/ CountsFailures(c) \/ CoolsDown(c) \/ Unreported(c)

BreakerNext == Clear \/ Tick \/ \E c \in Callers : CallNext(c)

BreakerSpec == BreakerInit /\ [][BreakerNext]_breaker
(* The clock advances and a dispatch returns by its timeout; nothing else   *)
(* is promised: callers may die, and no operator has to clear anything.     *)
BreakerFair == BreakerSpec /\ WF_breaker(Tick)
                 /\ \A c \in Callers : WF_breaker(Returns(c))

-------------------------------------------------------------------------------
BreakerTypeOK ==
  /\ row \in Row
  /\ call \in [Callers -> Call]
  /\ barred \in 0..Maximum

(* The breaker's own decision admits c in this step.                        *)
Admitted(c) == call[c].phase = "idle" /\ call'[c].via \in {"healthy", "half_open"}

(* The cooldown of the last capacity report runs its course: until it has,  *)
(* check_capacity lets nobody in, whatever other failures, released probes  *)
(* and late reports come in between, unless a success or the operator lifts *)
(* it.  A later capacity report does replace it, by a shorter one too.      *)
LastCooldownKept == [][\A c \in Callers : Admitted(c) => barred = 0]_breaker

(* Whether d still calls the provider as a probe that nobody has ended, and *)
(* may go on for more than the ticks its lease lost before the run began.   *)
Probing(d) ==
  call[d].phase = "running" /\ call[d].probe /\ call[d].left > Lag

(* No second caller is let in while a probe runs, up to the last Lag ticks  *)
(* of the longest run it may have, unless a peer's report or the operator   *)
(* ended the probe.  Those ticks are open, whatever the comment at the      *)
(* lease of check_capacity says: the lease starts before the run does.  The *)
(* dispatcher cuts the lease to Maximum, so longer timeouts are outside.    *)
ProbeUndisturbed ==
  [][\A c \in Callers : Admitted(c) /\ Timeouts \subseteq 0..Maximum =>
       \A d \in Callers \ {c} : ~Probing(d)]_breaker

(* As long as the database answers, neither a probe that died with its lease *)
(* nor pools cooled down again and again shut the scope for good.            *)
Reopens == <>[](\A c \in Callers : call[c].via # "unknown") => []<>(~Refused)

===============================================================================
