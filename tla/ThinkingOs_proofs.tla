-------------------------- MODULE ThinkingOs_proofs ---------------------------
(*****************************************************************************)
(* Proofs about thinking_os.  CapacityBreaker, for any number of dispatches, *)
(* any timeouts, lags and cooldown policy: the last cooldown runs its course *)
(* and nobody joins a probe while it may run for more than the lag that its  *)
(* lease lost before the run.  SchemaLedger: what replaying the              *)
(* migrations yields.  SchemaMigration, for any openers, releases and mix of *)
(* builds: the migrator works alone, the schema stays that of the recorded   *)
(* version, and SchemaMigration implements SchemaVersions.                   *)
(*****************************************************************************)
EXTENDS CapacityBreaker, SchemaMigration, WellFoundedInduction, TLAPS

(* The breaker. *)

(* The last report's cooldown, unless lifted, is still the row's.           *)
BarredInv == barred > 0 => row.state = "cooling_down" /\ barred <= row.cool

(* Who does nothing was let in by nothing.                                  *)
IdleInv == \A c \in Callers : call[c].phase = "idle" => call[c].via = "none"

(* A probe that nobody has ended finds its row half open, and leased for as *)
(* long as the probe may still run, but for the lag.                        *)
ProbeInv ==
  \A d \in Callers : call[d].phase = "running" /\ call[d].probe =>
    /\ row.state = "half_open"
    /\ Timeouts \subseteq 0..Maximum => call[d].left <= row.lease + Lag

(* The inductive invariant. *)
BInv == BreakerTypeOK /\ BarredInv /\ IdleInv /\ ProbeInv

-------------------------------------------------------------------------------
(* Every delay lies within the cooldown policy.                             *)
LEMMA DelayBounded ==
  ASSUME NEW n \in 1..FailCap, NEW hint \in Hints
  PROVE  Delay(n, hint) \in 0..Maximum
<1>1. hint \in Nat /\ Base * 2^(n - 1) \in Nat /\ Maximum \in Nat
  BY BreakerAssumption
<1> QED
  BY <1>1 DEF Delay, Lower

(* A lease is no longer than the maximum, and covers a timeout up to it.    *)
LEMMA LeaseBounded ==
  ASSUME NEW timeout \in Timeouts
  PROVE  /\ timeout \in Nat
         /\ Lease(timeout) \in 0..Maximum
         /\ Timeouts \subseteq 0..Maximum => Lease(timeout) = timeout
BY BreakerAssumption DEF Lease, Lower

(* A healthy row of any failure count is a row.                             *)
LEMMA HealthyTyped ==
  ASSUME NEW n \in 0..FailCap PROVE Healthy(n) \in Row
BY BreakerAssumption DEF Healthy, Row

(* The idle caller is a caller. *)
LEMMA IdleTyped == Idle \in Call /\ ~Idle.probe /\ Idle.via = "none"
<1>1. Idle \in Call /\ Idle.via = "none"
  BY BreakerAssumption DEF Idle, Call
<1>2. ~Idle.probe
  BY Zenon DEF Idle
<1> QED
  BY <1>1, <1>2

(* Rewriting the row ends every probe.                                      *)
LEMMA RewriteKeeps ==
  ASSUME BInv, NEW r \in Row, NEW gone \in SUBSET Callers, Rewrite(r, gone)
  PROVE  /\ row' \in Row /\ call' \in [Callers -> Call]
         /\ IdleInv' /\ ProbeInv'
<1>1. row' = r /\ row' \in Row
  BY DEF Rewrite
<1>2. ASSUME NEW d \in Callers
      PROVE  \/ call'[d] = Idle
             \/ call'[d] = [call[d] EXCEPT !.probe = FALSE]
  BY DEF Rewrite
<1>3. ASSUME NEW d \in Callers
      PROVE  /\ call'[d] \in Call
             /\ ~call'[d].probe
             /\ call'[d].phase = "idle" => call'[d].via = "none"
  <2>1. call[d] \in Call /\ (call[d].phase = "idle" => call[d].via = "none")
    BY DEF BInv, BreakerTypeOK, IdleInv
  <2>2. CASE call'[d] = Idle
    BY <2>2, IdleTyped
  <2>3. CASE call'[d] = [call[d] EXCEPT !.probe = FALSE]
    <3>1. call'[d] \in Call
      BY <2>1, <2>3 DEF Call
    <3>2. ~call'[d].probe
      BY <2>1, <2>3 DEF Call
    <3>3. call'[d].phase = call[d].phase /\ call'[d].via = call[d].via
      BY <2>1, <2>3 DEF Call
    <3> QED
      BY <2>1, <3>1, <3>2, <3>3
  <2> QED
    BY <1>2, <2>2, <2>3
<1>4. call' \in [Callers -> Call]
  <2>1. call' = [d \in Callers |-> call'[d]]
    BY DEF Rewrite
  <2> QED
    BY <2>1, <1>3
<1> QED
  BY <1>1, <1>3, <1>4 DEF IdleInv, ProbeInv

(* A step that changes the entry of one caller, who is not running a probe  *)
(* of its own after it, and leaves the row alone.                           *)
LEMMA OneCallKeeps ==
  ASSUME BInv, NEW c \in Callers, NEW k \in Call,
         call' = [call EXCEPT ![c] = k], UNCHANGED <<row, barred>>,
         k.phase = "idle" => k.via = "none",
         ~(k.phase = "running" /\ k.probe)
  PROVE  BInv'
BY DEF BInv, BreakerTypeOK, BarredInv, IdleInv, ProbeInv

(* What a caller is after it was admitted.                                  *)
LEMMA AdmitTyped ==
  ASSUME BInv, NEW c \in Callers, NEW ends \in Nat,
         NEW via \in {"healthy", "half_open", "unknown"}, Admit(c, ends, via)
  PROVE  \E k \in Call :
           /\ call' = [call EXCEPT ![c] = k]
           /\ k.phase = "running" /\ k.left = ends /\ k.via = via
           /\ k.probe <=> via = "half_open"
<1> DEFINE k == [phase |-> "running", via |-> via, left |-> ends,
                 probe |-> via = "half_open", seen |-> 0]
<1>1. k \in Call
  BY BreakerAssumption DEF Call
<1> QED
  BY <1>1 DEF Admit

-------------------------------------------------------------------------------

(* BInv holds at first, and every report, check and tick keeps it.         *)
LEMMA BreakerInductive ==
  /\ BreakerInit => BInv
  /\ BInv /\ [BreakerNext]_breaker => BInv'
<1>1. BreakerInit => BInv
  BY HealthyTyped, IdleTyped, BreakerAssumption
  DEF BreakerInit, BInv, BreakerTypeOK, BarredInv, IdleInv, ProbeInv, Idle
<1>2. BInv /\ [BreakerNext]_breaker => BInv'
  <2> SUFFICES ASSUME BInv, [BreakerNext]_breaker PROVE BInv'
    OBVIOUS
  <2>1. ASSUME NEW c \in Callers, AdmitHealthy(c) PROVE BInv'
    <3>1. PICK timeout \in Timeouts, slow \in 0..Lag :
            Admit(c, timeout + slow, "healthy") /\ UNCHANGED <<row, barred>>
      BY <2>1 DEF AdmitHealthy
    <3>2. timeout + slow \in Nat
      BY LeaseBounded, BreakerAssumption
    <3> QED
      BY <3>1, <3>2, AdmitTyped, OneCallKeeps
  <2>2. ASSUME NEW c \in Callers, AdmitBlind(c) PROVE BInv'
    <3>1. PICK timeout \in Timeouts, slow \in 0..Lag :
            Admit(c, timeout + slow, "unknown") /\ UNCHANGED <<row, barred>>
      BY <2>2 DEF AdmitBlind
    <3>2. timeout + slow \in Nat
      BY LeaseBounded, BreakerAssumption
    <3> QED
      BY <3>1, <3>2, AdmitTyped, OneCallKeeps
  <2>3. ASSUME NEW c \in Callers, AdmitProbe(c) PROVE BInv'
    <3>1. PICK timeout \in Timeouts, late \in 0..Lag, slow \in 0..Lag :
            /\ row.state # "healthy" /\ ~Refused /\ late + slow <= Lag
            /\ row' = [row EXCEPT !.state = "half_open", !.lease = Minus(Lease(timeout), late)]
            /\ Admit(c, timeout + slow, "half_open") /\ UNCHANGED barred
      BY <2>3 DEF AdmitProbe
    <3>2. /\ timeout + slow \in Nat /\ timeout \in Nat
          /\ Minus(Lease(timeout), late) \in 0..Maximum
          /\ Timeouts \subseteq 0..Maximum =>
               timeout + slow <= Minus(Lease(timeout), late) + Lag
      <4>1. late \in Nat /\ slow \in Nat /\ late + slow <= Lag /\ Lag \in Nat
        BY <3>1, BreakerAssumption
      <4> QED
        BY <4>1, LeaseBounded, BreakerAssumption DEF Minus
    <3>3. PICK k \in Call : /\ call' = [call EXCEPT ![c] = k]
                            /\ k.phase = "running" /\ k.left = timeout + slow
      BY <3>1, <3>2, AdmitTyped
    <3>4. row \in Row /\ row.lease = 0 /\ barred = 0
      <4>1. row \in Row /\ barred \in 0..Maximum
        BY DEF BInv, BreakerTypeOK
      <4> QED
        BY <4>1, <3>1 DEF Row, Refused, BInv, BarredInv
    <3>5. BreakerTypeOK'
      BY <3>1, <3>2, <3>3, <3>4 DEF BInv, BreakerTypeOK, Row
    <3>6. BarredInv' /\ IdleInv'
      BY <3>1, <3>3, <3>4 DEF BInv, BarredInv, IdleInv, BreakerTypeOK
    <3>7. row'.state = "half_open" /\ row'.lease = Minus(Lease(timeout), late)
      BY <3>1, <3>4 DEF Row
    <3>8. ASSUME NEW d \in Callers, call'[d].phase = "running", call'[d].probe,
                 Timeouts \subseteq 0..Maximum
          PROVE  call'[d].left <= row'.lease + Lag
      <4>1. CASE d = c
        <5>1. call'[d].left = timeout + slow
          BY <4>1, <3>3 DEF BInv, BreakerTypeOK
        <5> QED
          BY <5>1, <3>2, <3>7, <3>8
      <4>2. CASE d # c
        <5>1. call'[d] = call[d] /\ call[d] \in Call
          BY <4>2, <3>3 DEF BInv, BreakerTypeOK
        <5>2. call[d].left <= 0 + Lag
          BY <5>1, <3>4, <3>8 DEF BInv, ProbeInv
        <5>3. call[d].left \in Nat /\ Lag \in Nat /\ row'.lease \in Nat
          BY <5>1, <3>2, <3>7, BreakerAssumption DEF Call
        <5> QED
          BY <5>1, <5>2, <5>3
      <4> QED
        BY <4>1, <4>2
    <3> QED
      BY <3>5, <3>6, <3>7, <3>8 DEF BInv, ProbeInv
  <2>4. ASSUME NEW c \in Callers, Returns(c) \/ CountsFailures(c) PROVE BInv'
    <3>1. call[c] \in Call /\ row.fails \in 0..FailCap /\ call \in [Callers -> Call]
      BY DEF BInv, BreakerTypeOK, Row
    <3>2. CASE Returns(c)
      <4>1. [Idle EXCEPT !.phase = "returned"] \in Call
        BY IdleTyped DEF Call
      <4> QED
        BY <4>1, <3>2, OneCallKeeps DEF Returns, Idle
    <3>3. CASE CountsFailures(c)
      <4> DEFINE k == [call[c] EXCEPT !.phase = "counted", !.seen = row.fails]
      <4>1. k \in Call /\ k.phase = "counted"
        BY <3>1 DEF Call
      <4>2. call' = [call EXCEPT ![c] = k] /\ UNCHANGED <<row, barred>>
        BY <3>1, <3>3 DEF CountsFailures
      <4> HIDE DEF k
      <4> QED
        BY <4>1, <4>2, OneCallKeeps
    <3> QED
      BY <2>4, <3>2, <3>3
  <2>5. ASSUME NEW c \in Callers, Unreported(c) PROVE BInv'
    BY <2>5, OneCallKeeps, IdleTyped DEF Unreported, Idle
  <2>6. ASSUME NEW c \in Callers, Succeeds(c) PROVE BInv'
    <3>1. Healthy(0) \in Row
      BY HealthyTyped, BreakerAssumption
    <3>2. Rewrite(Healthy(0), {c}) /\ barred' = 0
      BY <2>6 DEF Succeeds
    <3>3. /\ row' \in Row /\ call' \in [Callers -> Call] /\ IdleInv' /\ ProbeInv'
      BY <3>1, <3>2, RewriteKeeps
    <3> QED
      BY <3>2, <3>3, BreakerAssumption DEF BInv, BreakerTypeOK, BarredInv
  <2>7. ASSUME Clear PROVE BInv'
    <3>1. Healthy(0) \in Row
      BY HealthyTyped, BreakerAssumption
    <3>2. Rewrite(Healthy(0), {}) /\ barred' = 0
      BY <2>7 DEF Clear
    <3>3. /\ row' \in Row /\ call' \in [Callers -> Call] /\ IdleInv' /\ ProbeInv'
      BY <3>1, <3>2, RewriteKeeps
    <3> QED
      BY <3>2, <3>3, BreakerAssumption DEF BInv, BreakerTypeOK, BarredInv
  <2>8. ASSUME NEW c \in Callers, FailsOtherwise(c) PROVE BInv'
    <3>1. row \in Row
      BY DEF BInv, BreakerTypeOK
    <3>2. Released \in Row
      BY <3>1, HealthyTyped DEF Released, Healthy, Row
    <3>3. Rewrite(Released, {c}) /\ UNCHANGED barred
      BY <2>8 DEF FailsOtherwise
    <3>4. /\ row' \in Row /\ call' \in [Callers -> Call] /\ IdleInv' /\ ProbeInv'
      BY <3>2, <3>3, RewriteKeeps
    <3>5. BarredInv'
      BY <3>3 DEF BInv, BarredInv, Rewrite, Released
    <3> QED
      BY <3>3, <3>4, <3>5 DEF BInv, BreakerTypeOK
  <2>9. ASSUME NEW c \in Callers, CoolsDown(c) PROVE BInv'
    <3>1. PICK hint \in Hints :
            LET n == Lower(call[c].seen + 1, FailCap)
            IN  \E cool \in 0..Delay(n, hint) :
                  /\ Rewrite([state |-> "cooling_down", cool |-> cool, lease |-> 0,
                              fails |-> n], {c})
                  /\ barred' = cool
      BY <2>9 DEF CoolsDown
    <3> DEFINE n == Lower(call[c].seen + 1, FailCap)
    <3>2. n \in 1..FailCap
      <4>1. call[c].seen \in 0..FailCap
        BY DEF BInv, BreakerTypeOK, Call
      <4> QED
        BY <4>1, BreakerAssumption DEF Lower
    <3>3. Delay(n, hint) \in 0..Maximum
      BY <3>2, DelayBounded
    <3> DEFINE r(cool) == [state |-> "cooling_down", cool |-> cool, lease |-> 0, fails |-> n]
    <3>4. PICK cool \in 0..Delay(n, hint) : Rewrite(r(cool), {c}) /\ barred' = cool
      BY <3>1
    <3> HIDE DEF n
    <3>5. cool \in 0..Maximum /\ r(cool) \in Row
      BY <3>2, <3>3, BreakerAssumption DEF Row
    <3>6. /\ row' \in Row /\ call' \in [Callers -> Call] /\ IdleInv' /\ ProbeInv'
      BY <3>4, <3>5, RewriteKeeps
    <3>7. row' = r(cool)
      BY <3>4 DEF Rewrite
    <3> QED
      BY <3>4, <3>5, <3>6, <3>7 DEF BInv, BreakerTypeOK, BarredInv
  <2>10. ASSUME Tick PROVE BInv'
    <3>1. row \in Row /\ call \in [Callers -> Call] /\ barred \in 0..Maximum
      BY DEF BInv, BreakerTypeOK
    <3>2. /\ row' = [row EXCEPT !.cool = Minus(row.cool, 1), !.lease = Minus(row.lease, 1)]
          /\ barred' = Minus(barred, 1)
          /\ \A d \in Callers : call'[d] = [call[d] EXCEPT !.left = Minus(call[d].left, 1)]
          /\ call' = [d \in Callers |-> [call[d] EXCEPT !.left = Minus(call[d].left, 1)]]
      BY <2>10 DEF Tick
    <3>3. row' \in Row /\ barred' \in 0..Maximum
      <4>1. \A n \in 0..Maximum : Minus(n, 1) \in 0..Maximum
        BY BreakerAssumption DEF Minus
      <4>2. row.cool \in 0..Maximum /\ row.lease \in 0..Maximum
        BY <3>1 DEF Row
      <4> QED
        BY <3>1, <3>2, <4>1, <4>2 DEF Row
    <3>4. ASSUME NEW d \in Callers
          PROVE  /\ call'[d] \in Call
                 /\ call'[d].phase = "idle" => call'[d].via = "none"
      <4>1. call[d] \in Call /\ (call[d].phase = "idle" => call[d].via = "none")
        BY <3>1 DEF BInv, IdleInv
      <4> QED
        BY <4>1, <3>2 DEF Call, Minus
    <3>5. BreakerTypeOK'
      BY <3>2, <3>3, <3>4 DEF BreakerTypeOK
    <3>6. BarredInv'
      BY <3>1, <3>2 DEF BInv, BarredInv, Row, Minus
    <3>7. ASSUME NEW d \in Callers, call'[d].phase = "running", call'[d].probe
          PROVE  /\ row'.state = "half_open"
                 /\ Timeouts \subseteq 0..Maximum => call'[d].left <= row'.lease + Lag
      <4>1. call[d] \in Call /\ call[d].phase = "running" /\ call[d].probe
        BY <3>1, <3>2, <3>7 DEF Call
      <4>2. /\ row.state = "half_open"
            /\ Timeouts \subseteq 0..Maximum => call[d].left <= row.lease + Lag
        BY <4>1 DEF BInv, ProbeInv
      <4> QED
        BY <4>1, <4>2, <3>1, <3>2, BreakerAssumption DEF Call, Row, Minus
    <3> QED
      BY <3>4, <3>5, <3>6, <3>7 DEF BInv, IdleInv, ProbeInv
  <2>11. CASE UNCHANGED breaker
    BY <2>11 DEF breaker, BInv, BreakerTypeOK, BarredInv, IdleInv, ProbeInv
  <2> QED
    BY <2>1, <2>2, <2>3, <2>4, <2>5, <2>6, <2>7, <2>8, <2>9, <2>10, <2>11
    DEF BreakerNext, CallNext
<1> QED
  BY <1>1, <1>2

(* The inductive invariant holds throughout.                               *)
LEMMA BreakerInvariant == BreakerSpec => []BInv
BY BreakerInductive, PTL DEF BreakerSpec

(* The breaker's row, its callers and its deadlines keep their types: every *)
(* cooldown and every lease lies within the policy's maximum.               *)
THEOREM BreakerTypeCorrect == BreakerSpec => []BreakerTypeOK
<1>1. BInv => BreakerTypeOK
  BY DEF BInv
<1> QED
  BY <1>1, BreakerInvariant, PTL

-------------------------------------------------------------------------------
(* A caller is let in by the breaker in two ways only.                      *)
LEMMA AdmittedHow ==
  ASSUME BInv, [BreakerNext]_breaker, NEW c \in Callers, Admitted(c)
  PROVE  \/ AdmitHealthy(c) /\ row.state = "healthy"
         \/ AdmitProbe(c) /\ ~Refused /\ row.state # "healthy"
<1>1. call[c].phase = "idle" /\ call[c].via = "none" /\ call \in [Callers -> Call]
  BY DEF BInv, IdleInv, Admitted, BreakerTypeOK
<1>2. call'[c].via \in {"healthy", "half_open"}
  BY DEF Admitted
<1>3. ASSUME call'[c].via = "none" PROVE FALSE
  BY <1>2, <1>3
<1>4. ASSUME NEW r, NEW gone, Rewrite(r, gone) PROVE FALSE
  BY <1>1, <1>3, <1>4, IdleTyped DEF Rewrite
<1>5. ASSUME NEW d \in Callers \ {c}, NEW k, call' = [call EXCEPT ![d] = k] PROVE FALSE
  BY <1>1, <1>3, <1>5
<1>6. CASE UNCHANGED breaker
  BY <1>6, <1>1, <1>3 DEF breaker
<1>7. CASE Tick
  BY <1>7, <1>1, <1>2 DEF Tick, Call, Minus
<1>8. CASE Clear
  BY <1>8, <1>4 DEF Clear
<1>9. ASSUME NEW d \in Callers, Succeeds(d) \/ FailsOtherwise(d) \/ CoolsDown(d) PROVE FALSE
  BY <1>9, <1>4 DEF Succeeds, FailsOtherwise, CoolsDown
<1>10. ASSUME NEW d \in Callers, Returns(d) \/ CountsFailures(d) \/ Unreported(d) PROVE FALSE
  <2>1. d # c
    BY <1>1, <1>10 DEF Returns, CountsFailures, Unreported, Idle
  <2> QED
    BY <2>1, <1>1, <1>3, <1>10 DEF Returns, CountsFailures, Unreported
<1>11. ASSUME NEW d \in Callers, AdmitBlind(d) PROVE FALSE
  <2>1. PICK timeout \in Timeouts, slow \in 0..Lag : Admit(d, timeout + slow, "unknown")
    BY <1>11 DEF AdmitBlind
  <2> QED
    BY <2>1, <1>1, <1>2, <1>3 DEF Admit
<1>12. ASSUME NEW d \in Callers \ {c}, AdmitHealthy(d) \/ AdmitProbe(d) PROVE FALSE
  BY <1>12, <1>1, <1>3 DEF AdmitHealthy, AdmitProbe, Admit
<1>13. AdmitHealthy(c) \/ AdmitProbe(c)
  BY <1>6, <1>7, <1>8, <1>9, <1>10, <1>11, <1>12 DEF BreakerNext, CallNext
<1> QED
  BY <1>13 DEF AdmitHealthy, AdmitProbe

(* Until the cooldown of the last capacity report has passed, nobody is let *)
(* in by the breaker's own decision, unless a success or the operator       *)
(* lifted it; a later report, whatever its delay, puts its own in its place. *)
THEOREM LastCooldownHolds == BreakerSpec => LastCooldownKept
<1>1. BInv /\ [BreakerNext]_breaker => [\A c \in Callers : Admitted(c) => barred = 0]_breaker
  <2> SUFFICES ASSUME BInv, [BreakerNext]_breaker, NEW c \in Callers, Admitted(c)
               PROVE  barred = 0
    OBVIOUS
  <2>1. barred \in 0..Maximum /\ row \in Row
    BY DEF BInv, BreakerTypeOK
  <2>2. barred > 0 => row.state = "cooling_down" /\ row.cool > 0
    BY <2>1, BreakerAssumption DEF BInv, BarredInv, Row
  <2> QED
    BY <2>1, <2>2, AdmittedHow, BreakerAssumption DEF Refused
<1> QED
  BY <1>1, BreakerInvariant, PTL DEF BreakerSpec, LastCooldownKept

(* Nobody joins a probe that no peer has ended while it may run for longer  *)
(* than the lag between the clock of its check and the start of its run, as *)
(* long as timeouts stay within the ceiling the dispatcher puts on leases.  *)
THEOREM ProbeHolds == BreakerSpec => ProbeUndisturbed
<1>1. BInv /\ [BreakerNext]_breaker =>
        [\A c \in Callers : Admitted(c) /\ Timeouts \subseteq 0..Maximum =>
           \A d \in Callers \ {c} : ~Probing(d)]_breaker
  <2> SUFFICES ASSUME BInv, [BreakerNext]_breaker, NEW c \in Callers, Admitted(c),
                      Timeouts \subseteq 0..Maximum,
                      NEW d \in Callers \ {c}, Probing(d)
               PROVE  FALSE
    OBVIOUS
  <2>1. call[d] \in Call /\ row \in Row
    BY DEF BInv, BreakerTypeOK
  <2>2. row.state = "half_open" /\ call[d].left > Lag /\ call[d].left <= row.lease + Lag
    BY DEF BInv, ProbeInv, Probing
  <2>3. Refused
    BY <2>1, <2>2, BreakerAssumption DEF Refused, Call, Row
  <2> QED
    BY <2>2, <2>3, AdmittedHow
<1> QED
  BY <1>1, BreakerInvariant, PTL DEF BreakerSpec, ProbeUndisturbed

-------------------------------------------------------------------------------

(* The ledger. *)

(* A set of numbers that is not empty has a least one.                     *)
LEMMA LeastExists ==
  ASSUME NEW T, T \subseteq Nat, T # {}
  PROVE  \E x \in T : \A y \in T : x <= y
<1> DEFINE R == OpToRel(<, Nat)
<1>1. IsWellFoundedOn(R, Nat)
  BY NatLessThanWellFounded
<1>2. \E x \in T : \A y \in T : ~ (<<y, x>> \in R)
  <2> HIDE DEF R
  <2> QED BY <1>1, WFMin
<1>3. ASSUME NEW x \in Nat, NEW y \in Nat, x < y
      PROVE  <<x, y>> \in R
  <2>1. <<x, y>> \in Nat \X Nat
    OBVIOUS
  <2> QED
    BY <1>3, <2>1 DEF OpToRel
<1> HIDE DEF R
<1>4. PICK x \in T : \A y \in T : ~ (<<y, x>> \in R)
  BY <1>2
<1>5. ASSUME NEW y \in T
      PROVE  x <= y
  <2>1. x \in Nat /\ y \in Nat
    OBVIOUS
  <2>2. ~ (y < x)
    BY <1>3, <1>4, <2>1
  <2> QED
    BY <2>1, <2>2
<1> QED
  BY <1>5

(* Induction up to n, for a set of numbers. *)
LEMMA Counting ==
  ASSUME NEW n \in Nat, NEW S, 0 \in S, \A i \in 0..n : i \in S /\ i + 1 <= n => i + 1 \in S
  PROVE  \A i \in 0..n : i \in S
<1> DEFINE T == {i \in 0..n : i \notin S}
<1> SUFFICES ASSUME T # {} PROVE FALSE
  OBVIOUS
<1>1. PICK x \in T : \A y \in T : x <= y
  <2>1. T \subseteq Nat
    OBVIOUS
  <2> HIDE DEF T
  <2> QED BY <2>1, LeastExists
<1>2. x \in 0..n /\ x \notin S /\ x # 0
  BY <1>1
<1>3. x - 1 \in 0..n /\ ~(x <= x - 1) /\ (x - 1) + 1 = x
  BY <1>2
<1>4. x - 1 \in S
  BY <1>1, <1>3
<1> QED BY <1>2, <1>3, <1>4

(* The schemas of the versions up to v. *)
IsHistory(g, v, P) ==
  g = [u \in 0..v |-> IF u = 0 THEN Blank ELSE Body(u, g[u - 1], u \notin P)]

(* Replay is the end of a history. *)
LEMMA ReplayIs ==
  ASSUME NEW v, NEW P
  PROVE  Replay(v, P) = (CHOOSE g : IsHistory(g, v, P))[v]
BY DEF Replay, IsHistory

(* A history, version by version. *)
LEMMA HistoryParts ==
  ASSUME NEW v \in Nat, NEW P, NEW g, IsHistory(g, v, P)
  PROVE  /\ DOMAIN g = 0..v
         /\ g[0] = Blank
         /\ \A u \in 1..v : g[u] = Body(u, g[u - 1], u \notin P)
<1>1. g = [u \in 0..v |-> IF u = 0 THEN Blank ELSE Body(u, g[u - 1], u \notin P)]
  BY DEF IsHistory
<1> QED BY <1>1

(* There is a history up to every version. *)
LEMMA HistoryExists ==
  ASSUME NEW n \in Nat, NEW P
  PROVE  \E g : IsHistory(g, n, P)
<1> DEFINE S == {i \in Nat : \E g : IsHistory(g, i, P)}
<1>1. 0 \in S
  <2> DEFINE g == [u \in 0..0 |-> Blank]
  <2>1. g = [u \in 0..0 |-> IF u = 0 THEN Blank ELSE Body(u, g[u - 1], u \notin P)]
    OBVIOUS
  <2>2. IsHistory(g, 0, P)
    BY <2>1 DEF IsHistory
  <2> QED BY <2>2
<1>2. ASSUME NEW i \in 0..n, i \in S PROVE i + 1 \in S
  <2>1. PICK g : IsHistory(g, i, P)
    BY <1>2
  <2> DEFINE h == [u \in 0..(i + 1) |-> IF u <= i THEN g[u] ELSE Body(u, g[u - 1], u \notin P)]
  <2>2. ASSUME NEW u \in 0..(i + 1)
        PROVE  h[u] = IF u = 0 THEN Blank ELSE Body(u, h[u - 1], u \notin P)
    <3>1. /\ DOMAIN g = 0..i
          /\ g[0] = Blank
          /\ \A x \in 1..i : g[x] = Body(x, g[x - 1], x \notin P)
      BY <2>1, HistoryParts
    <3>2. CASE u = 0
      BY <3>1, <3>2
    <3>3. CASE u # 0
      <4>1. h[u - 1] = g[u - 1] /\ u - 1 \in 0..i /\ u \in 1..(i + 1)
        BY <3>3
      <4>2. h[u] = Body(u, g[u - 1], u \notin P)
        BY <3>1, <3>3
      <4> HIDE DEF h
      <4> QED BY <3>3, <4>1, <4>2
    <3> QED BY <3>2, <3>3
  <2>3. h = [u \in 0..(i + 1) |-> h[u]]
    OBVIOUS
  <2> HIDE DEF h
  <2>4. h = [u \in 0..(i + 1) |-> IF u = 0 THEN Blank ELSE Body(u, h[u - 1], u \notin P)]
    BY <2>2, <2>3
  <2>5. IsHistory(h, i + 1, P)
    BY <2>4 DEF IsHistory
  <2> QED BY <2>5
<1> HIDE DEF S
<1>3. n \in S
  BY <1>1, <1>2, Counting
<1> QED BY <1>3 DEF S

(* Two histories agree as far as both go. *)
LEMMA HistoriesAgree ==
  ASSUME NEW m \in Nat, NEW n \in Nat, m <= n, NEW P, NEW g, NEW h,
         IsHistory(g, m, P), IsHistory(h, n, P)
  PROVE  \A u \in 0..m : g[u] = h[u]
<1> DEFINE S == {i \in Nat : g[i] = h[i]}
<1>1. /\ g[0] = Blank /\ \A u \in 1..m : g[u] = Body(u, g[u - 1], u \notin P)
      /\ h[0] = Blank /\ \A u \in 1..n : h[u] = Body(u, h[u - 1], u \notin P)
  BY HistoryParts
<1>2. 0 \in S
  BY <1>1
<1>3. ASSUME NEW i \in 0..m, i \in S, i + 1 <= m PROVE i + 1 \in S
  <2>1. g[i + 1] = Body(i + 1, g[i], i + 1 \notin P) /\ h[i + 1] = Body(i + 1, h[i], i + 1 \notin P)
    <3>1. i + 1 \in 1..m /\ i + 1 \in 1..n /\ (i + 1) - 1 = i
      BY <1>3
    <3> QED BY <1>1, <3>1
  <2> QED BY <1>3, <2>1
<1> HIDE DEF S
<1>4. \A i \in 0..m : i \in S
  BY <1>2, <1>3, Counting
<1> QED BY <1>4 DEF S

(* Replay steps through the ledger. *)
LEMMA ReplaySteps ==
  ASSUME NEW P
  PROVE  /\ Replay(0, P) = Blank
         /\ \A v \in Nat \ {0} : Replay(v, P) = Body(v, Replay(v - 1, P), v \notin P)
<1>1. ASSUME NEW v \in Nat
      PROVE  \E g : IsHistory(g, v, P) /\ Replay(v, P) = g[v]
  <2> DEFINE g == CHOOSE h : IsHistory(h, v, P)
  <2>1. IsHistory(g, v, P)
    BY HistoryExists
  <2>2. Replay(v, P) = g[v]
    BY ReplayIs
  <2> QED BY <2>1, <2>2
<1>2. Replay(0, P) = Blank
  <2>1. PICK g : IsHistory(g, 0, P) /\ Replay(0, P) = g[0]
    BY <1>1
  <2> QED BY <2>1, HistoryParts
<1>3. ASSUME NEW v \in Nat \ {0}
      PROVE  Replay(v, P) = Body(v, Replay(v - 1, P), v \notin P)
  <2>1. PICK g : IsHistory(g, v, P) /\ Replay(v, P) = g[v]
    BY <1>1
  <2>2. PICK h : IsHistory(h, v - 1, P) /\ Replay(v - 1, P) = h[v - 1]
    BY <1>1
  <2>3. g[v - 1] = h[v - 1]
    BY <2>1, <2>2, HistoriesAgree
  <2>4. g[v] = Body(v, g[v - 1], v \notin P)
    BY <2>1, HistoryParts
  <2> QED BY <2>1, <2>2, <2>3, <2>4
<1> QED BY <1>2, <1>3

(* The ledger has 55 versions. *)
LEMMA LastIs == Last = 55
BY DEF Last, MIGRATIONS


(* A version that only creates tables, adds columns and updates rows. *)
Quiet(m) ==
  m.mirrors = {} /\ m.rebuilds = {} /\ m.triggers = {} /\ m.drops = {} /\ m.unchecked = {}

(* The versions that do more. *)
Special == {2, 7, 9, 12, 15, 21, 29, 35, 42, 43, 45, 49, 55}

(* Every version but the special ones is quiet: the ledger, read through. *)
LEMMA QuietVersions == \A v \in 1..Last \ Special : Quiet(MIGRATIONS[v])
<1>1. /\ Quiet(V1) /\ Quiet(V3) /\ Quiet(V4) /\ Quiet(V5) /\ Quiet(V6) /\
         Quiet(V8) /\ Quiet(V10) /\ Quiet(V11) /\ Quiet(V13) /\ Quiet(V14) /\
         Quiet(V16) /\ Quiet(V17) /\ Quiet(V18) /\ Quiet(V19) /\
         Quiet(V20) /\ Quiet(V22) /\ Quiet(V23) /\ Quiet(V24) /\
         Quiet(V25) /\ Quiet(V26) /\ Quiet(V27) /\ Quiet(V28) /\
         Quiet(V30) /\ Quiet(V31) /\ Quiet(V32) /\ Quiet(V33) /\
         Quiet(V34) /\ Quiet(V36) /\ Quiet(V37) /\ Quiet(V38) /\
         Quiet(V39) /\ Quiet(V40) /\ Quiet(V41) /\ Quiet(V44) /\
         Quiet(V46) /\ Quiet(V47) /\ Quiet(V48) /\ Quiet(V50) /\
         Quiet(V51) /\ Quiet(V52) /\ Quiet(V53) /\ Quiet(V54)
  <2>1. Quiet(V1) /\ Quiet(V3) /\ Quiet(V4) /\ Quiet(V5) /\ Quiet(V6) /\
        Quiet(V8) /\ Quiet(V10) /\ Quiet(V11) /\ Quiet(V13) /\ Quiet(V14) /\
        Quiet(V16)
    BY DEF Quiet, Nothing, V1, V3, V4, V5, V6, V8, V10, V11, V13, V14, V16
  <2>2. Quiet(V17) /\ Quiet(V18) /\ Quiet(V19) /\ Quiet(V20) /\ Quiet(V22) /\
        Quiet(V23) /\ Quiet(V24) /\ Quiet(V25) /\ Quiet(V26) /\ Quiet(V27) /\
        Quiet(V28)
    BY DEF Quiet, Nothing, V17, V18, V19, V20, V22, V23, V24, V25, V26, V27, V28
  <2>3. Quiet(V30) /\ Quiet(V31) /\ Quiet(V32) /\ Quiet(V33) /\ Quiet(V34) /\
        Quiet(V36) /\ Quiet(V37) /\ Quiet(V38) /\ Quiet(V39) /\ Quiet(V40) /\
        Quiet(V41)
    BY DEF Quiet, Nothing, V30, V31, V32, V33, V34, V36, V37, V38, V39, V40, V41
  <2>4. Quiet(V44) /\ Quiet(V46) /\ Quiet(V47) /\ Quiet(V48) /\ Quiet(V50) /\
        Quiet(V51) /\ Quiet(V52) /\ Quiet(V53) /\ Quiet(V54)
    BY DEF Quiet, Nothing, V44, V46, V47, V48, V50, V51, V52, V53, V54
  <2> QED BY <2>1, <2>2, <2>3, <2>4
<1>2. ASSUME NEW v \in 1..Last \ Special
      PROVE  MIGRATIONS[v] \in {V1, V3, V4, V5, V6, V8, V10, V11, V13, V14, V16, V17, V18, V19,
          V20, V22, V23, V24, V25, V26, V27, V28, V30, V31, V32, V33, V34,
          V36, V37, V38, V39, V40, V41, V44, V46, V47, V48, V50, V51, V52,
          V53, V54}
  BY LastIs DEF MIGRATIONS, Special
<1> QED BY <1>1, <1>2

(* Where the special versions stand in the ledger. *)
LEMMA SpecialVersions ==
  /\ MIGRATIONS[2] = V2 /\ MIGRATIONS[7] = V7 /\ MIGRATIONS[9] = V9 /\ MIGRATIONS[12] = V12
  /\ MIGRATIONS[15] = V15 /\ MIGRATIONS[21] = V21 /\ MIGRATIONS[29] = V29
  /\ MIGRATIONS[35] = V35 /\ MIGRATIONS[42] = V42 /\ MIGRATIONS[43] = V43
  /\ MIGRATIONS[45] = V45 /\ MIGRATIONS[49] = V49 /\ MIGRATIONS[55] = V55
BY DEF MIGRATIONS

(* The tables the triggers name, and the versions that create them. *)
LEMMA Creators ==
  /\ {"task_outcomes", "learned_patterns", "observations"} \subseteq MIGRATIONS[1].tables
  /\ "document_chunks" \in MIGRATIONS[5].tables
  /\ "tasks" \in MIGRATIONS[6].tables
  /\ "memory_audit" \in MIGRATIONS[7].tables
  /\ {"graph_nodes", "graph_edges_v12"} \subseteq MIGRATIONS[12].tables
  /\ "task_status_history" \in MIGRATIONS[13].tables
  /\ "doc_audit_trail" \in MIGRATIONS[21].tables
  /\ "task_edit_history" \in MIGRATIONS[31].tables
  /\ "task_dependencies" \in MIGRATIONS[35].tables
BY DEF MIGRATIONS, V1, V5, V6, V7, V12, V13, V21, V31, V35, Nothing

(* What the names of a version are drawn from. *)
LEMMA InTables ==
  /\ {"task_outcomes", "learned_patterns", "observations", "document_chunks", "tasks",
      "memory_audit", "graph_nodes", "graph_edges_v12", "task_status_history",
      "doc_audit_trail", "task_edit_history", "task_dependencies"} \subseteq Tables
  /\ \A v \in 1..Last :
       /\ MIGRATIONS[v].tables \subseteq Tables
       /\ MIGRATIONS[v].columns \cup MIGRATIONS[v].unchecked \subseteq Columns
       /\ \A p \in MIGRATIONS[v].mirrors : p[1] \in Tables
       /\ \A r \in MIGRATIONS[v].rebuilds : r[2] \in Tables
<1>1. \A v \in 1..Last : MIGRATIONS[v].tables \subseteq Tables
  BY DEF Tables
<1>2. \A v \in 1..Last : MIGRATIONS[v].columns \cup MIGRATIONS[v].unchecked \subseteq Columns
  BY DEF Columns
<1>3. ASSUME NEW v \in 1..Last, NEW p \in MIGRATIONS[v].mirrors PROVE p[1] \in Tables
  <2> DEFINE all == UNION {MIGRATIONS[w].mirrors : w \in 1..Last}
  <2>1. p \in all
    OBVIOUS
  <2>2. {m[1] : m \in all} \subseteq SearchTables
    BY DEF SearchTables
  <2>3. SearchTables \subseteq Tables
    BY DEF Tables
  <2> HIDE DEF all
  <2> QED BY <2>1, <2>2, <2>3
<1>4. ASSUME NEW v \in 1..Last, NEW r \in MIGRATIONS[v].rebuilds PROVE r[2] \in Tables
  <2> DEFINE all == UNION {MIGRATIONS[w].rebuilds : w \in 1..Last}
  <2>1. r \in all
    OBVIOUS
  <2>2. {m[2] : m \in all} \subseteq SearchTables
    BY DEF SearchTables
  <2>3. SearchTables \subseteq Tables
    BY DEF Tables
  <2> HIDE DEF all
  <2> QED BY <2>1, <2>2, <2>3
<1>5. {1, 5, 6, 7, 12, 13, 21, 31, 35} \subseteq 1..Last
  BY LastIs
<1> QED BY <1>1, <1>2, <1>3, <1>4, <1>5, Creators

-------------------------------------------------------------------------------

(* The mirrors a body creates. *)
Created(v, fts5) == IF fts5 THEN MIGRATIONS[v].mirrors ELSE {}

(* A body without a rebuild renames nothing. *)
LEMMA WholeWithoutRebuild ==
  ASSUME NEW v \in 1..Last, MIGRATIONS[v].rebuilds = {}, NEW s \in Schema, NEW fts5 \in BOOLEAN,
         MIGRATIONS[v].triggers \subseteq [on : Tables, into : Tables \cup {Abort}]
  PROVE  /\ Whole(v, s, fts5).tables
              = (s.tables \cup MIGRATIONS[v].tables \cup {p[1] : p \in Created(v, fts5)})
                \ MIGRATIONS[v].drops
         /\ Whole(v, s, fts5).triggers
              = {g \in s.triggers \cup MIGRATIONS[v].triggers
                        \cup {[on |-> p[2], into |-> p[1]] : p \in Created(v, fts5)} :
                   g.on \notin MIGRATIONS[v].drops}
         /\ Whole(v, s, fts5).columns \subseteq Columns
<1> DEFINE m == MIGRATIONS[v]
           tables == s.tables \cup m.tables \cup {p[1] : p \in Created(v, fts5)}
           triggers == s.triggers \cup m.triggers
                       \cup {[on |-> p[2], into |-> p[1]] : p \in Created(v, fts5)}
           left == {h \in triggers : h.on \notin m.drops}
<1>1. \A name : Renamed(v, name) = name
  BY DEF Renamed
<1>2. Whole(v, s, fts5)
        = [tables |-> {Renamed(v, t) : t \in tables} \ m.drops,
           columns |-> {c \in s.columns \cup m.columns \cup m.unchecked :
                          c[1] \in {Renamed(v, t) : t \in tables} \ m.drops},
           triggers |-> {[on |-> g.on, into |-> Renamed(v, g.into)] : g \in left}]
  BY DEF Whole, Created
<1>3. \A g \in triggers : g = [on |-> g.on, into |-> g.into]
  BY DEF Schema
<1> HIDE DEF tables, triggers
<1>4. {Renamed(v, t) : t \in tables} = tables
  BY <1>1
<1>5. {[on |-> g.on, into |-> Renamed(v, g.into)] : g \in left} = left
  <2>1. \A g \in left : [on |-> g.on, into |-> Renamed(v, g.into)] = g
    BY <1>1, <1>3
  <2> HIDE DEF left
  <2> QED BY <2>1
<1>6. m.columns \cup m.unchecked \subseteq Columns /\ s.columns \subseteq Columns
  BY InTables DEF Schema
<1> QED BY <1>2, <1>4, <1>5, <1>6 DEF tables, triggers

(* A trigger of a surviving table never writes a table that is gone. *)
Closed(s) == \A g \in s.triggers : g.on \in s.tables /\ g.into \in s.tables \cup {Abort}

(* What a trigger writes: nothing, a table that is never dropped, or the   *)
(* mirror of the table it is on.                                           *)
KnownTrigger(g) ==
  \/ g.into \in {Abort, "task_dependencies", "task_status_history", "task_outcomes",
                 "task_edit_history", "document_chunks_fts", "graph_nodes_fts_porter",
                 "graph_nodes_fts", "tasks_fts"}
  \/ g.into = "observations_fts" /\ g.on = "observations"

(* The tables that triggers need, from the version that creates them on.   *)
HasTables(v, tables) ==
  /\ v >= 1 => "task_outcomes" \in tables
  /\ v >= 1 /\ v < 55 => {"learned_patterns", "observations"} \subseteq tables
  /\ v >= 5 => "document_chunks" \in tables
  /\ v >= 6 => "tasks" \in tables
  /\ v >= 12 => {"graph_nodes", "graph_edges_v12"} \subseteq tables
  /\ v >= 13 => "task_status_history" \in tables
  /\ v >= 31 => "task_edit_history" \in tables

SchemaInv(v, s) ==
  /\ s \in Schema
  /\ Closed(s)
  /\ \A g \in s.triggers : KnownTrigger(g) /\ g.on # "graph_nodes_fts_porter"
  /\ HasTables(v, s.tables)

(* What holds of the schema of version v, whichever builds migrated it, is *)
(* kept by a quiet version: tables are added, triggers stay.               *)
LEMMA QuietKeeps ==
  ASSUME NEW v \in 1..Last, v \notin Special, NEW s, SchemaInv(v - 1, s), NEW fts5 \in BOOLEAN
  PROVE  SchemaInv(v, Body(v, s, fts5))
<1> DEFINE m == MIGRATIONS[v]
           w == Whole(v, s, fts5)
<1>1. Quiet(m)
  BY QuietVersions
<1>2. /\ w.tables = s.tables \cup m.tables /\ w.triggers = s.triggers
      /\ w.columns \subseteq Columns
  <2>1. Created(v, fts5) = {}
    BY <1>1 DEF Created, Quiet
  <2>2. /\ {p[1] : p \in Created(v, fts5)} = {}
        /\ {[on |-> p[2], into |-> p[1]] : p \in Created(v, fts5)} = {}
    BY <2>1
  <2>3. /\ m.rebuilds = {} /\ m.triggers = {} /\ m.drops = {} /\ s \in Schema
    BY <1>1 DEF Quiet, SchemaInv
  <2>4. m.triggers \subseteq [on : Tables, into : Tables \cup {Abort}]
    BY <2>3
  <2>5. /\ w.tables = (s.tables \cup m.tables \cup {p[1] : p \in Created(v, fts5)}) \ m.drops
        /\ w.triggers
              = {g \in s.triggers \cup m.triggers
                        \cup {[on |-> p[2], into |-> p[1]] : p \in Created(v, fts5)} :
                   g.on \notin m.drops}
        /\ w.columns \subseteq Columns
    BY <2>3, <2>4, WholeWithoutRebuild
  <2> HIDE DEF m, w
  <2> QED BY <2>2, <2>3, <2>5
<1>3. w = [tables |-> w.tables, columns |-> w.columns, triggers |-> w.triggers]
  BY DEF Whole
<1>4. Body(v, s, fts5) = w
  BY <1>1 DEF Body, Quiet
<1> HIDE DEF w
<1>5. w \in Schema
  BY <1>2, <1>3, InTables DEF SchemaInv, Schema
<1>6. Closed(w) /\ \A g \in w.triggers : KnownTrigger(g) /\ g.on # "graph_nodes_fts_porter"
  BY <1>2 DEF SchemaInv, Closed
<1>7. HasTables(v, w.tables)
  <2>1. HasTables(v - 1, s.tables) /\ v \in 1..55 /\ v # 55 /\ v # 12
    BY LastIs DEF SchemaInv, Special
  <2> QED BY <1>2, <2>1, Creators DEF HasTables, Special
<1> QED BY <1>4, <1>5, <1>6, <1>7 DEF SchemaInv

(* More tables are as good. *)
LEMMA MoreTables ==
  ASSUME NEW v, NEW A, NEW B, A \subseteq B, HasTables(v, A)
  PROVE  HasTables(v, B)
BY DEF HasTables

(* The triggers a body creates. *)
NewTriggers(v, fts5) ==
  MIGRATIONS[v].triggers \cup {[on |-> p[2], into |-> p[1]] : p \in Created(v, fts5)}

(* What a version without a rebuild must heed: its triggers are among the  *)
(* known ones, on tables that are there and into tables that are there,    *)
(* and no table it drops is one that triggers still need.                  *)
LEMMA WholeKeeps ==
  ASSUME NEW v \in 1..Last, MIGRATIONS[v].rebuilds = {}, NEW fts5 \in BOOLEAN,
         NEW s, SchemaInv(v - 1, s),
         MIGRATIONS[v].triggers \subseteq [on : Tables, into : Tables \cup {Abort}],
         \A p \in Created(v, fts5) : p[2] \in Tables,
         \A g \in NewTriggers(v, fts5) :
           /\ KnownTrigger(g) /\ g.on # "graph_nodes_fts_porter"
           /\ g.on \in s.tables \cup MIGRATIONS[v].tables
           /\ g.into \in s.tables \cup MIGRATIONS[v].tables
                          \cup {p[1] : p \in Created(v, fts5)} \cup {Abort},
         \A g \in s.triggers \cup NewTriggers(v, fts5) :
           g.on \notin MIGRATIONS[v].drops => g.into \notin MIGRATIONS[v].drops,
         HasTables(v, (s.tables \cup MIGRATIONS[v].tables) \ MIGRATIONS[v].drops)
  PROVE  SchemaInv(v, Whole(v, s, fts5))
<1> DEFINE m == MIGRATIONS[v]
           w == Whole(v, s, fts5)
           news == {p[1] : p \in Created(v, fts5)}
<1>1. s \in Schema
  BY DEF SchemaInv
<1>2. /\ w.tables = (s.tables \cup m.tables \cup news) \ m.drops
      /\ w.triggers = {g \in s.triggers \cup m.triggers
                            \cup {[on |-> p[2], into |-> p[1]] : p \in Created(v, fts5)} :
                       g.on \notin m.drops}
      /\ w.columns \subseteq Columns
  BY <1>1, WholeWithoutRebuild
<1>3. w.triggers = {g \in s.triggers \cup NewTriggers(v, fts5) : g.on \notin m.drops}
  BY <1>2 DEF NewTriggers
<1>4. w = [tables |-> w.tables, columns |-> w.columns, triggers |-> w.triggers]
  BY DEF Whole
<1>5. news \subseteq Tables /\ NewTriggers(v, fts5) \subseteq [on : Tables, into : Tables \cup {Abort}]
  <2>1. \A p \in Created(v, fts5) : p[1] \in Tables /\ p[2] \in Tables
    BY InTables DEF Created
  <2>2. news \subseteq Tables
    BY <2>1
  <2>3. \A p \in Created(v, fts5) :
          [on |-> p[2], into |-> p[1]] \in [on : Tables, into : Tables \cup {Abort}]
    BY <2>1
  <2>4. \A g \in NewTriggers(v, fts5) :
          g \in m.triggers \/ \E p \in Created(v, fts5) : g = [on |-> p[2], into |-> p[1]]
    BY DEF NewTriggers
  <2>5. NewTriggers(v, fts5) \subseteq [on : Tables, into : Tables \cup {Abort}]
    <3> HIDE DEF m
    <3>1. m.triggers \subseteq [on : Tables, into : Tables \cup {Abort}]
      BY DEF m
    <3> QED BY <2>3, <2>4, <3>1
  <2> QED BY <2>2, <2>5
<1> HIDE DEF w, news
<1>6. w \in Schema
  <2>1. w.tables \subseteq Tables
    BY <1>1, <1>2, <1>5, InTables DEF Schema
  <2>2. w.triggers \subseteq [on : Tables, into : Tables \cup {Abort}]
    BY <1>1, <1>3, <1>5 DEF Schema
  <2> QED BY <1>2, <1>4, <2>1, <2>2 DEF Schema
<1>7. Closed(w)
  <2> SUFFICES ASSUME NEW g \in w.triggers PROVE g.on \in w.tables /\ g.into \in w.tables \cup {Abort}
    BY DEF Closed
  <2>1. /\ g \in s.triggers \cup NewTriggers(v, fts5)
        /\ g.on \notin m.drops /\ g.into \notin m.drops
    BY <1>3
  <2>2. CASE g \in s.triggers
    BY <1>2, <2>1, <2>2 DEF SchemaInv, Closed
  <2>3. CASE g \in NewTriggers(v, fts5)
    BY <1>2, <2>1, <2>3 DEF news
  <2> QED BY <2>1, <2>2, <2>3
<1>8. \A g \in w.triggers : KnownTrigger(g) /\ g.on # "graph_nodes_fts_porter"
  BY <1>3 DEF SchemaInv
<1>9. HasTables(v, w.tables)
  <2>1. (s.tables \cup m.tables) \ m.drops \subseteq w.tables
    BY <1>2
  <2> QED BY <2>1, MoreTables
<1> QED BY <1>6, <1>7, <1>8, <1>9 DEF SchemaInv, w

(* Each version that does more heeds it. *)
LEMMA SpecialKeeps ==
  ASSUME NEW v \in Special \ {29}, NEW s, SchemaInv(v - 1, s), NEW fts5 \in BOOLEAN
  PROVE  SchemaInv(v, Whole(v, s, fts5))
<1> DEFINE m == MIGRATIONS[v]
<1>1. v \in 1..Last /\ s \in Schema /\ Closed(s) /\ HasTables(v - 1, s.tables)
  <2>1. v \in 1..Last
    BY LastIs DEF Special
  <2> QED BY <2>1 DEF SchemaInv
<1>2. CASE v = 2
  <2>1. /\ m.tables = {} /\ m.mirrors = {<<"observations_fts", "observations">>}
        /\ m.triggers = {}
        /\ m.rebuilds = {} /\ m.drops = {}
    BY <1>2, SpecialVersions DEF V2, Nothing, Mirror, Writes
  <2>3. \A p \in Created(v, fts5) : p \in m.mirrors
    BY DEF Created
  <2> HIDE DEF m
  <2>2. HasTables(v, s.tables \cup m.tables) /\ HasTables(v, (s.tables \cup m.tables) \ m.drops)
    <3>1. HasTables(v, s.tables \cup m.tables)
      BY <1>1, <1>2, <2>1 DEF HasTables
    <3>2. s.tables \cup m.tables \subseteq (s.tables \cup m.tables) \ m.drops
      BY <2>1
    <3> QED BY <3>1, <3>2, MoreTables
  <2>4. m.triggers \subseteq [on : Tables, into : Tables \cup {Abort}]
    BY <2>1, InTables
  <2>5. \A p \in Created(v, fts5) : p[2] \in Tables
    BY <2>1, <2>3, InTables
  <2>6. ASSUME NEW g \in NewTriggers(v, fts5)
        PROVE  /\ KnownTrigger(g) /\ g.on # "graph_nodes_fts_porter"
               /\ g.on \in s.tables \cup m.tables
               /\ g.into \in s.tables \cup m.tables
                              \cup {p[1] : p \in Created(v, fts5)} \cup {Abort}
    <3>1. \/ g \in m.triggers
          \/ \E p \in Created(v, fts5) : g = [on |-> p[2], into |-> p[1]]
      BY DEF NewTriggers, m
    <3>2. CASE g \in m.triggers
      <4>1. FALSE
        BY <2>1, <3>2
      <4>2. KnownTrigger(g) /\ g.on # "graph_nodes_fts_porter"
        BY <4>1 DEF KnownTrigger
      <4>3. g.on \in s.tables \cup m.tables /\ g.into \in s.tables \cup m.tables \cup {Abort}
        BY <1>2, <2>1, <2>2, <4>1 DEF HasTables
      <4> QED BY <4>2, <4>3
    <3>3. ASSUME NEW p \in Created(v, fts5), g = [on |-> p[2], into |-> p[1]]
          PROVE  /\ KnownTrigger(g) /\ g.on # "graph_nodes_fts_porter"
                 /\ g.on \in s.tables \cup m.tables
                 /\ g.into \in {q[1] : q \in Created(v, fts5)}
      <4>1. p[1] = "observations_fts" /\ p[2] = "observations"
        BY <2>1, <2>3, <3>3
      <4>2. g.on = p[2] /\ g.into = p[1]
        BY <3>3
      <4>3. KnownTrigger(g) /\ g.on # "graph_nodes_fts_porter"
        BY <4>1, <4>2 DEF KnownTrigger
      <4>4. g.on \in s.tables \cup m.tables
        BY <1>2, <2>1, <2>2, <4>1, <4>2 DEF HasTables
      <4> QED BY <4>2, <4>3, <4>4
    <3> QED BY <3>1, <3>2, <3>3
  <2> QED BY <1>1, <2>1, <2>2, <2>4, <2>5, <2>6, WholeKeeps DEF m
<1>3. CASE v = 7
  <2>1. /\ m.tables = {"memory_audit"} /\ m.mirrors = {}
        /\ m.triggers = {[on |-> "memory_audit", into |-> Abort],
                         [on |-> "learned_patterns", into |-> Abort]}
        /\ m.rebuilds = {} /\ m.drops = {}
    BY <1>3, SpecialVersions DEF V7, Nothing, Mirror, Writes
  <2>3. \A p \in Created(v, fts5) : p \in m.mirrors
    BY DEF Created
  <2> HIDE DEF m
  <2>2. HasTables(v, s.tables \cup m.tables) /\ HasTables(v, (s.tables \cup m.tables) \ m.drops)
    <3>1. HasTables(v, s.tables \cup m.tables)
      BY <1>1, <1>3, <2>1 DEF HasTables
    <3>2. s.tables \cup m.tables \subseteq (s.tables \cup m.tables) \ m.drops
      BY <2>1
    <3> QED BY <3>1, <3>2, MoreTables
  <2>4. m.triggers \subseteq [on : Tables, into : Tables \cup {Abort}]
    BY <2>1, InTables
  <2>5. \A p \in Created(v, fts5) : p[2] \in Tables
    BY <2>1, <2>3, InTables
  <2>6. ASSUME NEW g \in NewTriggers(v, fts5)
        PROVE  /\ KnownTrigger(g) /\ g.on # "graph_nodes_fts_porter"
               /\ g.on \in s.tables \cup m.tables
               /\ g.into \in s.tables \cup m.tables
                              \cup {p[1] : p \in Created(v, fts5)} \cup {Abort}
    <3>1. \/ g \in m.triggers
          \/ \E p \in Created(v, fts5) : g = [on |-> p[2], into |-> p[1]]
      BY DEF NewTriggers, m
    <3>2. CASE g \in m.triggers
      <4>1. \/ g.on = "memory_audit" /\ g.into = Abort
            \/ g.on = "learned_patterns" /\ g.into = Abort
        BY <2>1, <3>2
      <4>2. KnownTrigger(g) /\ g.on # "graph_nodes_fts_porter"
        BY <4>1 DEF KnownTrigger
      <4>3. g.on \in s.tables \cup m.tables /\ g.into \in s.tables \cup m.tables \cup {Abort}
        BY <1>3, <2>1, <2>2, <4>1 DEF HasTables
      <4> QED BY <4>2, <4>3
    <3>3. ASSUME NEW p \in Created(v, fts5), g = [on |-> p[2], into |-> p[1]]
          PROVE  /\ KnownTrigger(g) /\ g.on # "graph_nodes_fts_porter"
                 /\ g.on \in s.tables \cup m.tables
                 /\ g.into \in {q[1] : q \in Created(v, fts5)}
      <4>1. FALSE
        BY <2>1, <2>3, <3>3
      <4>2. g.on = p[2] /\ g.into = p[1]
        BY <3>3
      <4>3. KnownTrigger(g) /\ g.on # "graph_nodes_fts_porter"
        BY <4>1, <4>2 DEF KnownTrigger
      <4>4. g.on \in s.tables \cup m.tables
        BY <1>3, <2>1, <2>2, <4>1, <4>2 DEF HasTables
      <4> QED BY <4>2, <4>3, <4>4
    <3> QED BY <3>1, <3>2, <3>3
  <2> QED BY <1>1, <2>1, <2>2, <2>4, <2>5, <2>6, WholeKeeps DEF m
<1>4. CASE v = 9
  <2>1. /\ m.tables = {} /\ m.mirrors = {<<"document_chunks_fts", "document_chunks">>}
        /\ m.triggers = {}
        /\ m.rebuilds = {} /\ m.drops = {}
    BY <1>4, SpecialVersions DEF V9, Nothing, Mirror, Writes
  <2>3. \A p \in Created(v, fts5) : p \in m.mirrors
    BY DEF Created
  <2> HIDE DEF m
  <2>2. HasTables(v, s.tables \cup m.tables) /\ HasTables(v, (s.tables \cup m.tables) \ m.drops)
    <3>1. HasTables(v, s.tables \cup m.tables)
      BY <1>1, <1>4, <2>1 DEF HasTables
    <3>2. s.tables \cup m.tables \subseteq (s.tables \cup m.tables) \ m.drops
      BY <2>1
    <3> QED BY <3>1, <3>2, MoreTables
  <2>4. m.triggers \subseteq [on : Tables, into : Tables \cup {Abort}]
    BY <2>1, InTables
  <2>5. \A p \in Created(v, fts5) : p[2] \in Tables
    BY <2>1, <2>3, InTables
  <2>6. ASSUME NEW g \in NewTriggers(v, fts5)
        PROVE  /\ KnownTrigger(g) /\ g.on # "graph_nodes_fts_porter"
               /\ g.on \in s.tables \cup m.tables
               /\ g.into \in s.tables \cup m.tables
                              \cup {p[1] : p \in Created(v, fts5)} \cup {Abort}
    <3>1. \/ g \in m.triggers
          \/ \E p \in Created(v, fts5) : g = [on |-> p[2], into |-> p[1]]
      BY DEF NewTriggers, m
    <3>2. CASE g \in m.triggers
      <4>1. FALSE
        BY <2>1, <3>2
      <4>2. KnownTrigger(g) /\ g.on # "graph_nodes_fts_porter"
        BY <4>1 DEF KnownTrigger
      <4>3. g.on \in s.tables \cup m.tables /\ g.into \in s.tables \cup m.tables \cup {Abort}
        BY <1>4, <2>1, <2>2, <4>1 DEF HasTables
      <4> QED BY <4>2, <4>3
    <3>3. ASSUME NEW p \in Created(v, fts5), g = [on |-> p[2], into |-> p[1]]
          PROVE  /\ KnownTrigger(g) /\ g.on # "graph_nodes_fts_porter"
                 /\ g.on \in s.tables \cup m.tables
                 /\ g.into \in {q[1] : q \in Created(v, fts5)}
      <4>1. p[1] = "document_chunks_fts" /\ p[2] = "document_chunks"
        BY <2>1, <2>3, <3>3
      <4>2. g.on = p[2] /\ g.into = p[1]
        BY <3>3
      <4>3. KnownTrigger(g) /\ g.on # "graph_nodes_fts_porter"
        BY <4>1, <4>2 DEF KnownTrigger
      <4>4. g.on \in s.tables \cup m.tables
        BY <1>4, <2>1, <2>2, <4>1, <4>2 DEF HasTables
      <4> QED BY <4>2, <4>3, <4>4
    <3> QED BY <3>1, <3>2, <3>3
  <2> QED BY <1>1, <2>1, <2>2, <2>4, <2>5, <2>6, WholeKeeps DEF m
<1>5. CASE v = 12
  <2>1. /\ m.tables = {"graph_nodes", "graph_edges_v12", "graph_evidence_v12"}
        /\ m.mirrors = {<<"graph_nodes_fts_porter", "graph_nodes">>}
        /\ m.triggers = {}
        /\ m.rebuilds = {} /\ m.drops = {}
    BY <1>5, SpecialVersions DEF V12, Nothing, Mirror, Writes
  <2>3. \A p \in Created(v, fts5) : p \in m.mirrors
    BY DEF Created
  <2> HIDE DEF m
  <2>2. HasTables(v, s.tables \cup m.tables) /\ HasTables(v, (s.tables \cup m.tables) \ m.drops)
    <3>1. HasTables(v, s.tables \cup m.tables)
      BY <1>1, <1>5, <2>1 DEF HasTables
    <3>2. s.tables \cup m.tables \subseteq (s.tables \cup m.tables) \ m.drops
      BY <2>1
    <3> QED BY <3>1, <3>2, MoreTables
  <2>4. m.triggers \subseteq [on : Tables, into : Tables \cup {Abort}]
    BY <2>1, InTables
  <2>5. \A p \in Created(v, fts5) : p[2] \in Tables
    BY <2>1, <2>3, InTables
  <2>6. ASSUME NEW g \in NewTriggers(v, fts5)
        PROVE  /\ KnownTrigger(g) /\ g.on # "graph_nodes_fts_porter"
               /\ g.on \in s.tables \cup m.tables
               /\ g.into \in s.tables \cup m.tables
                              \cup {p[1] : p \in Created(v, fts5)} \cup {Abort}
    <3>1. \/ g \in m.triggers
          \/ \E p \in Created(v, fts5) : g = [on |-> p[2], into |-> p[1]]
      BY DEF NewTriggers, m
    <3>2. CASE g \in m.triggers
      <4>1. FALSE
        BY <2>1, <3>2
      <4>2. KnownTrigger(g) /\ g.on # "graph_nodes_fts_porter"
        BY <4>1 DEF KnownTrigger
      <4>3. g.on \in s.tables \cup m.tables /\ g.into \in s.tables \cup m.tables \cup {Abort}
        BY <1>5, <2>1, <2>2, <4>1 DEF HasTables
      <4> QED BY <4>2, <4>3
    <3>3. ASSUME NEW p \in Created(v, fts5), g = [on |-> p[2], into |-> p[1]]
          PROVE  /\ KnownTrigger(g) /\ g.on # "graph_nodes_fts_porter"
                 /\ g.on \in s.tables \cup m.tables
                 /\ g.into \in {q[1] : q \in Created(v, fts5)}
      <4>1. p[1] = "graph_nodes_fts_porter" /\ p[2] = "graph_nodes"
        BY <2>1, <2>3, <3>3
      <4>2. g.on = p[2] /\ g.into = p[1]
        BY <3>3
      <4>3. KnownTrigger(g) /\ g.on # "graph_nodes_fts_porter"
        BY <4>1, <4>2 DEF KnownTrigger
      <4>4. g.on \in s.tables \cup m.tables
        BY <1>5, <2>1, <2>2, <4>1, <4>2 DEF HasTables
      <4> QED BY <4>2, <4>3, <4>4
    <3> QED BY <3>1, <3>2, <3>3
  <2> QED BY <1>1, <2>1, <2>2, <2>4, <2>5, <2>6, WholeKeeps DEF m
<1>6. CASE v = 15
  <2>1. /\ m.tables = {} /\ m.mirrors = {}
        /\ m.triggers = {[on |-> "graph_edges_v12", into |-> Abort]}
        /\ m.rebuilds = {} /\ m.drops = {}
    BY <1>6, SpecialVersions DEF V15, Nothing, Mirror, Writes
  <2>3. \A p \in Created(v, fts5) : p \in m.mirrors
    BY DEF Created
  <2> HIDE DEF m
  <2>2. HasTables(v, s.tables \cup m.tables) /\ HasTables(v, (s.tables \cup m.tables) \ m.drops)
    <3>1. HasTables(v, s.tables \cup m.tables)
      BY <1>1, <1>6, <2>1 DEF HasTables
    <3>2. s.tables \cup m.tables \subseteq (s.tables \cup m.tables) \ m.drops
      BY <2>1
    <3> QED BY <3>1, <3>2, MoreTables
  <2>4. m.triggers \subseteq [on : Tables, into : Tables \cup {Abort}]
    BY <2>1, InTables
  <2>5. \A p \in Created(v, fts5) : p[2] \in Tables
    BY <2>1, <2>3, InTables
  <2>6. ASSUME NEW g \in NewTriggers(v, fts5)
        PROVE  /\ KnownTrigger(g) /\ g.on # "graph_nodes_fts_porter"
               /\ g.on \in s.tables \cup m.tables
               /\ g.into \in s.tables \cup m.tables
                              \cup {p[1] : p \in Created(v, fts5)} \cup {Abort}
    <3>1. \/ g \in m.triggers
          \/ \E p \in Created(v, fts5) : g = [on |-> p[2], into |-> p[1]]
      BY DEF NewTriggers, m
    <3>2. CASE g \in m.triggers
      <4>1. \/ g.on = "graph_edges_v12" /\ g.into = Abort
        BY <2>1, <3>2
      <4>2. KnownTrigger(g) /\ g.on # "graph_nodes_fts_porter"
        BY <4>1 DEF KnownTrigger
      <4>3. g.on \in s.tables \cup m.tables /\ g.into \in s.tables \cup m.tables \cup {Abort}
        BY <1>6, <2>1, <2>2, <4>1 DEF HasTables
      <4> QED BY <4>2, <4>3
    <3>3. ASSUME NEW p \in Created(v, fts5), g = [on |-> p[2], into |-> p[1]]
          PROVE  /\ KnownTrigger(g) /\ g.on # "graph_nodes_fts_porter"
                 /\ g.on \in s.tables \cup m.tables
                 /\ g.into \in {q[1] : q \in Created(v, fts5)}
      <4>1. FALSE
        BY <2>1, <2>3, <3>3
      <4>2. g.on = p[2] /\ g.into = p[1]
        BY <3>3
      <4>3. KnownTrigger(g) /\ g.on # "graph_nodes_fts_porter"
        BY <4>1, <4>2 DEF KnownTrigger
      <4>4. g.on \in s.tables \cup m.tables
        BY <1>6, <2>1, <2>2, <4>1, <4>2 DEF HasTables
      <4> QED BY <4>2, <4>3, <4>4
    <3> QED BY <3>1, <3>2, <3>3
  <2> QED BY <1>1, <2>1, <2>2, <2>4, <2>5, <2>6, WholeKeeps DEF m
<1>7. CASE v = 21
  <2>1. /\ m.tables = {"doc_audit_trail"} /\ m.mirrors = {}
        /\ m.triggers = {[on |-> "doc_audit_trail", into |-> Abort]}
        /\ m.rebuilds = {} /\ m.drops = {}
    BY <1>7, SpecialVersions DEF V21, Nothing, Mirror, Writes
  <2>3. \A p \in Created(v, fts5) : p \in m.mirrors
    BY DEF Created
  <2> HIDE DEF m
  <2>2. HasTables(v, s.tables \cup m.tables) /\ HasTables(v, (s.tables \cup m.tables) \ m.drops)
    <3>1. HasTables(v, s.tables \cup m.tables)
      BY <1>1, <1>7, <2>1 DEF HasTables
    <3>2. s.tables \cup m.tables \subseteq (s.tables \cup m.tables) \ m.drops
      BY <2>1
    <3> QED BY <3>1, <3>2, MoreTables
  <2>4. m.triggers \subseteq [on : Tables, into : Tables \cup {Abort}]
    BY <2>1, InTables
  <2>5. \A p \in Created(v, fts5) : p[2] \in Tables
    BY <2>1, <2>3, InTables
  <2>6. ASSUME NEW g \in NewTriggers(v, fts5)
        PROVE  /\ KnownTrigger(g) /\ g.on # "graph_nodes_fts_porter"
               /\ g.on \in s.tables \cup m.tables
               /\ g.into \in s.tables \cup m.tables
                              \cup {p[1] : p \in Created(v, fts5)} \cup {Abort}
    <3>1. \/ g \in m.triggers
          \/ \E p \in Created(v, fts5) : g = [on |-> p[2], into |-> p[1]]
      BY DEF NewTriggers, m
    <3>2. CASE g \in m.triggers
      <4>1. \/ g.on = "doc_audit_trail" /\ g.into = Abort
        BY <2>1, <3>2
      <4>2. KnownTrigger(g) /\ g.on # "graph_nodes_fts_porter"
        BY <4>1 DEF KnownTrigger
      <4>3. g.on \in s.tables \cup m.tables /\ g.into \in s.tables \cup m.tables \cup {Abort}
        BY <1>7, <2>1, <2>2, <4>1 DEF HasTables
      <4> QED BY <4>2, <4>3
    <3>3. ASSUME NEW p \in Created(v, fts5), g = [on |-> p[2], into |-> p[1]]
          PROVE  /\ KnownTrigger(g) /\ g.on # "graph_nodes_fts_porter"
                 /\ g.on \in s.tables \cup m.tables
                 /\ g.into \in {q[1] : q \in Created(v, fts5)}
      <4>1. FALSE
        BY <2>1, <2>3, <3>3
      <4>2. g.on = p[2] /\ g.into = p[1]
        BY <3>3
      <4>3. KnownTrigger(g) /\ g.on # "graph_nodes_fts_porter"
        BY <4>1, <4>2 DEF KnownTrigger
      <4>4. g.on \in s.tables \cup m.tables
        BY <1>7, <2>1, <2>2, <4>1, <4>2 DEF HasTables
      <4> QED BY <4>2, <4>3, <4>4
    <3> QED BY <3>1, <3>2, <3>3
  <2> QED BY <1>1, <2>1, <2>2, <2>4, <2>5, <2>6, WholeKeeps DEF m
<1>8. CASE v = 35
  <2>1. /\ m.tables = {"task_dependencies"} /\ m.mirrors = {<<"tasks_fts", "tasks">>}
        /\ m.triggers = {[on |-> "tasks", into |-> "task_dependencies"]}
        /\ m.rebuilds = {} /\ m.drops = {}
    BY <1>8, SpecialVersions DEF V35, Nothing, Mirror, Writes
  <2>3. \A p \in Created(v, fts5) : p \in m.mirrors
    BY DEF Created
  <2> HIDE DEF m
  <2>2. HasTables(v, s.tables \cup m.tables) /\ HasTables(v, (s.tables \cup m.tables) \ m.drops)
    <3>1. HasTables(v, s.tables \cup m.tables)
      BY <1>1, <1>8, <2>1 DEF HasTables
    <3>2. s.tables \cup m.tables \subseteq (s.tables \cup m.tables) \ m.drops
      BY <2>1
    <3> QED BY <3>1, <3>2, MoreTables
  <2>4. m.triggers \subseteq [on : Tables, into : Tables \cup {Abort}]
    BY <2>1, InTables
  <2>5. \A p \in Created(v, fts5) : p[2] \in Tables
    BY <2>1, <2>3, InTables
  <2>6. ASSUME NEW g \in NewTriggers(v, fts5)
        PROVE  /\ KnownTrigger(g) /\ g.on # "graph_nodes_fts_porter"
               /\ g.on \in s.tables \cup m.tables
               /\ g.into \in s.tables \cup m.tables
                              \cup {p[1] : p \in Created(v, fts5)} \cup {Abort}
    <3>1. \/ g \in m.triggers
          \/ \E p \in Created(v, fts5) : g = [on |-> p[2], into |-> p[1]]
      BY DEF NewTriggers, m
    <3>2. CASE g \in m.triggers
      <4>1. \/ g.on = "tasks" /\ g.into = "task_dependencies"
        BY <2>1, <3>2
      <4>2. KnownTrigger(g) /\ g.on # "graph_nodes_fts_porter"
        BY <4>1 DEF KnownTrigger
      <4>3. g.on \in s.tables \cup m.tables /\ g.into \in s.tables \cup m.tables \cup {Abort}
        BY <1>8, <2>1, <2>2, <4>1 DEF HasTables
      <4> QED BY <4>2, <4>3
    <3>3. ASSUME NEW p \in Created(v, fts5), g = [on |-> p[2], into |-> p[1]]
          PROVE  /\ KnownTrigger(g) /\ g.on # "graph_nodes_fts_porter"
                 /\ g.on \in s.tables \cup m.tables
                 /\ g.into \in {q[1] : q \in Created(v, fts5)}
      <4>1. p[1] = "tasks_fts" /\ p[2] = "tasks"
        BY <2>1, <2>3, <3>3
      <4>2. g.on = p[2] /\ g.into = p[1]
        BY <3>3
      <4>3. KnownTrigger(g) /\ g.on # "graph_nodes_fts_porter"
        BY <4>1, <4>2 DEF KnownTrigger
      <4>4. g.on \in s.tables \cup m.tables
        BY <1>8, <2>1, <2>2, <4>1, <4>2 DEF HasTables
      <4> QED BY <4>2, <4>3, <4>4
    <3> QED BY <3>1, <3>2, <3>3
  <2> QED BY <1>1, <2>1, <2>2, <2>4, <2>5, <2>6, WholeKeeps DEF m
<1>9. CASE v = 45
  <2>1. /\ m.tables = {} /\ m.mirrors = {}
        /\ m.triggers = {[on |-> "tasks", into |-> "task_status_history"],
                         [on |-> "tasks", into |-> "task_outcomes"],
                         [on |-> "tasks", into |-> "task_edit_history"]}
        /\ m.rebuilds = {} /\ m.drops = {}
    BY <1>9, SpecialVersions DEF V45, Nothing, Mirror, Writes
  <2>3. \A p \in Created(v, fts5) : p \in m.mirrors
    BY DEF Created
  <2> HIDE DEF m
  <2>2. HasTables(v, s.tables \cup m.tables) /\ HasTables(v, (s.tables \cup m.tables) \ m.drops)
    <3>1. HasTables(v, s.tables \cup m.tables)
      BY <1>1, <1>9, <2>1 DEF HasTables
    <3>2. s.tables \cup m.tables \subseteq (s.tables \cup m.tables) \ m.drops
      BY <2>1
    <3> QED BY <3>1, <3>2, MoreTables
  <2>4. m.triggers \subseteq [on : Tables, into : Tables \cup {Abort}]
    BY <2>1, InTables
  <2>5. \A p \in Created(v, fts5) : p[2] \in Tables
    BY <2>1, <2>3, InTables
  <2>6. ASSUME NEW g \in NewTriggers(v, fts5)
        PROVE  /\ KnownTrigger(g) /\ g.on # "graph_nodes_fts_porter"
               /\ g.on \in s.tables \cup m.tables
               /\ g.into \in s.tables \cup m.tables
                              \cup {p[1] : p \in Created(v, fts5)} \cup {Abort}
    <3>1. \/ g \in m.triggers
          \/ \E p \in Created(v, fts5) : g = [on |-> p[2], into |-> p[1]]
      BY DEF NewTriggers, m
    <3>2. CASE g \in m.triggers
      <4>1. \/ g.on = "tasks" /\ g.into = "task_status_history"
            \/ g.on = "tasks" /\ g.into = "task_outcomes"
            \/ g.on = "tasks" /\ g.into = "task_edit_history"
        BY <2>1, <3>2
      <4>2. KnownTrigger(g) /\ g.on # "graph_nodes_fts_porter"
        BY <4>1 DEF KnownTrigger
      <4>3. g.on \in s.tables \cup m.tables /\ g.into \in s.tables \cup m.tables \cup {Abort}
        BY <1>9, <2>1, <2>2, <4>1 DEF HasTables
      <4> QED BY <4>2, <4>3
    <3>3. ASSUME NEW p \in Created(v, fts5), g = [on |-> p[2], into |-> p[1]]
          PROVE  /\ KnownTrigger(g) /\ g.on # "graph_nodes_fts_porter"
                 /\ g.on \in s.tables \cup m.tables
                 /\ g.into \in {q[1] : q \in Created(v, fts5)}
      <4>1. FALSE
        BY <2>1, <2>3, <3>3
      <4>2. g.on = p[2] /\ g.into = p[1]
        BY <3>3
      <4>3. KnownTrigger(g) /\ g.on # "graph_nodes_fts_porter"
        BY <4>1, <4>2 DEF KnownTrigger
      <4>4. g.on \in s.tables \cup m.tables
        BY <1>9, <2>1, <2>2, <4>1, <4>2 DEF HasTables
      <4> QED BY <4>2, <4>3, <4>4
    <3> QED BY <3>1, <3>2, <3>3
  <2> QED BY <1>1, <2>1, <2>2, <2>4, <2>5, <2>6, WholeKeeps DEF m
<1>10. CASE v = 42
  <2>1. /\ m.tables = {} /\ m.mirrors = {} /\ m.triggers = {} /\ m.rebuilds = {}
        /\ m.drops = {"doc_audit_trail"}
    BY <1>10, SpecialVersions DEF V42, Nothing
  <2>2. HasTables(v, (s.tables \cup m.tables) \ m.drops)
    BY <1>1, <1>10, <2>1 DEF HasTables
  <2>3. Created(v, fts5) = {} /\ NewTriggers(v, fts5) = {}
    BY <2>1 DEF Created, NewTriggers
  <2>4. \A g \in s.triggers : g.on \notin m.drops => g.into \notin m.drops
    BY <2>1 DEF SchemaInv, KnownTrigger, Abort
  <2> HIDE DEF m
  <2>5. m.triggers \subseteq [on : Tables, into : Tables \cup {Abort}]
    BY <2>1
  <2> QED BY <1>1, <2>1, <2>2, <2>3, <2>4, <2>5, WholeKeeps DEF m
<1>11. CASE v = 43
  <2>1. /\ m.tables = {} /\ m.mirrors = {} /\ m.triggers = {} /\ m.rebuilds = {}
        /\ m.drops = {"experiment_log"}
    BY <1>11, SpecialVersions DEF V43, Nothing
  <2>2. HasTables(v, (s.tables \cup m.tables) \ m.drops)
    BY <1>1, <1>11, <2>1 DEF HasTables
  <2>3. Created(v, fts5) = {} /\ NewTriggers(v, fts5) = {}
    BY <2>1 DEF Created, NewTriggers
  <2>4. \A g \in s.triggers : g.on \notin m.drops => g.into \notin m.drops
    BY <2>1 DEF SchemaInv, KnownTrigger, Abort
  <2> HIDE DEF m
  <2>5. m.triggers \subseteq [on : Tables, into : Tables \cup {Abort}]
    BY <2>1
  <2> QED BY <1>1, <2>1, <2>2, <2>3, <2>4, <2>5, WholeKeeps DEF m
<1>12. CASE v = 49
  <2>1. /\ m.tables = {} /\ m.mirrors = {} /\ m.triggers = {} /\ m.rebuilds = {}
        /\ m.drops = {}
    BY <1>12, SpecialVersions DEF V49, Nothing
  <2>2. HasTables(v, (s.tables \cup m.tables) \ m.drops)
    BY <1>1, <1>12, <2>1 DEF HasTables
  <2>3. Created(v, fts5) = {} /\ NewTriggers(v, fts5) = {}
    BY <2>1 DEF Created, NewTriggers
  <2>4. \A g \in s.triggers : g.on \notin m.drops => g.into \notin m.drops
    BY <2>1 DEF SchemaInv, KnownTrigger, Abort
  <2> HIDE DEF m
  <2>5. m.triggers \subseteq [on : Tables, into : Tables \cup {Abort}]
    BY <2>1
  <2> QED BY <1>1, <2>1, <2>2, <2>3, <2>4, <2>5, WholeKeeps DEF m
<1>13. CASE v = 55
  <2>1. /\ m.tables = {} /\ m.mirrors = {} /\ m.triggers = {} /\ m.rebuilds = {}
        /\ m.drops = {"observations_fts", "observations", "agent_metrics",
                    "ambiguity_violations", "backtrack_events", "learned_patterns",
                    "pattern_validations", "persona_selections", "project_trajectory",
                    "routing_weights"}
    BY <1>13, SpecialVersions DEF V55, Nothing
  <2>2. HasTables(v, (s.tables \cup m.tables) \ m.drops)
    BY <1>1, <1>13, <2>1 DEF HasTables
  <2>3. Created(v, fts5) = {} /\ NewTriggers(v, fts5) = {}
    BY <2>1 DEF Created, NewTriggers
  <2>4. \A g \in s.triggers : g.on \notin m.drops => g.into \notin m.drops
    BY <2>1 DEF SchemaInv, KnownTrigger, Abort
  <2> HIDE DEF m
  <2>5. m.triggers \subseteq [on : Tables, into : Tables \cup {Abort}]
    BY <2>1
  <2> QED BY <1>1, <2>1, <2>2, <2>3, <2>4, <2>5, WholeKeeps DEF m
<1> QED BY <1>2, <1>3, <1>4, <1>5, <1>6, <1>7, <1>8, <1>9, <1>10, <1>11, <1>12, <1>13 DEF Special

(* v29 rebuilds the mirror of graph_nodes under another tokenizer.         *)
LEMMA RebuildKeeps ==
  ASSUME NEW s, SchemaInv(28, s), NEW fts5 \in BOOLEAN
  PROVE  SchemaInv(29, Whole(29, s, fts5))
<1> DEFINE porter == "graph_nodes_fts_porter"
           new == "graph_nodes_fts"
           w == Whole(29, s, fts5)
<1>1. MIGRATIONS[29] = V29 /\ 29 \in 1..Last
  BY SpecialVersions, LastIs
<1>2. /\ V29.tables = {} /\ V29.mirrors = {} /\ V29.triggers = {} /\ V29.drops = {}
      /\ V29.rebuilds = {<<porter, new>>} /\ V29.columns = {} /\ V29.unchecked = {}
  BY DEF V29, Nothing
<1>3. \A name : Renamed(29, name) = IF name = porter THEN new ELSE name
  <2>1. <<porter, new>>[1] = porter /\ <<porter, new>>[2] = new
    OBVIOUS
  <2>2. \A r : r \in V29.rebuilds <=> r = <<porter, new>>
    BY <1>2
  <2>3. ASSUME NEW name, name = porter PROVE Renamed(29, name) = new
    <3>1. \E r \in V29.rebuilds : r[1] = name
      BY <2>1, <2>2, <2>3
    <3>2. (CHOOSE r \in V29.rebuilds : r[1] = name) = <<porter, new>>
      BY <2>2, <3>1
    <3> QED BY <1>1, <2>1, <3>1, <3>2 DEF Renamed
  <2>4. ASSUME NEW name, name # porter PROVE Renamed(29, name) = name
    <3>1. ~ \E r \in V29.rebuilds : r[1] = name
      BY <2>1, <2>2, <2>4
    <3> QED BY <1>1, <3>1 DEF Renamed
  <2> QED BY <2>3, <2>4
<1>4. w = [tables |-> {Renamed(29, t) : t \in s.tables},
           columns |-> {c \in s.columns : c[1] \in {Renamed(29, t) : t \in s.tables}},
           triggers |-> {[on |-> g.on, into |-> Renamed(29, g.into)] : g \in s.triggers}]
  <2>1. s.tables \cup V29.tables \cup {p[1] : p \in Created(29, fts5)} = s.tables
    BY <1>1, <1>2 DEF Created
  <2>2. {h \in s.triggers \cup V29.triggers
                  \cup {[on |-> p[2], into |-> p[1]] : p \in Created(29, fts5)} :
           h.on \notin V29.drops} = s.triggers
    BY <1>1, <1>2 DEF Created
  <2>3. /\ {Renamed(29, t) : t \in s.tables} \ V29.drops = {Renamed(29, t) : t \in s.tables}
        /\ s.columns \cup V29.columns \cup V29.unchecked = s.columns
    BY <1>2
  <2>4. w = [tables |-> {Renamed(29, t) : t \in s.tables \cup V29.tables
                                          \cup {p[1] : p \in Created(29, fts5)}} \ V29.drops,
             columns |-> {c \in s.columns \cup V29.columns \cup V29.unchecked :
                c[1] \in {Renamed(29, t) : t \in s.tables \cup V29.tables
                                          \cup {p[1] : p \in Created(29, fts5)}} \ V29.drops},
             triggers |-> {[on |-> g.on, into |-> Renamed(29, g.into)] :
                g \in {h \in s.triggers \cup V29.triggers
                               \cup {[on |-> p[2], into |-> p[1]] : p \in Created(29, fts5)} :
                        h.on \notin V29.drops}}]
    BY <1>1 DEF Whole, Created
  <2> QED BY <2>1, <2>2, <2>3, <2>4
<1>5. /\ \A t : t \in w.tables <=> \E x \in s.tables : t = Renamed(29, x)
      /\ \A g \in w.triggers :
           \E h \in s.triggers : g = [on |-> h.on, into |-> Renamed(29, h.into)]
      /\ w.columns \subseteq s.columns
  BY <1>4
<1>6. w = [tables |-> w.tables, columns |-> w.columns, triggers |-> w.triggers]
  BY DEF Whole
<1> HIDE DEF w
<1>7. new \in Tables
  <2>1. <<porter, new>> \in MIGRATIONS[29].rebuilds /\ <<porter, new>>[2] = new
    BY <1>1, <1>2
  <2> QED BY <1>1, <2>1, InTables
<1>8. /\ s \in Schema /\ Closed(s) /\ HasTables(28, s.tables)
      /\ \A g \in s.triggers : KnownTrigger(g) /\ g.on # porter
  BY DEF SchemaInv
<1>9. w.tables \subseteq Tables
  BY <1>3, <1>5, <1>7, <1>8 DEF Schema
<1>10. ASSUME NEW g \in w.triggers
       PROVE  /\ g \in [on : Tables, into : Tables \cup {Abort}]
              /\ g.on \in w.tables /\ g.into \in w.tables \cup {Abort}
              /\ KnownTrigger(g) /\ g.on # porter
  <2>1. PICK h \in s.triggers : g = [on |-> h.on, into |-> Renamed(29, h.into)]
    BY <1>5
  <2>2. g.on = h.on /\ g.into = Renamed(29, h.into)
    BY <2>1
  <2>3. /\ h.on \in s.tables /\ h.into \in s.tables \cup {Abort} /\ h.on # porter
        /\ KnownTrigger(h)
    BY <1>8 DEF Closed
  <2>4. h.on \in w.tables
    BY <1>3, <1>5, <2>3
  <2>5. Renamed(29, h.into) \in w.tables \cup {Abort}
    <3>1. Abort # porter
      BY DEF Abort
    <3> QED BY <1>3, <1>5, <2>3, <3>1
  <2>6. KnownTrigger(g)
    <3>1. g.into = h.into \/ g.into = new
      BY <1>3, <2>2
    <3> QED BY <2>2, <2>3, <3>1 DEF KnownTrigger
  <2>7. g \in [on : Tables, into : Tables \cup {Abort}]
    BY <1>9, <2>1, <2>4, <2>5
  <2> QED BY <2>2, <2>3, <2>4, <2>5, <2>6, <2>7
<1>11. w \in Schema
  BY <1>5, <1>6, <1>8, <1>9, <1>10 DEF Schema
<1>12. HasTables(29, w.tables)
  <2>1. \A t \in s.tables : t # porter => t \in w.tables
    BY <1>3, <1>5
  <2> QED BY <1>8, <2>1 DEF HasTables
<1> QED BY <1>10, <1>11, <1>12 DEF SchemaInv, Closed, w

(* A body that stops at a column it meets again, as v49 may, changes       *)
(* nothing; the others run to their end.                                   *)
LEMMA BodyKeeps ==
  ASSUME NEW v \in 1..Last, NEW s, SchemaInv(v - 1, s), NEW fts5 \in BOOLEAN
  PROVE  SchemaInv(v, Body(v, s, fts5))
<1>1. CASE v \notin Special
  BY <1>1, QuietKeeps
<1>2. CASE v \in Special
  <2>1. SchemaInv(v, Whole(v, s, fts5))
    <3>1. CASE v = 29
      BY <3>1, RebuildKeeps
    <3>2. CASE v # 29
      BY <1>2, <3>2, SpecialKeeps
    <3> QED BY <3>1, <3>2
  <2>2. CASE v = 49
    <3>1. HasTables(48, s.tables) => HasTables(49, s.tables)
      BY DEF HasTables
    <3>2. SchemaInv(v, s)
      BY <2>2, <3>1 DEF SchemaInv
    <3> QED BY <2>1, <3>2 DEF Body
  <2>3. CASE v # 49
    <3>1. MIGRATIONS[v].unchecked = {}
      <4>1. \A m \in {V2, V7, V9, V12, V15, V21} : m.unchecked = {}
        BY DEF Nothing, V2, V7, V9, V12, V15, V21
      <4>2. \A m \in {V29, V35, V42, V43, V45, V55} : m.unchecked = {}
        BY DEF Nothing, V29, V35, V42, V43, V45, V55
      <4> QED BY <1>2, <2>3, <4>1, <4>2, SpecialVersions DEF Special
    <3>2. Body(v, s, fts5) = Whole(v, s, fts5)
      BY <3>1 DEF Body
    <3> QED BY <2>1, <3>2
  <2> QED BY <2>2, <2>3
<1> QED BY <1>1, <1>2

(* The schema of every version, whichever builds applied the ledger.       *)
LEMMA ReplaySound ==
  ASSUME NEW v \in 0..Last, NEW P
  PROVE  SchemaInv(v, Replay(v, P))
<1> DEFINE S == {i \in Nat : SchemaInv(i, Replay(i, P))}
<1>1. Last \in Nat
  BY LastIs
<1>2. 0 \in S
  <2>1. SchemaInv(0, Blank)
    BY DEF SchemaInv, Blank, Schema, Closed, HasTables
  <2> QED BY <2>1, ReplaySteps
<1>3. ASSUME NEW i \in 0..Last, i \in S, i + 1 <= Last PROVE i + 1 \in S
  <2>1. i + 1 \in 1..Last /\ (i + 1) - 1 = i /\ i + 1 \in Nat \ {0}
    BY <1>1, <1>3
  <2>2. Replay(i + 1, P) = Body(i + 1, Replay(i, P), i + 1 \notin P)
    BY <2>1, ReplaySteps
  <2>3. (i + 1 \notin P) \in BOOLEAN
    OBVIOUS
  <2>4. SchemaInv(i + 1, Body(i + 1, Replay(i, P), i + 1 \notin P))
    BY <1>3, <2>1, <2>3, BodyKeeps
  <2> QED BY <2>1, <2>2, <2>4
<1> HIDE DEF S
<1>4. v \in S
  BY <1>1, <1>2, <1>3, Counting
<1> QED BY <1>4 DEF S

(* Only the builds of the versions so far make a difference.               *)
LEMMA ReplayLocal ==
  ASSUME NEW v \in Nat, NEW P, NEW Q, \A u \in 1..v : u \in P <=> u \in Q
  PROVE  Replay(v, P) = Replay(v, Q)
<1> DEFINE S == {i \in Nat : Replay(i, P) = Replay(i, Q)}
<1>1. 0 \in S
  BY ReplaySteps
<1>2. ASSUME NEW i \in 0..v, i \in S, i + 1 <= v PROVE i + 1 \in S
  <2>1. i + 1 \in 1..v /\ (i + 1) - 1 = i /\ i + 1 \in Nat \ {0}
    BY <1>2
  <2>2. /\ Replay(i + 1, P) = Body(i + 1, Replay(i, P), i + 1 \notin P)
        /\ Replay(i + 1, Q) = Body(i + 1, Replay(i, Q), i + 1 \notin Q)
    BY <2>1, ReplaySteps
  <2>3. (i + 1 \notin P) = (i + 1 \notin Q)
    BY <2>1
  <2> QED BY <1>2, <2>2, <2>3
<1> HIDE DEF S
<1>3. v \in S
  BY <1>1, <1>2, Counting
<1> QED BY <1>3 DEF S

(* A version without full-text parts does not depend on the build.         *)
LEMMA ReplayBody ==
  ASSUME NEW v \in 1..Last, NEW P \in SUBSET SearchVersions, P \subseteq 1..(v - 1)
  PROVE  /\ Body(v, Replay(v - 1, P), TRUE) = Replay(v, P)
         /\ Body(v, Replay(v - 1, P), FALSE) = Replay(v, P \cup ({v} \cap SearchVersions))
<1>1. v \in Nat \ {0} /\ v - 1 \in Nat /\ v \notin 1..(v - 1)
  BY LastIs
<1>2. (v \notin P) = TRUE
  BY <1>1
<1>3. Body(v, Replay(v - 1, P), TRUE) = Replay(v, P)
  BY <1>1, <1>2, ReplaySteps
<1>4. CASE v \in SearchVersions
  <2> DEFINE Q == P \cup ({v} \cap SearchVersions)
  <2>1. (v \notin Q) = FALSE
    BY <1>4
  <2>2. Replay(v - 1, P) = Replay(v - 1, Q)
    BY <1>1, ReplayLocal
  <2>3. Replay(v, Q) = Body(v, Replay(v - 1, Q), v \notin Q)
    BY <1>1, ReplaySteps
  <2> HIDE DEF Q
  <2>4. Replay(v, Q) = Body(v, Replay(v - 1, P), FALSE)
    BY <2>1, <2>2, <2>3
  <2> QED BY <1>3, <2>4 DEF Q
<1>5. CASE v \notin SearchVersions
  <2>1. P \cup ({v} \cap SearchVersions) = P
    BY <1>5
  <2>2. MIGRATIONS[v].mirrors = {}
    BY <1>5 DEF SearchVersions
  <2>3. \A s : Whole(v, s, FALSE) = Whole(v, s, TRUE)
    BY <2>2 DEF Whole
  <2>4. \A s : Body(v, s, FALSE) = Body(v, s, TRUE)
    BY <2>3 DEF Body
  <2> QED BY <1>3, <2>1, <2>4
<1> QED BY <1>3, <1>4, <1>5

-------------------------------------------------------------------------------

(* The openers. *)

(* Only the holder of the lock has a draft. *)
OneMigrator ==
  \A o, p \in Openers :
    op[o].phase = "migrating" /\ op[p].phase = "migrating" => o = p

Added(o, from, to) == IF o \in Fts5 THEN {} ELSE SearchVersions \cap (from + 1)..to

(* The draft is the committed schema, migrated some way towards the latest *)
(* version of the holder's release.                                        *)
DraftOf(o) ==
  /\ op[o].at >= db.version
  /\ op[o].at = db.version \/ op[o].at <= Latest[o]
  /\ op[o].plain = db.plain \cup Added(o, db.version, op[o].at)
  /\ op[o].schema = Replay(op[o].at, op[o].plain)

DraftInv == \A o \in Openers : op[o].phase = "migrating" => DraftOf(o)

(* What is committed is the schema of the recorded version. *)
RecordInv ==
  /\ db.plain \subseteq 1..db.version
  /\ db.schema = Replay(db.version, db.plain)

IInv == MigrationTypeOK /\ OneMigrator /\ DraftInv /\ RecordInv /\ OpenIsCurrent

-------------------------------------------------------------------------------

(* A migration that ran for a draft yields the draft of the next version.  *)
LEMMA BodyStep ==
  ASSUME NEW v \in 1..Last, NEW P \in SUBSET SearchVersions, P \subseteq 1..(v - 1),
         NEW o \in Openers
  PROVE  /\ Body(v, Replay(v - 1, P), o \in Fts5) = Replay(v, Plain(o, P, v))
         /\ Plain(o, P, v) \in SUBSET SearchVersions
<1>1. /\ Body(v, Replay(v - 1, P), TRUE) = Replay(v, P)
      /\ Body(v, Replay(v - 1, P), FALSE) = Replay(v, P \cup ({v} \cap SearchVersions))
  BY ReplayBody
<1>2. CASE o \in Fts5
  <2>1. (o \in Fts5) = TRUE
    BY <1>2
  <2> QED BY <1>1, <1>2, <2>1 DEF Plain
<1>3. CASE o \notin Fts5
  <2>1. (o \in Fts5) = FALSE
    BY <1>3
  <2> QED BY <1>1, <1>3, <2>1 DEF Plain
<1> QED BY <1>2, <1>3

(* What a version adds to plain. *)
LEMMA PlainStep ==
  ASSUME NEW o \in Openers, NEW a \in 0..Last, NEW b \in 0..Last, NEW c \in 0..Last,
         a <= b, c = b + 1, NEW P \in SUBSET SearchVersions
  PROVE  Plain(o, P \cup Added(o, a, b), c) = P \cup Added(o, a, c)
<1>1. SearchVersions \cap (a + 1)..c
        = (SearchVersions \cap (a + 1)..b) \cup ({c} \cap SearchVersions)
  BY MigrationAssumption
<1> QED BY <1>1 DEF Plain, Added

(* An opener that moves to a phase without a draft disturbs nothing. *)
LEMMA GotoKeeps ==
  ASSUME IInv, NEW o \in Openers, NEW phase \in Phases \ {"migrating"}, NEW way \in Ways,
         op' = [op EXCEPT ![o] = Standing(phase, way)],
         UNCHANGED db, crashes' \in 0..MaxCrashes,
         way = "done" => db.version >= Latest[o]
  PROVE  IInv'
<1> USE DEF IInv
<1>1. Blank \in Schema /\ 0 \in 0..Last
  BY MigrationAssumption DEF Blank, Schema
<1>2. op'[o].phase = phase /\ op'[o].way = way
  BY DEF MigrationTypeOK, Standing
<1>3. \A p \in Openers : p # o => op'[p] = op[p]
  BY DEF MigrationTypeOK
<1>4. MigrationTypeOK'
  BY <1>1 DEF MigrationTypeOK, Standing, Phases, Ways
<1>5. OneMigrator'
  BY <1>2, <1>3 DEF OneMigrator
<1>6. DraftInv'
  BY <1>2, <1>3 DEF DraftInv, DraftOf
<1>7. RecordInv' /\ OpenIsCurrent'
  BY <1>2, <1>3 DEF RecordInv, OpenIsCurrent
<1> QED BY <1>4, <1>5, <1>6, <1>7

(* The initial states: nobody is there, and a database is as some release  *)
(* left it.                                                                *)
LEMMA InitInv == MigrationInit => IInv
<1> SUFFICES ASSUME MigrationInit PROVE IInv
  OBVIOUS
<1>1. PICK v \in Starts, fts5 \in BOOLEAN, locked \in BOOLEAN :
        LET P == IF fts5 THEN {} ELSE SearchVersions \cap 1..v IN
        db = [version |-> v, plain |-> P, schema |-> Replay(v, P), locked |-> locked]
  BY DEF MigrationInit
<1> DEFINE P == IF fts5 THEN {} ELSE SearchVersions \cap 1..v
<1>2. v \in 0..Last /\ P \in SUBSET SearchVersions /\ P \subseteq 1..v
  BY MigrationAssumption
<1>3. db = [version |-> v, plain |-> P, schema |-> Replay(v, P), locked |-> locked]
  BY <1>1
<1> HIDE DEF P
<1>4. Replay(v, P) \in Schema /\ Blank \in Schema /\ 0 \in 0..Last
  <2>1. Replay(v, P) \in Schema
    BY <1>2, ReplaySound DEF SchemaInv
  <2> QED BY <2>1, MigrationAssumption DEF Blank, Schema
<1>5. op = [o \in Openers |-> Standing("closed", "none")] /\ crashes = 0
  BY DEF MigrationInit
<1>6. MigrationTypeOK
  BY <1>2, <1>3, <1>4, <1>5, MigrationAssumption DEF MigrationTypeOK, Standing, Phases, Ways
<1>7. OneMigrator /\ DraftInv /\ OpenIsCurrent
  BY <1>5 DEF OneMigrator, DraftInv, OpenIsCurrent, Standing
<1>8. RecordInv
  BY <1>2, <1>3 DEF RecordInv
<1> QED BY <1>6, <1>7, <1>8 DEF IInv

-------------------------------------------------------------------------------

(* BEGIN IMMEDIATE: the draft starts at what is committed. *)
LEMMA BeginKeeps == ASSUME IInv, NEW o \in Openers, Begin(o) PROVE IInv'
<1> USE DEF IInv, Begin
<1>1. /\ op'[o] = [phase |-> "migrating", way |-> "none", at |-> db.version,
                   plain |-> db.plain, schema |-> db.schema]
      /\ \A p \in Openers : p # o => op'[p] = op[p]
  BY DEF MigrationTypeOK
<1>2. MigrationTypeOK'
  BY DEF MigrationTypeOK, Phases, Ways
<1>3. OneMigrator'
  BY <1>1 DEF OneMigrator, Free
<1>4. Added(o, db.version, db.version) = {}
  BY MigrationAssumption DEF Added, MigrationTypeOK
<1>5. DraftInv'
  <2> SUFFICES ASSUME NEW p \in Openers, op'[p].phase = "migrating" PROVE DraftOf(p)'
    BY DEF DraftInv
  <2>1. p = o
    BY <1>1 DEF Free
  <2> QED BY <2>1, <1>1, <1>4 DEF DraftOf, RecordInv, Added, MigrationTypeOK
<1>6. RecordInv' /\ OpenIsCurrent'
  BY <1>1 DEF RecordInv, OpenIsCurrent
<1> QED BY <1>2, <1>3, <1>5, <1>6

(* One more body: still a draft, one version further. *)
LEMMA ApplyKeeps == ASSUME IInv, NEW o \in Openers, Apply(o) PROVE IInv'
<1> USE DEF IInv
<1> DEFINE v == op[o].at + 1
           P == op[o].plain
<1>1. /\ op[o].phase = "migrating" /\ op[o].at < Latest[o]
      /\ DraftOf(o)
      /\ UNCHANGED <<db, crashes>>
  BY DEF Apply, Pending, DraftInv
<1>2. /\ db.version \in 0..Last /\ op[o].at \in 0..Last /\ P \in SUBSET SearchVersions
      /\ Latest[o] \in 0..Last /\ db.plain \in SUBSET SearchVersions
  BY MigrationAssumption DEF MigrationTypeOK
<1>3. v \in 1..Last /\ v \in 0..Last /\ v <= Latest[o] /\ v >= db.version /\ v - 1 = op[o].at
  BY <1>1, <1>2, MigrationAssumption DEF DraftOf
<1>4. P \subseteq 1..(v - 1)
  BY <1>1, <1>2, <1>3 DEF DraftOf, RecordInv, Added
<1>5. /\ Body(v, op[o].schema, o \in Fts5) = Replay(v, Plain(o, P, v))
      /\ Plain(o, P, v) \in SUBSET SearchVersions
  BY <1>1, <1>2, <1>3, <1>4, BodyStep DEF DraftOf
<1>6. op' = [op EXCEPT ![o] = [op[o] EXCEPT !.at = v, !.schema = Replay(v, Plain(o, P, v)),
                                            !.plain = Plain(o, P, v)]]
  BY <1>5 DEF Apply, Owed, MigrationTypeOK
<1>7. /\ op'[o] = [op[o] EXCEPT !.at = v, !.schema = Replay(v, Plain(o, P, v)),
                                !.plain = Plain(o, P, v)]
      /\ \A p \in Openers : p # o => op'[p] = op[p]
  BY <1>6 DEF MigrationTypeOK
<1>8. Replay(v, Plain(o, P, v)) \in Schema
  BY <1>3, <1>5, ReplaySound DEF SchemaInv
<1>9. Plain(o, P, v) = db.plain \cup Added(o, db.version, v)
  <2>1. /\ op[o].at + 1 = v /\ db.version <= op[o].at
        /\ P = db.plain \cup Added(o, db.version, op[o].at)
    BY <1>1, <1>2, <1>3 DEF DraftOf
  <2>2. Plain(o, db.plain \cup Added(o, db.version, op[o].at), v)
          = db.plain \cup Added(o, db.version, v)
    <3> HIDE DEF v, P
    <3> QED BY <1>2, <1>3, <2>1, PlainStep
  <2> QED BY <2>1, <2>2
<1> DEFINE Q == Plain(o, P, v)
           S == Replay(v, Q)
<1> HIDE DEF Q, S, v, P
<1>10. /\ op'[o] \in [phase : Phases, way : Ways, at : 0..Last,
                      plain : SUBSET SearchVersions, schema : Schema]
       /\ op'[o].at = v /\ op'[o].plain = Q /\ op'[o].schema = S
       /\ op'[o].phase = op[o].phase /\ op'[o].way = op[o].way
  BY <1>3, <1>5, <1>7, <1>8 DEF MigrationTypeOK, Q, S
<1>11. MigrationTypeOK'
  BY <1>1, <1>6, <1>7, <1>10 DEF MigrationTypeOK
<1>12. OneMigrator'
  <2>1. \A p \in Openers : op'[p].phase = op[p].phase
    BY <1>7, <1>10
  <2> QED BY <2>1 DEF OneMigrator
<1>13. DraftInv'
  <2> SUFFICES ASSUME NEW p \in Openers, op'[p].phase = "migrating" PROVE DraftOf(p)'
    BY DEF DraftInv
  <2>1. p = o
    BY <1>1, <1>7 DEF OneMigrator
  <2> QED BY <2>1, <1>1, <1>3, <1>9, <1>10 DEF DraftOf, Added, Q, S
<1>14. RecordInv' /\ OpenIsCurrent'
  BY <1>1, <1>7, <1>10 DEF RecordInv, OpenIsCurrent
<1> QED BY <1>11, <1>12, <1>13, <1>14

(* The commit: what it records is the schema of the version, and a version *)
(* at least that of every release that was done before.                    *)
LEMMA FinishKeeps == ASSUME IInv, NEW o \in Openers, Finish(o) PROVE IInv'
<1> USE DEF IInv
<1>1. /\ op[o].phase = "migrating" /\ ~(op[o].at < Latest[o])
      /\ DraftOf(o)
      /\ crashes' = crashes
      /\ op' = [op EXCEPT ![o] = Standing("open", "done")]
  BY DEF Finish, Pending, DraftInv, Return
<1>2. /\ db.version \in 0..Last /\ op[o].at \in 0..Last /\ op[o].plain \in SUBSET SearchVersions
      /\ Latest[o] \in 0..Last
  BY MigrationAssumption DEF MigrationTypeOK
<1>3. db' = [version |-> op[o].at, plain |-> op[o].plain, schema |-> op[o].schema,
             locked |-> db.locked]
  BY DEF Finish, MigrationTypeOK
<1>4. op'[o].phase = "open" /\ op'[o].way = "done" /\ op'[o] = Standing("open", "done")
  BY <1>1 DEF MigrationTypeOK, Standing
<1>5. \A p \in Openers : p # o => op'[p] = op[p] /\ op[p].phase # "migrating"
  BY <1>1 DEF MigrationTypeOK, OneMigrator
<1>6. Blank \in Schema /\ 0 \in 0..Last
  BY MigrationAssumption DEF Blank, Schema
<1>7. MigrationTypeOK'
  BY <1>1, <1>2, <1>3, <1>6 DEF MigrationTypeOK, Standing, Phases, Ways
<1>8. OneMigrator' /\ DraftInv'
  BY <1>4, <1>5 DEF OneMigrator, DraftInv
<1>9. op[o].plain \subseteq 1..op[o].at
  BY <1>1, <1>2 DEF DraftOf, RecordInv, Added
<1>10. RecordInv'
  BY <1>1, <1>3, <1>9 DEF RecordInv, DraftOf
<1>11. OpenIsCurrent'
  <2> SUFFICES ASSUME NEW p \in Openers, op'[p].way = "done"
               PROVE  db'.version >= Latest[p]
    BY DEF OpenIsCurrent
  <2>1. CASE p = o
    BY <2>1, <1>1, <1>2, <1>3
  <2>2. CASE p # o
    <3>1. db.version >= Latest[p]
      BY <2>2, <1>5 DEF OpenIsCurrent
    <3>2. db'.version >= db.version
      BY <1>1, <1>3 DEF DraftOf
    <3>3. Latest[p] \in 0..Last /\ db'.version \in 0..Last
      BY <1>2, <1>3, MigrationAssumption
    <3> QED BY <1>2, <3>1, <3>2, <3>3
  <2> QED BY <2>1, <2>2
<1> QED BY <1>7, <1>8, <1>10, <1>11

(* Every step of every opener keeps the inductive invariant.               *)
LEMMA StepInv == IInv /\ [MigrationNext]_migrationVars => IInv'
<1> SUFFICES ASSUME IInv, [MigrationNext]_migrationVars PROVE IInv'
  OBVIOUS
<1>0. crashes \in 0..MaxCrashes /\ MaxCrashes \in Nat
  BY MigrationAssumption DEF IInv, MigrationTypeOK
<1>1. CASE UNCHANGED migrationVars
  BY <1>1 DEF IInv, migrationVars, MigrationTypeOK, OneMigrator, DraftInv, DraftOf, RecordInv,
              OpenIsCurrent, Added
<1>2. ASSUME NEW o \in Openers, Connect(o) PROVE IInv'
  BY <1>0, <1>2, GotoKeeps DEF Connect, Goto, Phases, Ways
<1>3. ASSUME NEW o \in Openers, Begin(o) PROVE IInv'
  BY <1>3, BeginKeeps
<1>4. ASSUME NEW o \in Openers, Defer(o) PROVE IInv'
  BY <1>0, <1>4, GotoKeeps DEF Defer, Return, Phases, Ways
<1>5. ASSUME NEW o \in Openers, Apply(o) PROVE IInv'
  BY <1>5, ApplyKeeps
<1>6. ASSUME NEW o \in Openers, Raise(o) PROVE IInv'
  BY <1>0, <1>6, GotoKeeps DEF Raise, Goto, Phases, Ways
<1>7. ASSUME NEW o \in Openers, Refuse(o) PROVE IInv'
  BY <1>0, <1>7, GotoKeeps DEF Refuse, Return, Phases, Ways
<1>8. ASSUME NEW o \in Openers, Finish(o) PROVE IInv'
  BY <1>8, FinishKeeps
<1>9. ASSUME NEW o \in Openers, Close(o) PROVE IInv'
  BY <1>0, <1>9, GotoKeeps DEF Close, Goto, Phases, Ways
<1>10. ASSUME NEW o \in Openers, Die(o) PROVE IInv'
  <2>1. crashes' \in 0..MaxCrashes /\ UNCHANGED db /\ Goto(o, "closed")
    BY <1>0, <1>10 DEF Die
  <2> QED BY <2>1, GotoKeeps DEF Goto, Phases, Ways
<1> QED
  BY <1>1, <1>2, <1>3, <1>4, <1>5, <1>6, <1>7, <1>8, <1>9, <1>10
     DEF MigrationNext, OpenStep, Migrate

-------------------------------------------------------------------------------

(* Types, and with them one migrator at a time with a draft of its own     *)
(* release: run_migrations holds its lock for the whole apply loop.        *)
THEOREM MigrationCorrect == MigrationSpec => []IInv
BY InitInv, StepInv, PTL DEF MigrationSpec

(* Database, openers and their drafts are typed, whoever fails or dies.    *)
THEOREM MigrationTypeCorrect == MigrationSpec => []MigrationTypeOK
BY MigrationCorrect, PTL DEF IInv

(* A release that has opened the database with the lock in hand never      *)
(* finds it below its own version again, whatever older releases do.       *)
THEOREM OpenStaysCurrent == MigrationSpec => []OpenIsCurrent
BY MigrationCorrect, PTL DEF IInv

(* No write of a surviving table ever meets a trigger into a table that a  *)
(* migration has dropped, whatever releases and builds migrated it.        *)
THEOREM TriggersStayClosed == MigrationSpec => []TriggersClosed
<1>1. IInv => TriggersClosed
  <2> SUFFICES ASSUME IInv PROVE TriggersClosed
    OBVIOUS
  <2>1. SchemaInv(db.version, db.schema)
    BY ReplaySound DEF IInv, MigrationTypeOK, RecordInv
  <2> QED BY <2>1 DEF SchemaInv, Closed, TriggersClosed
<1> QED BY <1>1, MigrationCorrect, PTL

(* A commit is one upgrade of SchemaVersions, or nothing. *)
LEMMA FinishUpgrades ==
  ASSUME IInv, NEW o \in Openers, Finish(o)
  PROVE  Versions!VersionsNext \/ UNCHANGED Versions!versionVars
<1> USE DEF IInv
<1>1. /\ op[o].phase = "migrating" /\ ~(op[o].at < Latest[o])
      /\ DraftOf(o)
  BY DEF Finish, Pending, DraftInv
<1>2. /\ db.version \in 0..Last /\ op[o].at \in 0..Last /\ Latest[o] \in 0..Last
  BY MigrationAssumption DEF MigrationTypeOK
<1>3. /\ db'.version = op[o].at /\ db'.plain = op[o].plain /\ db'.schema = op[o].schema
  BY DEF Finish, MigrationTypeOK
<1>4. CASE op[o].at = db.version
  <2>1. Added(o, db.version, op[o].at) = {}
    BY <1>2, <1>4 DEF Added
  <2>2. op[o].plain = db.plain /\ op[o].schema = db.schema
    BY <1>1, <1>4, <2>1 DEF DraftOf, RecordInv
  <2> QED BY <1>3, <1>4, <2>2 DEF Versions!versionVars
<1>5. CASE op[o].at # db.version
  <2>1. op[o].at = Latest[o] /\ op[o].at > db.version
    BY <1>1, <1>2, <1>5 DEF DraftOf
  <2>2. op[o].plain = db.plain \cup (IF o \in Fts5 THEN {}
                         ELSE SearchVersions \cap Versions!ToDo(db.version, op[o].at))
    BY <1>1 DEF DraftOf, Added, Versions!ToDo
  <2>3. db'.schema = Replay(op[o].at, op[o].plain)
    BY <1>1, <1>3 DEF DraftOf
  <2>4. Versions!Upgrade(op[o].at, o \in Fts5)
    BY <1>3, <2>1, <2>2, <2>3 DEF Versions!Upgrade
  <2>5. op[o].at \in {Latest[p] : p \in Openers} /\ (o \in Fts5) \in BOOLEAN
    BY <2>1
  <2> QED BY <2>4, <2>5 DEF Versions!VersionsNext
<1> QED BY <1>4, <1>5

(* run_migrations implements the ledger's promise: the recorded version    *)
(* and the schema move together, forward, to the end of some release.      *)
THEOREM MigrationImplements == MigrationSpec => ImplementsVersions
<1>1. MigrationInit => Versions!VersionsInit
  <2> SUFFICES ASSUME MigrationInit PROVE Versions!VersionsInit
    OBVIOUS
  <2>1. IInv
    BY InitInv
  <2> QED BY <2>1 DEF IInv, MigrationTypeOK, RecordInv, Versions!VersionsInit
<1>2. IInv /\ [MigrationNext]_migrationVars
        => [Versions!VersionsNext]_(Versions!versionVars)
  <2> SUFFICES ASSUME IInv, [MigrationNext]_migrationVars
               PROVE  Versions!VersionsNext \/ UNCHANGED Versions!versionVars
    OBVIOUS
  <2>1. CASE UNCHANGED db
    BY <2>1 DEF Versions!versionVars
  <2>2. ASSUME NEW o \in Openers, Finish(o)
        PROVE  Versions!VersionsNext \/ UNCHANGED Versions!versionVars
    BY <2>2, FinishUpgrades
  <2> QED
    BY <2>1, <2>2 DEF MigrationNext, OpenStep, Migrate, migrationVars, Connect, Begin, Defer,
                      Apply, Raise, Refuse, Close, Die
<1> QED BY <1>1, <1>2, MigrationCorrect, PTL
        DEF MigrationSpec, ImplementsVersions, Versions!VersionsSpec

===============================================================================
