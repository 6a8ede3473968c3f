------------------------------ MODULE Throttle ------------------------------
(***************************************************************************)
(* The per-username backoff on failed authentication attempts:             *)
(* internal/server/auththrottle.go.  One authThrottle is shared by all     *)
(* sessions; each of its operations holds the mutex, so it is one step.    *)
(*                                                                         *)
(* Abstractions.  A name is a throttleKey (upper case, trimmed).  An       *)
(* absent map key is a count of 0.  Time is counted in 30-second steps,    *)
(* the steps of TOTP.  The parameters are read from the database at each   *)
(* failure; here they keep their values.                                   *)
(***************************************************************************)
EXTENDS Naturals, Sequences, FiniteSetsExt

CONSTANTS
  Names,             \* attempted user names
  Window,            \* AuthFailWindowMins, in steps
  baseSecs,          \* AuthDelayBaseSecs
  maxTries,          \* AuthMaxTries
  StartClock, MaxClock,  \* first and last time step of a behaviour
  MaxFails           \* bound on the failures of a name between successes

ASSUME ThrottleAssumption ==
  /\ Window \in Nat \ {0}     \* loadThrottle keeps it at one minute or more
  /\ baseSecs \in Nat /\ maxTries \in Nat
  /\ StartClock \in Nat \ {0} /\ MaxClock \in Nat
  /\ MaxFails \in Nat

VARIABLES
  clock,       \* time
  entries,     \* authThrottle.entries
  lastSweep,   \* authThrottle.lastSweep; 0 is the zero time
  fails        \* history: times of each name's failures since its last success

throttleVars == <<entries, lastSweep, fails>>

NoEntry == [count |-> 0, last |-> 0]

ThrottleInit ==
  /\ clock = StartClock
  /\ entries = [n \in Names |-> NoEntry]
  /\ lastSweep = 0
  /\ fails = [n \in Names |-> <<>>]

Tick == clock < MaxClock /\ clock' = clock + 1

Stale(e) == e.count > 0 /\ clock - e.last > Window

(* sweepLocked runs at most once per window. *)
SweepDue == lastSweep = 0 \/ clock - lastSweep >= Window

Swept == [n \in Names |-> IF SweepDue /\ Stale(entries[n]) THEN NoEntry ELSE entries[n]]

(* Mutant: an old failure counts for ever unless a sweep happens to drop it. *)
Fail_NoDecay(n) ==
  /\ Len(fails[n]) < MaxFails
  /\ entries' = [Swept EXCEPT ![n] = [count |-> @.count + 1, last |-> clock]]
  /\ lastSweep' = IF SweepDue THEN clock ELSE lastSweep
  /\ fails' = [fails EXCEPT ![n] = Append(@, clock)]

(* Fail, as failDelay calls it *)
Fail(n) ==
  /\ Len(fails[n]) < MaxFails
  /\ entries' = [Swept EXCEPT ![n] =
                   [count |-> IF Stale(@) THEN 1 ELSE @.count + 1, last |-> clock]]
  /\ lastSweep' = IF SweepDue THEN clock ELSE lastSweep
  /\ fails' = [fails EXCEPT ![n] = Append(@, clock)]

Reset(n) ==
  /\ entries' = [entries EXCEPT ![n] = NoEntry]
  /\ fails' = [fails EXCEPT ![n] = <<>>]
  /\ UNCHANGED lastSweep

maxThrottleInputSecs == 3600

Smaller(a, b) == IF a < b THEN a ELSE b

(* throttleDelay, in seconds: the operands are clamped before they are     *)
(* multiplied, so that an int64 holds the product.                         *)
throttleDelay(count, base, tries) ==
  LET mult == Smaller(count, tries)
  IN CASE base = 0 \/ mult = 0 -> 0
       [] base > 0 /\ mult > 0 /\ (base >= maxThrottleInputSecs \/ mult >= maxThrottleInputSecs)
            -> maxThrottleInputSecs
       [] OTHER -> Smaller(base * mult, maxThrottleInputSecs)

(* Attempts on the names fail and succeed in any order; the flows in which *)
(* they do are those of Auth.tla.                                          *)
ThrottleNext ==
  \/ \E n \in Names : (Fail(n) \/ Reset(n)) /\ UNCHANGED clock
  \/ Tick /\ UNCHANGED throttleVars

ThrottleSpec == ThrottleInit /\ [][ThrottleNext]_<<clock, throttleVars>>

-----------------------------------------------------------------------------

(* The failures of a name that still weigh: the longest run of failures up *)
(* to the last in which none came more than a window after the one before. *)
Streak(f) ==
  IF f = <<>> THEN 0
  ELSE Max({k \in 1 .. Len(f) :
              \A i \in Len(f) - k + 1 .. Len(f) - 1 : f[i + 1] - f[i] <= Window})

(* ThrottleExact: while a name's last failure is within the window, the    *)
(* entry counts exactly its current streak, whatever other names do, sweep *)
(* included, and the next prompt is delayed baseSecs for each failure of   *)
(* it, up to maxTries and an hour (Fail, Reset, sweepLocked).              *)
ThrottleExact ==
  \A n \in Names :
    LET f == fails[n]
    IN f # <<>> /\ clock - f[Len(f)] <= Window =>
         /\ entries[n].count = Streak(f)
         /\ throttleDelay(entries[n].count, baseSecs, maxTries) =
              Smaller(baseSecs * Smaller(Streak(f), maxTries), maxThrottleInputSecs)
=============================================================================
