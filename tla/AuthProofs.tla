----------------------------- MODULE AuthProofs -----------------------------
(***************************************************************************)
(* Machine-checked proofs about Throttle.tla and Auth.tla, for any names,  *)
(* every number of sessions and secrets, every clock and every setting of  *)
(* the parameters: the throttle counts streaks, Auth implements it, the    *)
(* replay floor stays behind the clock, nobody passes the gate, and with   *)
(* one session at a time the floor is the highest step accepted.           *)
(***************************************************************************)
EXTENDS Auth, SequenceTheorems, TLAPS

(* The throttle.  An entry is either the streak of its name, with the time *)
(* of the last failure, or gone, in which case that failure is out of the  *)
(* window (EntryOK).  A streak is characterised (IsStreak) rather than     *)
(* computed, so that the maximum in its definition need only be            *)
(* recognised.                                                             *)

(* The backoff is the product of its parameters capped at an hour, for     *)
(* every count and every setting an administrator may have entered: the    *)
(* clamps throttleDelay needs to keep clear of overflow change nothing.    *)
THEOREM DelayExact ==
  ASSUME NEW count \in Nat, NEW base \in Nat, NEW tries \in Nat
  PROVE  throttleDelay(count, base, tries) =
           Smaller(base * Smaller(count, tries), maxThrottleInputSecs)
<1> DEFINE mult == Smaller(count, tries)
           cap == maxThrottleInputSecs
<1>0. mult \in Nat /\ cap = 3600
  BY DEF Smaller, maxThrottleInputSecs
<1>1. throttleDelay(count, base, tries) =
        CASE base = 0 \/ mult = 0 -> 0
          [] base > 0 /\ mult > 0 /\ (base >= cap \/ mult >= cap) -> cap
          [] OTHER -> Smaller(base * mult, cap)
  BY DEF throttleDelay
<1> HIDE DEF mult, cap
<1>2. CASE base = 0 \/ mult = 0
  <2>1. base * mult = 0
    BY <1>0, <1>2
  <2> QED
    BY <1>0, <1>1, <1>2, <2>1 DEF Smaller, mult, cap
<1>3. CASE base > 0 /\ mult > 0 /\ (base >= cap \/ mult >= cap)
  <2>1. base * mult >= cap
    <3>1. \A i, j \in Nat : i >= cap /\ j > 0 => i * j >= cap
      <4>1. \A i, j \in Nat : j > 0 => i * j >= i
        OBVIOUS
      <4> QED
        BY <1>0, <4>1
    <3>2. base * mult = mult * base
      BY <1>0
    <3> QED
      BY <1>0, <1>3, <3>1, <3>2
  <2>2. base * mult \in Nat
    BY <1>0
  <2> QED
    BY <1>0, <1>1, <1>3, <2>1, <2>2 DEF Smaller, mult, cap
<1>4. CASE base > 0 /\ mult > 0 /\ base < cap /\ mult < cap
  BY <1>0, <1>1, <1>4 DEF mult, cap
<1> QED
  BY <1>0, <1>2, <1>3, <1>4

-----------------------------------------------------------------------------
(* Streaks *)

(* The last k failures follow one another within the window. *)
Run(f, k) == \A i \in Len(f) - k + 1 .. Len(f) - 1 : f[i + 1] - f[i] <= Window

IsStreak(f, c) ==
  /\ c \in 1 .. Len(f) /\ Run(f, c)
  /\ \A k \in 1 .. Len(f) : Run(f, k) => k <= c

(* The maximum is recognised. *)
LEMMA StreakIs ==
  ASSUME NEW f \in Seq(Nat), f # <<>>, NEW c, IsStreak(f, c)
  PROVE  Streak(f) = c
<1>. DEFINE S == {k \in 1 .. Len(f) : Run(f, k)}
<1>1. Streak(f) = Max(S)
  BY DEF Streak, Run
<1>2. c \in S /\ \A k \in S : c >= k
  BY DEF IsStreak
<1>3. S \subseteq Int
  OBVIOUS
<1>. HIDE DEF S
<1>4. \A x \in S : (\A k \in S : x >= k) => x = c
  BY <1>2, <1>3
<1>. QED
  BY <1>1, <1>2, <1>4, Zenon DEF Max

(* A failure within the window of the last one makes the streak longer. *)
LEMMA StreakGrows ==
  ASSUME NEW f \in Seq(Nat), NEW c, IsStreak(f, c), NEW t \in Nat, t - f[Len(f)] <= Window
  PROVE  IsStreak(Append(f, t), c + 1)
<1>. DEFINE g == Append(f, t)
            n == Len(f)
<1>1. n \in Nat \ {0} /\ c \in 1 .. n /\ Window \in Nat
  BY ThrottleAssumption DEF IsStreak
<1>2. Len(g) = n + 1 /\ g[n + 1] = t /\ \A i \in 1 .. n : g[i] = f[i]
  OBVIOUS
<1>3. ASSUME NEW k \in 1 .. n PROVE Run(f, k) <=> Run(g, k + 1)
  <2>1. \A i \in n - k + 1 .. n - 1 : g[i + 1] - g[i] = f[i + 1] - f[i]
    BY <1>1, <1>2
  <2>2. g[n + 1] - g[n] <= Window
    BY <1>1, <1>2
  <2>3. Len(g) - (k + 1) + 1 = n - k + 1 /\ Len(g) - 1 = n
    BY <1>1, <1>2
  <2>4. Run(g, k + 1) <=> \A i \in n - k + 1 .. n : g[i + 1] - g[i] <= Window
    BY <2>3, Zenon DEF Run
  <2>5. n - k + 1 .. n = (n - k + 1 .. n - 1) \cup {n}
    BY <1>1
  <2>6. Run(f, k) <=> \A i \in n - k + 1 .. n - 1 : g[i + 1] - g[i] <= Window
    BY <2>1 DEF Run
  <2>. HIDE DEF g, n
  <2>. QED
    BY <2>2, <2>4, <2>5, <2>6, Zenon
<1>4. ASSUME NEW k \in 1 .. n + 1, Run(g, k) PROVE k <= c + 1
  <2>1. CASE k = 1
    BY <1>1, <2>1
  <2>2. CASE k # 1
    <3>1. k - 1 \in 1 .. n /\ k = (k - 1) + 1
      BY <1>1, <2>2
    <3>2. Run(f, k - 1)
      BY <1>3, <1>4, <3>1
    <3>. QED
      BY <1>1, <3>1, <3>2 DEF IsStreak
  <2>. QED
    BY <2>1, <2>2
<1>5. Run(g, c + 1)
  BY <1>1, <1>3 DEF IsStreak
<1>. QED
  BY <1>1, <1>2, <1>4, <1>5 DEF IsStreak

(* One after the window, or the first, starts a streak. *)
LEMMA StreakStarts ==
  ASSUME NEW f \in Seq(Nat), NEW t \in Nat, f # <<>> => t - f[Len(f)] > Window
  PROVE  IsStreak(Append(f, t), 1)
<1>. DEFINE g == Append(f, t)
            n == Len(f)
<1>1. n \in Nat /\ Window \in Nat /\ (n # 0 => t - f[n] > Window)
  BY ThrottleAssumption
<1>2. Len(g) = n + 1 /\ g[n + 1] = t /\ \A i \in 1 .. n : g[i] = f[i]
  OBVIOUS
<1>3. Run(g, 1)
  BY <1>1, <1>2 DEF Run
<1>4. ASSUME NEW k \in 1 .. n + 1, Run(g, k) PROVE k <= 1
  <2>1. CASE k >= 2
    <3>1. n # 0 /\ n \in Len(g) - k + 1 .. Len(g) - 1
      BY <1>1, <1>2, <2>1
    <3>2. g[n + 1] - g[n] <= Window
      BY <1>4, <3>1 DEF Run
    <3>3. g[n] = f[n]
      BY <1>1, <1>2, <3>1
    <3>. QED
      BY <1>1, <1>2, <3>1, <3>2, <3>3
  <2>. QED
    BY <2>1
<1>. QED
  BY <1>1, <1>2, <1>3, <1>4 DEF IsStreak

-----------------------------------------------------------------------------
(* The invariant *)

EntryOK(n) ==
  LET e == entries[n]
      f == fails[n]
  IN /\ f = <<>> => e = NoEntry
     /\ f # <<>> =>
          \/ IsStreak(f, e.count) /\ e.last = f[Len(f)]
          \/ e = NoEntry /\ clock - f[Len(f)] > Window

ThrottleTypeOK ==
  /\ clock \in Nat
  /\ entries \in [Names -> [count : Nat, last : Nat]]
  /\ fails \in [Names -> Seq(Nat)]

ThrottleInv == ThrottleTypeOK /\ \A n \in Names : EntryOK(n)

(* It holds of the empty map. *)
LEMMA ThrottleInitInv == ThrottleInit => ThrottleInv
BY ThrottleAssumption DEF ThrottleInit, ThrottleInv, ThrottleTypeOK, EntryOK, NoEntry

(* A sweep drops only entries whose last failure is out of the window. *)
LEMMA SweepOK ==
  ASSUME ThrottleInv, NEW n \in Names
  PROVE  /\ Swept \in [Names -> [count : Nat, last : Nat]]
         /\ fails[n] = <<>> => Swept[n] = NoEntry
         /\ fails[n] # <<>> =>
              \/ IsStreak(fails[n], Swept[n].count) /\ Swept[n].last = fails[n][Len(fails[n])]
              \/ Swept[n] = NoEntry /\ clock - fails[n][Len(fails[n])] > Window
<1>1. NoEntry \in [count : Nat, last : Nat]
  BY DEF NoEntry
<1>2. Swept \in [Names -> [count : Nat, last : Nat]]
  BY <1>1 DEF Swept, ThrottleInv, ThrottleTypeOK
<1>3. Swept[n] = IF SweepDue /\ Stale(entries[n]) THEN NoEntry ELSE entries[n]
  BY DEF Swept
<1>4. EntryOK(n)
  BY DEF ThrottleInv
<1>. QED
  BY <1>2, <1>3, <1>4 DEF EntryOK, Stale, NoEntry

(* The last failure is the one just recorded. *)
LEMMA LastAppended ==
  ASSUME NEW q \in Seq(Nat), NEW x \in Nat
  PROVE  Append(q, x) # <<>> /\ Append(q, x)[Len(Append(q, x))] = x
<1>1. Len(Append(q, x)) = Len(q) + 1 /\ Append(q, x)[Len(q) + 1] = x /\ Append(q, x) # <<>>
  BY AppendProperties
<1>. QED
  BY <1>1

(* A failure sweeps the other entries and lengthens its own streak or starts it anew. *)
LEMMA FailInv ==
  ASSUME ThrottleInv, NEW n \in Names, Fail(n), clock' = clock
  PROVE  ThrottleInv'
<1>. DEFINE f == fails[n]
            e == Swept[n]
            c == IF Stale(e) THEN 1 ELSE e.count + 1
<1>1. /\ clock \in Nat /\ f \in Seq(Nat) /\ fails \in [Names -> Seq(Nat)] /\ Window \in Nat
      /\ Swept \in [Names -> [count : Nat, last : Nat]]
  BY SweepOK, ThrottleAssumption DEF ThrottleInv, ThrottleTypeOK
<1>2. /\ entries' = [Swept EXCEPT ![n] = [count |-> c, last |-> clock]]
      /\ fails' = [fails EXCEPT ![n] = Append(f, clock)]
  BY <1>1 DEF Fail
<1>3. c \in Nat
  BY <1>1
<1>4. ThrottleTypeOK'
  <2>1. [count |-> c, last |-> clock] \in [count : Nat, last : Nat] /\ Append(f, clock) \in Seq(Nat)
    BY <1>1, <1>3
  <2>. HIDE DEF c, f
  <2>. QED
    BY <1>1, <1>2, <2>1 DEF ThrottleTypeOK
<1>5. IsStreak(Append(f, clock), c)
  <2>1. CASE f = <<>> \/ clock - f[Len(f)] > Window
    <3>1. e = NoEntry \/ (e.last = f[Len(f)] /\ f # <<>> /\ e.count > 0)
      BY SweepOK DEF IsStreak
    <3>2. c = 1
      BY <1>1, <2>1, <3>1, SweepOK DEF Stale, NoEntry
    <3>. QED
      BY <1>1, <2>1, <3>2, StreakStarts
  <2>2. CASE f # <<>> /\ ~(clock - f[Len(f)] > Window)
    <3>1. IsStreak(f, e.count) /\ e.last = f[Len(f)]
      BY <2>2, SweepOK
    <3>2. f[Len(f)] \in Nat
      BY <1>1, <2>2
    <3>3. ~Stale(e) /\ clock - f[Len(f)] <= Window
      BY <1>1, <2>2, <3>1, <3>2 DEF Stale
    <3>. QED
      BY <1>1, <3>1, <3>3, StreakGrows
  <2>. QED
    BY <2>1, <2>2
<1>6. EntryOK(n)'
  <2>1. /\ entries'[n] = [count |-> c, last |-> clock]
        /\ fails'[n] = Append(f, clock)
    BY <1>1, <1>2
  <2>2. Append(f, clock) # <<>> /\ Append(f, clock)[Len(Append(f, clock))] = clock
    BY <1>1, LastAppended
  <2>. HIDE DEF c, f
  <2>. QED
    BY <1>5, <2>1, <2>2 DEF EntryOK
<1>7. ASSUME NEW m \in Names \ {n} PROVE EntryOK(m)'
  <2>1. entries'[m] = Swept[m] /\ fails'[m] = fails[m]
    BY <1>1, <1>2
  <2>. QED
    BY <2>1, SweepOK DEF EntryOK
<1>. QED
  BY <1>4, <1>6, <1>7 DEF ThrottleInv

(* A success clears the entry and the history of one name. *)
LEMMA ResetInv ==
  ASSUME ThrottleInv, NEW n \in Names, Reset(n), clock' = clock
  PROVE  ThrottleInv'
BY DEF ThrottleInv, ThrottleTypeOK, EntryOK, Reset, NoEntry

(* Time passes: an entry swept as stale stays stale. *)
LEMMA TickInv ==
  ASSUME ThrottleInv, Tick, UNCHANGED throttleVars
  PROVE  ThrottleInv'
<1>1. ThrottleTypeOK'
  BY DEF ThrottleInv, ThrottleTypeOK, Tick, throttleVars
<1>2. ASSUME NEW n \in Names PROVE EntryOK(n)'
  <2>1. fails[n] # <<>> => fails[n][Len(fails[n])] \in Nat
    BY DEF ThrottleInv, ThrottleTypeOK
  <2>. QED
    BY <2>1, ThrottleAssumption DEF ThrottleInv, ThrottleTypeOK, EntryOK, Tick, throttleVars
<1>. QED
  BY <1>1, <1>2 DEF ThrottleInv

(* ThrottleInv is inductive. *)
LEMMA ThrottleStep == ThrottleInv /\ [ThrottleNext]_<<clock, throttleVars>> => ThrottleInv'
<1>. SUFFICES ASSUME ThrottleInv, [ThrottleNext]_<<clock, throttleVars>> PROVE ThrottleInv'
  OBVIOUS
<1>1. CASE UNCHANGED <<clock, throttleVars>>
  BY <1>1 DEF throttleVars, ThrottleInv, ThrottleTypeOK, EntryOK
<1>. QED
  BY <1>1, FailInv, ResetInv, TickInv DEF ThrottleNext

(* It gives the delay, by DelayExact. *)
LEMMA ThrottleInvExact == ThrottleInv => ThrottleExact
<1>. SUFFICES ASSUME ThrottleInv, NEW n \in Names, fails[n] # <<>>,
                     clock - fails[n][Len(fails[n])] <= Window
              PROVE  /\ entries[n].count = Streak(fails[n])
                     /\ throttleDelay(entries[n].count, baseSecs, maxTries) =
                          Smaller(baseSecs * Smaller(Streak(fails[n]), maxTries), maxThrottleInputSecs)
  BY DEF ThrottleExact
<1>1. fails[n] \in Seq(Nat) /\ entries[n].count \in Nat /\ clock \in Nat /\ Window \in Nat
  BY ThrottleAssumption DEF ThrottleInv, ThrottleTypeOK
<1>2. fails[n][Len(fails[n])] \in Nat
  BY <1>1
<1>3. IsStreak(fails[n], entries[n].count)
  BY <1>1, <1>2 DEF ThrottleInv, EntryOK
<1>4. Streak(fails[n]) = entries[n].count
  BY <1>1, <1>3, StreakIs
<1>. QED
  BY <1>1, <1>4, DelayExact, ThrottleAssumption

(* A failed attempt is delayed by exactly the streak it belongs to, for    *)
(* any number of names whose failures sweep one another's entries, any     *)
(* window and any setting of the parameters (Fail, sweepLocked,            *)
(* throttleDelay).                                                         *)
THEOREM BackoffExact == ThrottleSpec => []ThrottleExact
<1>1. ThrottleSpec => []ThrottleInv
  BY ThrottleInitInv, ThrottleStep, PTL DEF ThrottleSpec
<1>. QED
  BY <1>1, ThrottleInvExact, PTL

-----------------------------------------------------------------------------
(* The replay floor.  Only the row and the clock matter: a session's copy  *)
(* of the row may be arbitrarily old.                                      *)
RowOK ==
  /\ clock \in Nat
  /\ acct \in Row
  /\ secrets \in Secrets
  /\ ids \in 0 .. MaxIds

IndInv == RowOK /\ FloorNotAhead

(* What Validate accepts is at most one step ahead of the clock. *)
LEMMA AcceptedStep ==
  ASSUME RowOK, NEW secret, NEW lastStep, NEW code \in Codes,
         Validate(secret, code, lastStep)
  PROVE  /\ code[1] \in Secrets
         /\ code[2] \in Steps
         /\ code[2] <= clock + 1
<1>1. code[1] \in 1 .. secrets /\ code[2] \in Steps
  BY DEF Codes
<1>2. code[1] \in Secrets
  BY <1>1, AuthAssumption DEF RowOK, Secrets
<1>3. code[2] <= clock + 1
  BY <1>1, AuthAssumption, ThrottleAssumption DEF RowOK, Validate, Steps
<1> QED
  BY <1>1, <1>2, <1>3

(* Changing fields of the row, each to a value of its type *)
LEMMA FloorEdit ==
  ASSUME NEW r \in Row, NEW f \in Steps, NEW w, w = [r EXCEPT !.floor = f]
  PROVE  w \in Row /\ w.floor = f
BY DEF Row

LEMMA FlagEdit ==
  ASSUME NEW r \in Row, NEW b \in BOOLEAN, NEW w,
         w = [r EXCEPT !.required = b] \/ w = [r EXCEPT !.locked = b]
  PROVE  w \in Row /\ w.floor = r.floor
BY DEF Row

(* The absent values are of their types.                                   *)
LEMMA Zeros == 0 \in Secrets /\ 0 \in Steps /\ 0 \in 0 .. MaxIds
BY AuthAssumption, ThrottleAssumption DEF Secrets, Steps

(* So are the rows without a secret.                                       *)
LEMMA EmptyRows ==
  ASSUME NEW i \in 0 .. MaxIds
  PROVE  NewRow(i) \in Row /\ NewRow(i).floor = 0 /\ NoRow \in Row /\ NoRow.floor = 0
BY Zeros DEF NewRow, NoRow, Row

(* The steps that leave the row alone *)
LEMMA OtherStep ==
  ASSUME IndInv, UNCHANGED acct, clock' = clock, UNCHANGED ids,
         secrets' = secrets \/ (secrets < MaxSecrets /\ secrets' = secrets + 1)
  PROVE  IndInv'
BY AuthAssumption DEF IndInv, RowOK, FloorNotAhead, Secrets

(* Clearing the secret clears the floor.                                   *)
LEMMA ClearStep ==
  ASSUME IndInv, ClearMFA, clock' = clock, UNCHANGED <<secrets, ids>>
  PROVE  IndInv'
<1>1. acct' \in Row /\ acct'.floor = 0
  <2>1. acct \in Row /\ acct' = [acct EXCEPT !.secret = 0, !.floor = 0]
    BY DEF ClearMFA, IndInv, RowOK
  <2> QED
    BY <2>1, Zeros DEF Row
<1> QED
  BY <1>1 DEF IndInv, RowOK, FloorNotAhead

(* A code accepted at the gate moves the floor within the skew.            *)
LEMMA VerifyStep ==
  ASSUME IndInv, NEW s \in Sessions, NEW code \in Codes, VerifyOk(s, code)
  PROVE  IndInv'
<1>1. code[2] \in Steps /\ code[2] <= clock + 1
  BY AcceptedStep DEF VerifyOk, IndInv
<1>2. acct' \in Row /\ acct'.floor = code[2]
  BY <1>1, FloorEdit DEF VerifyOk, UpdateMFAStep, IndInv, RowOK
<1> QED
  BY <1>1, <1>2 DEF VerifyOk, IndInv, RowOK, FloorNotAhead

(* So does the one that confirms an enrollment.                            *)
LEMMA EnrollStep ==
  ASSUME IndInv, NEW s \in Sessions, NEW code \in Codes, ConfirmEnroll(s, code)
  PROVE  IndInv'
<1>1. code[1] \in Secrets /\ code[2] \in Steps /\ code[2] <= clock + 1
  BY AcceptedStep DEF ConfirmEnroll, IndInv
<1>2. acct' \in Row /\ acct'.floor = code[2]
  <2>1. acct \in Row /\ acct' = [acct EXCEPT !.secret = code[1], !.floor = code[2]]
    BY DEF ConfirmEnroll, StoreMFAEnrollment, IndInv, RowOK
  <2> QED
    BY <1>1, <2>1 DEF Row
<1> QED
  BY <1>1, <1>2 DEF ConfirmEnroll, IndInv, RowOK, FloorNotAhead

(* Administrators edit, delete and recreate the row.                       *)
LEMMA AdminStep ==
  ASSUME IndInv, AdminEdit \/ AdminDelete \/ AdminCreate
  PROVE  IndInv'
<1>1. CASE AdminEdit
  <2>1. CASE ClearMFA
    BY <1>1, <2>1, ClearStep DEF AdminEdit
  <2>2. CASE \E b \in BOOLEAN : acct' = [acct EXCEPT !.required = b]
    <3>1. acct' \in Row /\ acct'.floor = acct.floor
      <4>1. acct \in Row
        BY DEF IndInv, RowOK
      <4> QED
        BY <2>2, <4>1, FlagEdit
    <3> QED
      BY <1>1, <3>1 DEF AdminEdit, IndInv, RowOK, FloorNotAhead
  <2>3. CASE \E b \in BOOLEAN : acct' = [acct EXCEPT !.locked = b]
    <3>1. acct' \in Row /\ acct'.floor = acct.floor
      <4>1. acct \in Row
        BY DEF IndInv, RowOK
      <4> QED
        BY <2>3, <4>1, FlagEdit
    <3> QED
      BY <1>1, <3>1 DEF AdminEdit, IndInv, RowOK, FloorNotAhead
  <2> QED
    BY <1>1, <2>1, <2>2, <2>3 DEF AdminEdit
<1>2. CASE AdminDelete
  BY <1>2, EmptyRows, Zeros DEF AdminDelete, IndInv, RowOK, FloorNotAhead
<1>3. CASE AdminCreate
  <2>1. ids' \in 0 .. MaxIds
    BY <1>3, AuthAssumption DEF AdminCreate, IndInv, RowOK
  <2>2. acct' \in Row /\ acct'.floor = 0
    BY <1>3, <2>1, EmptyRows DEF AdminCreate
  <2> QED
    BY <1>3, <2>1, <2>2 DEF AdminCreate, IndInv, RowOK, FloorNotAhead
<1> QED
  BY <1>1, <1>2, <1>3

(* The steps of a session                                                  *)
LEMMA SessionStep ==
  ASSUME IndInv, NEW s \in Sessions, Step(s)
  PROVE  IndInv'
<1>1. CASE \E c \in Codes : VerifyOk(s, c)
  BY <1>1, VerifyStep
<1>2. CASE \E c \in Codes : EnrollOk(s, c) \/ SelfEnrollOk(s, c)
  BY <1>2, EnrollStep DEF EnrollOk, SelfEnrollOk
<1>3. CASE StepUpDisable(s)
  BY <1>3, ClearStep, OtherStep DEF StepUpDisable
<1>4. CASE \/ \E n \in Names : LoginFails(s, n)
           \/ VerifyFails(s) \/ EnrollFails(s) \/ StepUpFails(s)
  BY <1>4, OtherStep DEF LoginFails, VerifyFails, EnrollFails, StepUpFails, Failed, authVars
<1>5. CASE \/ LoginOk(s) \/ Gate(s) \/ Leave(s) \/ ToMenu(s) \/ OpenSettings(s) \/ Reload(s)
           \/ SettingsBack(s) \/ ChooseMFA(s) \/ ChangePassword(s) \/ SelfCancel(s)
           \/ StepUpEnroll(s)
  <2>1. /\ UNCHANGED <<acct, clock, ids>>
        /\ secrets' = secrets \/ (secrets < MaxSecrets /\ secrets' = secrets + 1)
    BY <1>5 DEF LoginOk, Gate, Leave, ToMenu, OpenSettings, Reload, SettingsBack, ChooseMFA,
                ChangePassword, SelfCancel, StepUpEnroll
  <2> QED
    BY <2>1, OtherStep
<1> QED
  BY <1>1, <1>2, <1>3, <1>4, <1>5 DEF Step

(* IndInv holds of the first row.                                          *)
LEMMA InitInd == Init => IndInv
<1>1. 1 \in 0 .. MaxIds
  BY AuthAssumption
<1> QED
  BY <1>1, EmptyRows, Zeros, AuthAssumption, ThrottleAssumption
  DEF Init, ThrottleInit, IndInv, RowOK, FloorNotAhead, Secrets

(* IndInv is inductive.                                                    *)
LEMMA NextInd == IndInv /\ [Next]_vars => IndInv'
<1> SUFFICES ASSUME IndInv, [Next]_vars PROVE IndInv'
  OBVIOUS
<1>1. CASE Wait
  <2>1. clock' = clock + 1 /\ UNCHANGED <<acct, secrets, ids>>
    BY <1>1 DEF Wait, Tick, authVars
  <2> QED
    BY <2>1, AuthAssumption, ThrottleAssumption DEF IndInv, RowOK, FloorNotAhead, Row, Steps
<1>2. CASE UNCHANGED vars
  BY <1>2, OtherStep DEF vars
<1> QED
  BY <1>1, <1>2, SessionStep, AdminStep DEF Next

(* The replay floor never runs ahead of the clock by more than the skew    *)
(* Validate allows, for any number of concurrent sessions of the user,     *)
(* with stale copies of the row and of the secret.                         *)
THEOREM FloorBounded == Spec => []FloorNotAhead
<1>1. IndInv => FloorNotAhead
  BY DEF IndInv
<1> QED
  BY InitInd, NextInd, <1>1, PTL DEF Spec

-----------------------------------------------------------------------------
(* The backoff under the flows: every step of Auth is a step of Throttle   *)
(* or leaves the throttle alone, so that what is proved of it holds here.  *)

(* The throttle starts empty.                                              *)
LEMMA InitThrottle == Init => ThrottleInit
BY DEF Init

(* A flow fails, resets or leaves the throttle alone.                      *)
LEMMA SessionThrottles ==
  ASSUME NEW s \in Sessions, Step(s)
  PROVE  [ThrottleNext]_<<clock, throttleVars>>
<1>1. CASE \/ \E n \in Names : LoginFails(s, n)
           \/ VerifyFails(s) \/ EnrollFails(s) \/ StepUpFails(s)
  BY <1>1, AuthAssumption
  DEF LoginFails, VerifyFails, EnrollFails, StepUpFails, Failed, ThrottleNext
<1>2. CASE \/ LoginOk(s) \/ ChangePassword(s) \/ StepUpEnroll(s) \/ StepUpDisable(s)
           \/ \E c \in Codes : VerifyOk(s, c) \/ EnrollOk(s, c) \/ SelfEnrollOk(s, c)
  <2>1. Reset(User) /\ UNCHANGED clock
    BY <1>2 DEF LoginOk, ChangePassword, StepUpEnroll, StepUpDisable, VerifyOk, EnrollOk,
                SelfEnrollOk, ConfirmEnroll
  <2>. QED
    BY <2>1, AuthAssumption DEF ThrottleNext
<1>3. CASE \/ Gate(s) \/ Leave(s) \/ ToMenu(s) \/ OpenSettings(s) \/ Reload(s)
           \/ SettingsBack(s) \/ ChooseMFA(s) \/ SelfCancel(s)
  BY <1>3 DEF Gate, Leave, ToMenu, OpenSettings, Reload, SettingsBack, ChooseMFA, SelfCancel
<1>. QED
  BY <1>1, <1>2, <1>3 DEF Step

(* So does every step.                                                     *)
LEMMA NextThrottles == [Next]_vars => [ThrottleNext]_<<clock, throttleVars>>
<1>. SUFFICES ASSUME [Next]_vars PROVE [ThrottleNext]_<<clock, throttleVars>>
  OBVIOUS
<1>1. CASE AdminEdit \/ AdminDelete \/ AdminCreate
  BY <1>1 DEF AdminEdit, AdminDelete, AdminCreate
<1>2. CASE Wait
  BY <1>2 DEF Wait, ThrottleNext
<1>3. CASE UNCHANGED vars
  BY <1>3 DEF vars, throttleVars
<1>. QED
  BY <1>1, <1>2, <1>3, SessionThrottles DEF Next

(* Auth implements the throttle: each flow that checks a password or a     *)
(* code fails and resets as ThrottleSpec says (doLogin, mfaVerify,         *)
(* confirmEnroll, stepUpPassword, changePassword).                         *)
THEOREM AuthThrottles == Spec => ThrottleSpec
BY InitThrottle, NextThrottles, PTL DEF Spec, ThrottleSpec

(* So the delay is exact in every flow, whichever sessions interleave.     *)
THEOREM BackoffHolds == Spec => []ThrottleExact
BY AuthThrottles, BackoffExact, PTL

-----------------------------------------------------------------------------
(* The gate: nobody passes it without the code.                            *)
(*                                                                         *)
(* What could go wrong is that a session holding an old copy of the row is *)
(* overtaken by another one that enrolls.  It cannot, because a secret is  *)
(* enrolled only while it is fresh (FreshOK): it is not in the row, no     *)
(* session has logged in under it, and no other session is enrolling it.   *)

Enrolling(x) == x.phase \in {"enroll", "selfEnroll"}

(* What a session that has logged in may rely on, about its own record x   *)
(* and the row r, at the gate, at the prompts behind it and past them      *)
Passing(x, r) ==
  LET b == x.before
      kept == b.secret # 0 /\ b.secret = r.secret
  IN /\ x.phase = "gate" /\ ~x.touched => r.required = b.required /\ r.locked = b.locked
     /\ x.phase = "verify" => x.u.secret # 0 /\ (kept => x.u.secret = b.secret)
     /\ x.phase = "enroll" => ~kept
     /\ x.phase \in PastGate =>
          /\ kept => x.proved = b.secret
          /\ ~x.touched /\ b.required /\ ~b.locked => x.proved # 0

(* The secrets in use have been generated. *)
KnownOK ==
  /\ acct.secret \in 0 .. secrets
  /\ \A s \in Sessions : ses[s].before.secret \in 0 .. secrets /\ ses[s].fresh \in 0 .. secrets

(* A secret being enrolled is nobody else's. *)
FreshOK ==
  \A s \in Sessions : Enrolling(ses[s]) =>
    /\ ses[s].fresh # 0 /\ ses[s].fresh # acct.secret
    /\ \A t \in Sessions :
         /\ ses[t].before.secret # ses[s].fresh
         /\ Enrolling(ses[t]) /\ t # s => ses[t].fresh # ses[s].fresh

GateInv ==
  /\ ses \in [Sessions -> Session]
  /\ KnownOK /\ FreshOK
  /\ \A s \in Sessions : Passing(ses[s], acct)

-----------------------------------------------------------------------------
(* Steps of one session *)

(* A session moves to record r, enrolling nothing new, and the row keeps   *)
(* all but its floor.                                                      *)
LEMMA MoveStep ==
  ASSUME IndInv, GateInv, NEW s \in Sessions, NEW r \in Session,
         ses' = [ses EXCEPT ![s] = r],
         acct' \in Row, acct'.secret = acct.secret, acct'.required = acct.required,
         acct'.locked = acct.locked, UNCHANGED secrets,
         r.before \in {ses[s].before, acct, NoRow},
         r.fresh \in {ses[s].fresh, 0},
         Enrolling(r) => Enrolling(ses[s]) /\ r.fresh = ses[s].fresh,
         Passing(r, acct)
  PROVE  GateInv'
<1>0. /\ ses'[s] = r /\ \A t \in Sessions : t # s => ses'[t] = ses[t]
      /\ ses' \in [Sessions -> Session]
  BY DEF GateInv
<1>1. secrets \in Nat /\ NoRow.secret = 0
  BY AuthAssumption DEF IndInv, RowOK, Secrets, NoRow
<1>2. KnownOK'
  BY <1>0, <1>1 DEF GateInv, KnownOK
<1>3. FreshOK'
  BY <1>0, <1>1 DEF GateInv, FreshOK
<1>4. ASSUME NEW x PROVE Passing(x, acct) => Passing(x, acct')
  BY DEF Passing
<1>5. \A t \in Sessions : Passing(ses'[t], acct')
  BY <1>0, <1>4 DEF GateInv
<1> QED
  BY <1>0, <1>2, <1>3, <1>5 DEF GateInv

(* A session starts to enroll a secret that did not exist. *)
LEMMA NewSecretStep ==
  ASSUME IndInv, GateInv, NEW s \in Sessions, NEW r \in Session,
         ses' = [ses EXCEPT ![s] = r],
         UNCHANGED acct, secrets' = secrets + 1,
         r.before = ses[s].before, r.fresh = secrets + 1,
         Passing(r, acct)
  PROVE  GateInv'
<1>0. /\ ses'[s] = r /\ \A t \in Sessions : t # s => ses'[t] = ses[t]
      /\ ses' \in [Sessions -> Session]
  BY DEF GateInv
<1>1. secrets \in Nat
  BY AuthAssumption DEF IndInv, RowOK, Secrets
<1>2. KnownOK'
  BY <1>0, <1>1 DEF GateInv, KnownOK
<1>3. FreshOK'
  BY <1>0, <1>1 DEF GateInv, FreshOK, KnownOK
<1>4. \A t \in Sessions : Passing(ses'[t], acct')
  BY <1>0 DEF GateInv
<1> QED
  BY <1>0, <1>2, <1>3, <1>4 DEF GateInv

(* The row's secret is cleared, or replaced by the one session s enrolls,  *)
(* which moves to record r.                                                *)
LEMMA StoreStep ==
  ASSUME IndInv, GateInv, NEW s \in Sessions, NEW r \in Session,
         ses' = [ses EXCEPT ![s] = r],
         acct' \in Row, acct'.required = acct.required, acct'.locked = acct.locked,
         \/ acct'.secret = 0
         \/ Enrolling(ses[s]) /\ acct'.secret = ses[s].fresh,
         UNCHANGED secrets,
         r.before = ses[s].before, r.fresh \in {ses[s].fresh, 0}, ~Enrolling(r),
         Passing(r, acct')
  PROVE  GateInv'
<1>0. /\ ses'[s] = r /\ \A t \in Sessions : t # s => ses'[t] = ses[t]
      /\ ses' \in [Sessions -> Session]
  BY DEF GateInv
<1>1. secrets \in Nat
  BY AuthAssumption DEF IndInv, RowOK, Secrets
<1>2. KnownOK'
  BY <1>0, <1>1 DEF GateInv, KnownOK
<1>3. FreshOK'
  BY <1>0, <1>1 DEF GateInv, FreshOK
<1>4. \A t \in Sessions : ses[t].before.secret = 0 \/ ses[t].before.secret # acct'.secret
  BY DEF GateInv, FreshOK
<1>5. ASSUME NEW t \in Sessions, t # s PROVE Passing(ses'[t], acct')
  <2>1. Passing(ses[t], acct)
    BY DEF GateInv
  <2> QED
    BY <1>0, <1>4, <1>5, <2>1 DEF Passing
<1> QED
  BY <1>0, <1>2, <1>3, <1>5 DEF GateInv

(* Clearing the row's secret *)
LEMMA ClearedRow ==
  ASSUME IndInv, ClearMFA
  PROVE  /\ acct' \in Row /\ acct'.secret = 0
         /\ acct'.required = acct.required /\ acct'.locked = acct.locked
BY Zeros DEF ClearMFA, IndInv, RowOK, Row

(* Storing the secret of an accepted code *)
LEMMA EnrolledRow ==
  ASSUME IndInv, NEW s \in Sessions, NEW code \in Codes, ConfirmEnroll(s, code)
  PROVE  /\ acct' \in Row /\ acct'.secret = ses[s].fresh
         /\ acct'.required = acct.required /\ acct'.locked = acct.locked
<1>1. code[1] \in Secrets /\ code[2] \in Steps /\ code[1] = ses[s].fresh
  BY AcceptedStep DEF ConfirmEnroll, Validate, IndInv
<1> QED
  BY <1>1 DEF ConfirmEnroll, StoreMFAEnrollment, IndInv, RowOK, Row

(* Steps that change nothing the gate depends on, failed attempts too *)
LEMMA IdleStep ==
  ASSUME GateInv, UNCHANGED <<ses, acct, secrets>>
  PROVE  GateInv'
<1>1. KnownOK'
  BY DEF GateInv, KnownOK
<1>2. FreshOK'
  BY DEF GateInv, FreshOK
<1>3. \A s \in Sessions : Passing(ses'[s], acct')
  BY DEF GateInv
<1> QED
  BY <1>1, <1>2, <1>3 DEF GateInv

(* Logging in and out *)
LEMMA LoginStep ==
  ASSUME IndInv, GateInv, NEW s \in Sessions, LoginOk(s) \/ Leave(s)
  PROVE  GateInv'
<1>0. ses[s] \in Session /\ acct \in Row /\ NoRow \in Row /\ 0 \in Secrets
  BY EmptyRows, Zeros DEF GateInv, IndInv, RowOK
<1>1. CASE LoginOk(s)
  <2> DEFINE r == [ses[s] EXCEPT !.phase = "gate", !.before = acct]
  <2>1. r \in Session /\ r.before = acct /\ r.fresh = ses[s].fresh /\ r.phase = "gate"
    BY <1>0 DEF Session, Phases
  <2>2. ~Enrolling(r) /\ Passing(r, acct)
    BY <2>1 DEF Enrolling, Passing, PastGate
  <2>3. ses' = [ses EXCEPT ![s] = r] /\ UNCHANGED <<acct, secrets>>
    BY <1>1 DEF LoginOk
  <2> QED
    BY ONLY IndInv, GateInv, s \in Sessions, <1>0, <2>1, <2>2, <2>3, MoveStep
<1>2. CASE Leave(s)
  <2>1. AtLogin \in Session /\ AtLogin.before = NoRow /\ AtLogin.fresh = 0 /\ AtLogin.phase = "login"
    BY <1>0 DEF AtLogin, Session, Phases
  <2>2. ~Enrolling(AtLogin) /\ Passing(AtLogin, acct)
    BY <2>1 DEF Enrolling, Passing, PastGate
  <2> QED
    BY <1>0, <1>2, <2>1, <2>2, MoveStep DEF Leave
<1> QED
  BY <1>1, <1>2

(* The gate: a challenge, an enrollment, or straight through *)
LEMMA GateStep ==
  ASSUME IndInv, GateInv, NEW s \in Sessions, Gate(s)
  PROVE  GateInv'
<1>0. /\ ses[s] \in Session /\ acct \in Row /\ NoRow \in Row /\ 0 \in Secrets
      /\ Phase(s) = "gate" /\ UNCHANGED acct /\ secrets \in Nat
      /\ Passing(ses[s], acct)
  BY EmptyRows, Zeros, AuthAssumption DEF GateInv, IndInv, RowOK, Gate, Secrets
<1>1. CASE acct.secret # 0
  <2> DEFINE r == [ses[s] EXCEPT !.phase = "verify", !.u = acct]
  <2>1. /\ r \in Session /\ r.before = ses[s].before /\ r.fresh = ses[s].fresh
        /\ r.phase = "verify" /\ r.u = acct
    BY <1>0 DEF Session, Phases
  <2>2. ~Enrolling(r) /\ Passing(r, acct)
    BY <1>1, <2>1 DEF Enrolling, Passing, PastGate
  <2>3. ses' = [ses EXCEPT ![s] = r] /\ UNCHANGED secrets
    BY <1>1 DEF Gate
  <2> QED
    BY ONLY IndInv, GateInv, s \in Sessions, <1>0, <2>1, <2>2, <2>3, MoveStep
<1>2. CASE acct.secret = 0 /\ acct.required /\ ~acct.locked
  <2> DEFINE r == [ses[s] EXCEPT !.phase = "enroll", !.u = acct, !.fresh = secrets + 1]
  <2>0. ses' = [ses EXCEPT ![s] = r] /\ secrets' = secrets + 1 /\ secrets < MaxSecrets
    BY <1>2 DEF Gate
  <2>1. /\ r \in Session /\ r.before = ses[s].before /\ r.fresh = secrets + 1
        /\ r.phase = "enroll"
    <3>1. secrets + 1 \in Secrets
      BY <1>0, <2>0, AuthAssumption DEF Secrets
    <3> QED
      BY <1>0, <3>1 DEF Session, Phases
  <2>2. Passing(r, acct)
    BY <1>2, <2>1 DEF Passing, PastGate
  <2> QED
    BY ONLY IndInv, GateInv, s \in Sessions, <1>0, <2>0, <2>1, <2>2, NewSecretStep
<1>3. CASE acct.secret = 0 /\ (~acct.required \/ acct.locked)
  <2> DEFINE r == [ses[s] EXCEPT !.phase = "news", !.u = NoRow, !.fresh = 0, !.proved = 0]
  <2>1. /\ r \in Session /\ r.before = ses[s].before /\ r.fresh = 0 /\ r.phase = "news"
        /\ r.touched = ses[s].touched
    BY <1>0 DEF Session, Phases, PastGate
  <2>2. ~Enrolling(r) /\ Passing(r, acct)
    BY <1>0, <1>3, <2>1 DEF Enrolling, Passing, PastGate, Phase
  <2>3. ses' = [ses EXCEPT ![s] = r] /\ UNCHANGED secrets
    BY <1>3 DEF Gate, Admit
  <2> QED
    BY ONLY IndInv, GateInv, s \in Sessions, <1>0, <2>1, <2>2, <2>3, MoveStep
<1>4. acct.required \in BOOLEAN /\ acct.locked \in BOOLEAN
  BY <1>0 DEF Row
<1> QED
  BY <1>1, <1>2, <1>3, <1>4

(* A code is accepted at the gate. *)
LEMMA VerifyGate ==
  ASSUME IndInv, GateInv, NEW s \in Sessions, NEW code \in Codes, VerifyOk(s, code)
  PROVE  GateInv'
<1> DEFINE r == [ses[s] EXCEPT !.phase = "news", !.u = NoRow, !.fresh = 0, !.proved = code[1]]
<1>0. /\ ses[s] \in Session /\ acct \in Row /\ NoRow \in Row /\ 0 \in Secrets
      /\ ses[s].phase = "verify" /\ code[1] = ses[s].u.secret /\ Passing(ses[s], acct)
  BY EmptyRows, Zeros DEF GateInv, IndInv, RowOK, VerifyOk, Validate, Phase
<1>1. code[1] \in Secrets /\ code[2] \in Steps
  BY AcceptedStep DEF VerifyOk, IndInv
<1>2. /\ acct' \in Row /\ acct'.secret = acct.secret
      /\ acct'.required = acct.required /\ acct'.locked = acct.locked
  BY <1>0, <1>1 DEF VerifyOk, UpdateMFAStep, Row
<1>3. /\ r \in Session /\ r.before = ses[s].before /\ r.fresh = 0
      /\ r.phase = "news" /\ r.proved = code[1]
  BY <1>0, <1>1 DEF Session, Phases, PastGate
<1>4. ~Enrolling(r) /\ Passing(r, acct)
  BY <1>0, <1>3 DEF Enrolling, Passing, PastGate
<1>5. ses' = [ses EXCEPT ![s] = r] /\ UNCHANGED secrets
  BY DEF VerifyOk, Admit
<1> QED
  BY ONLY IndInv, GateInv, s \in Sessions, <1>2, <1>3, <1>4, <1>5, MoveStep

(* A code is accepted for a new secret, at the gate or in the settings. *)
LEMMA EnrollGate ==
  ASSUME IndInv, GateInv, NEW s \in Sessions, NEW code \in Codes,
         EnrollOk(s, code) \/ SelfEnrollOk(s, code)
  PROVE  GateInv'
<1>0. /\ ses[s] \in Session /\ NoRow \in Row /\ 0 \in Secrets
      /\ Passing(ses[s], acct) /\ Enrolling(ses[s]) /\ ConfirmEnroll(s, code)
  BY EmptyRows, Zeros DEF GateInv, EnrollOk, SelfEnrollOk, Phase, Enrolling
<1>1. /\ acct' \in Row /\ acct'.secret = ses[s].fresh
      /\ acct'.required = acct.required /\ acct'.locked = acct.locked
  BY <1>0, EnrolledRow
<1>2. code[1] \in Secrets /\ code[1] = ses[s].fresh /\ UNCHANGED secrets
  BY <1>0, AcceptedStep DEF ConfirmEnroll, Validate, IndInv
<1>3. ses[s].fresh # 0 /\ ses[s].before.secret # ses[s].fresh
  BY <1>0 DEF GateInv, FreshOK
<1>4. CASE EnrollOk(s, code)
  <2> DEFINE r == [ses[s] EXCEPT !.phase = "news", !.u = NoRow, !.fresh = 0, !.proved = code[1]]
  <2>1. /\ r \in Session /\ r.before = ses[s].before /\ r.fresh = 0
        /\ r.phase = "news" /\ r.proved = code[1]
    BY <1>0, <1>2 DEF Session, Phases, PastGate
  <2>2. ~Enrolling(r) /\ Passing(r, acct')
    BY <1>1, <1>2, <1>3, <2>1 DEF Enrolling, Passing, PastGate
  <2>3. ses' = [ses EXCEPT ![s] = r]
    BY <1>4 DEF EnrollOk, Admit
  <2> QED
    BY ONLY IndInv, GateInv, s \in Sessions, <1>0, <1>1, <1>2, <2>1, <2>2, <2>3, StoreStep
<1>5. CASE SelfEnrollOk(s, code)
  <2> DEFINE r == [ses[s] EXCEPT !.phase = "reload"]
  <2>0. ses[s].phase = "selfEnroll"
    BY <1>5 DEF SelfEnrollOk, Phase
  <2>1. /\ r \in Session /\ r.before = ses[s].before /\ r.fresh = ses[s].fresh
        /\ r.phase = "reload" /\ r.proved = ses[s].proved /\ r.touched = ses[s].touched
    BY <1>0 DEF Session, Phases, PastGate
  <2>2. ~Enrolling(r) /\ Passing(r, acct')
    BY <1>0, <1>1, <1>3, <2>0, <2>1 DEF Enrolling, Passing, PastGate
  <2>3. ses' = [ses EXCEPT ![s] = r]
    BY <1>5 DEF SelfEnrollOk, Goto
  <2> QED
    BY ONLY IndInv, GateInv, s \in Sessions, <1>0, <1>1, <1>2, <2>1, <2>2, <2>3, StoreStep
<1> QED
  BY <1>4, <1>5

-----------------------------------------------------------------------------
(* Behind the gate *)

(* A session past the gate stays past it, enrolling nothing. *)
LEMMA PastStep ==
  ASSUME IndInv, GateInv, NEW s \in Sessions, NEW r \in Session,
         ses' = [ses EXCEPT ![s] = r], UNCHANGED <<acct, secrets>>,
         ses[s].phase \in PastGate, r.phase \in PastGate \ {"selfEnroll"},
         r.before = ses[s].before, r.proved = ses[s].proved, r.touched = ses[s].touched,
         r.fresh \in {ses[s].fresh, 0}
  PROVE  GateInv'
<1>1. Passing(ses[s], acct) /\ acct \in Row
  BY DEF GateInv, IndInv, RowOK
<1>2. ~Enrolling(r) /\ Passing(r, acct)
  BY <1>1 DEF Enrolling, Passing, PastGate
<1> QED
  BY <1>1, <1>2, MoveStep

(* The menu, the settings and their prompts *)
LEMMA MenuStep ==
  ASSUME IndInv, GateInv, NEW s \in Sessions,
         \/ ToMenu(s) \/ OpenSettings(s) \/ Reload(s) \/ SettingsBack(s)
         \/ ChooseMFA(s) \/ ChangePassword(s) \/ SelfCancel(s)
  PROVE  GateInv'
<1>0. /\ ses[s] \in Session /\ acct \in Row /\ NoRow \in Row /\ 0 \in Secrets
      /\ UNCHANGED <<acct, secrets>> /\ ses[s].phase \in PastGate
  BY EmptyRows, Zeros
  DEF GateInv, IndInv, RowOK, ToMenu, OpenSettings, Reload, SettingsBack, ChooseMFA,
      ChangePassword, SelfCancel, Phase, PastGate
<1>1. \E r \in Session :
         /\ ses' = [ses EXCEPT ![s] = r]
         /\ r.phase \in PastGate \ {"selfEnroll"}
         /\ r.before = ses[s].before /\ r.proved = ses[s].proved /\ r.touched = ses[s].touched
         /\ r.fresh \in {ses[s].fresh, 0}
  <2> USE <1>0 DEF Session, Phases, PastGate
  <2>1. CASE ToMenu(s)
    <3>1. PICK open \in {TRUE, ~acct.locked} :
            ses' = [ses EXCEPT ![s] = [@ EXCEPT !.phase = "menu", !.settings = open]]
      BY <2>1 DEF ToMenu
    <3> WITNESS [ses[s] EXCEPT !.phase = "menu", !.settings = open] \in Session
    <3> QED
      BY <3>1
  <2>2. CASE OpenSettings(s) \/ ChangePassword(s) \/ SelfCancel(s)
    <3> WITNESS [ses[s] EXCEPT !.phase = "reload"] \in Session
    <3> QED
      BY <2>2 DEF OpenSettings, ChangePassword, SelfCancel, Goto
  <2>3. CASE Reload(s)
    <3> WITNESS [ses[s] EXCEPT !.phase = "settings", !.u = acct, !.fresh = 0] \in Session
    <3> QED
      BY <2>3 DEF Reload
  <2>4. CASE SettingsBack(s)
    <3> WITNESS [ses[s] EXCEPT !.phase = "menu", !.u = NoRow] \in Session
    <3> QED
      BY <2>4 DEF SettingsBack
  <2>5. CASE ChooseMFA(s)
    <3>1. PICK p \in {"stepEnroll", "stepDisable"} : Goto(s, p)
      BY ONLY <2>5 DEF ChooseMFA
    <3> WITNESS [ses[s] EXCEPT !.phase = p] \in Session
    <3> QED
      BY <3>1 DEF Goto
  <2> QED
    BY <2>1, <2>2, <2>3, <2>4, <2>5
<1> QED
  BY <1>0, <1>1, PastStep

(* The step-up before an enrollment, and disabling *)
LEMMA StepUpStep ==
  ASSUME IndInv, GateInv, NEW s \in Sessions, StepUpEnroll(s) \/ StepUpDisable(s)
  PROVE  GateInv'
<1>0. /\ ses[s] \in Session /\ acct \in Row /\ NoRow \in Row /\ 0 \in Secrets
      /\ secrets \in Nat /\ Passing(ses[s], acct)
      /\ ses[s].phase \in {"stepEnroll", "stepDisable"}
  BY EmptyRows, Zeros, AuthAssumption
  DEF GateInv, IndInv, RowOK, Secrets, StepUpEnroll, StepUpDisable, Phase
<1>1. CASE StepUpEnroll(s)
  <2> DEFINE r == [ses[s] EXCEPT !.phase = "selfEnroll", !.fresh = secrets + 1]
  <2>0. /\ ses' = [ses EXCEPT ![s] = r] /\ secrets' = secrets + 1 /\ secrets < MaxSecrets
        /\ UNCHANGED acct
    BY <1>1 DEF StepUpEnroll
  <2>1. secrets + 1 \in Secrets
    BY <1>0, <2>0, AuthAssumption DEF Secrets
  <2>2. /\ r \in Session /\ r.before = ses[s].before /\ r.fresh = secrets + 1
        /\ r.phase = "selfEnroll" /\ r.proved = ses[s].proved /\ r.touched = ses[s].touched
    BY <1>0, <2>1 DEF Session, Phases, PastGate
  <2>3. Passing(r, acct)
    BY <1>0, <2>2 DEF Passing, PastGate
  <2> QED
    BY ONLY IndInv, GateInv, s \in Sessions, <2>0, <2>2, <2>3, NewSecretStep
<1>2. CASE StepUpDisable(s) /\ ClearMFA /\ Goto(s, "reload")
  <2> DEFINE r == [ses[s] EXCEPT !.phase = "reload"]
  <2>1. /\ r \in Session /\ r.before = ses[s].before /\ r.fresh = ses[s].fresh
        /\ r.phase = "reload" /\ r.proved = ses[s].proved /\ r.touched = ses[s].touched
    BY <1>0 DEF Session, Phases, PastGate
  <2>2. /\ acct' \in Row /\ acct'.secret = 0
        /\ acct'.required = acct.required /\ acct'.locked = acct.locked
    BY <1>2, ClearedRow
  <2>3. ~Enrolling(r) /\ Passing(r, acct')
    BY <1>0, <2>1, <2>2 DEF Enrolling, Passing, PastGate
  <2>4. ses' = [ses EXCEPT ![s] = r] /\ UNCHANGED secrets
    BY <1>2 DEF StepUpDisable, Goto
  <2> QED
    BY ONLY IndInv, GateInv, s \in Sessions, <2>1, <2>2, <2>3, <2>4, StoreStep
<1>3. CASE StepUpDisable(s) /\ ses' = [ses EXCEPT ![s] = AtLogin] /\ UNCHANGED acct
  <2>1. AtLogin \in Session /\ AtLogin.before = NoRow /\ AtLogin.fresh = 0 /\ AtLogin.phase = "login"
    BY <1>0 DEF AtLogin, Session, Phases
  <2>2. ~Enrolling(AtLogin) /\ Passing(AtLogin, acct)
    BY <2>1 DEF Enrolling, Passing, PastGate
  <2>3. UNCHANGED secrets
    BY <1>3 DEF StepUpDisable
  <2> QED
    BY <1>0, <1>3, <2>1, <2>2, <2>3, MoveStep
<1> QED
  BY <1>1, <1>2, <1>3 DEF StepUpDisable

-----------------------------------------------------------------------------
(* Administrators may clear the secret, never set one, and every session   *)
(* that has logged in knows it was touched.                                *)
LEMMA AdminGate ==
  ASSUME IndInv, GateInv, AdminEdit \/ AdminDelete \/ AdminCreate
  PROVE  GateInv'
<1>0. secrets \in Nat /\ acct \in Row /\ UNCHANGED secrets /\ Touch
  BY AuthAssumption DEF IndInv, RowOK, Secrets, AdminEdit, AdminDelete, AdminCreate
<1>1. acct'.secret \in {acct.secret, 0}
  <2>1. CASE AdminEdit
    BY <1>0, <2>1, ClearedRow DEF AdminEdit, Row
  <2>2. CASE AdminDelete \/ AdminCreate
    BY <2>2 DEF AdminDelete, AdminCreate, NewRow, NoRow
  <2> QED
    BY <2>1, <2>2
<1>2. ASSUME NEW s \in Sessions
      PROVE  /\ ses'[s] \in Session /\ ses'[s].touched = (ses[s].phase # "login")
             /\ ses'[s].phase = ses[s].phase /\ ses'[s].before = ses[s].before
             /\ ses'[s].u = ses[s].u
             /\ ses'[s].fresh = ses[s].fresh /\ ses'[s].proved = ses[s].proved
  <2>1. ses[s] \in Session /\ ses'[s] = [ses[s] EXCEPT !.touched = Phase(s) # "login"]
    BY <1>0 DEF GateInv, Touch
  <2>2. (Phase(s) # "login") \in BOOLEAN
    OBVIOUS
  <2> QED
    BY <2>1, <2>2 DEF Session, Phase
<1>3. ses' \in [Sessions -> Session]
  BY <1>0, <1>2 DEF Touch
<1>4. KnownOK'
  BY <1>0, <1>1, <1>2 DEF GateInv, KnownOK
<1>5. FreshOK'
  BY <1>0, <1>1, <1>2 DEF GateInv, FreshOK, Enrolling
<1>6. ASSUME NEW s \in Sessions PROVE Passing(ses'[s], acct')
  <2>1. Passing(ses[s], acct)
    BY DEF GateInv
  <2> QED
    BY <1>1, <1>2, <2>1 DEF Passing, PastGate
<1> QED
  BY <1>3, <1>4, <1>5, <1>6 DEF GateInv

-----------------------------------------------------------------------------
(* GateInv holds before anyone logs in.                                    *)
LEMMA InitGate == Init => GateInv
<1> SUFFICES ASSUME Init PROVE GateInv
  OBVIOUS
<1>1. NoRow \in Row /\ 0 \in Secrets /\ secrets = 0 /\ acct.secret = 0
  BY EmptyRows, Zeros DEF Init, NewRow, NoRow
<1>2. /\ AtLogin \in Session /\ AtLogin.before.secret = 0 /\ AtLogin.fresh = 0
      /\ AtLogin.phase = "login"
  BY <1>1 DEF AtLogin, NoRow, Session, Phases
<1>3. \A s \in Sessions : ses[s] = AtLogin
  BY DEF Init
<1>4. \A s \in Sessions : ~Enrolling(ses[s]) /\ Passing(ses[s], acct)
  BY <1>2, <1>3 DEF Enrolling, Passing, PastGate
<1>5. ses \in [Sessions -> Session]
  BY <1>2 DEF Init
<1> QED
  BY <1>1, <1>2, <1>3, <1>4, <1>5 DEF GateInv, KnownOK, FreshOK

(* GateInv is inductive.                                                   *)
LEMMA NextGate == IndInv /\ GateInv /\ [Next]_vars => GateInv'
<1> SUFFICES ASSUME IndInv, GateInv, [Next]_vars PROVE GateInv'
  OBVIOUS
<1>1. ASSUME NEW s \in Sessions, Step(s) PROVE GateInv'
  <2>1. CASE LoginOk(s) \/ Leave(s)
    BY <2>1, LoginStep
  <2>2. CASE Gate(s)
    BY <2>2, GateStep
  <2>3. CASE \E c \in Codes : VerifyOk(s, c)
    BY <2>3, VerifyGate
  <2>4. CASE \E c \in Codes : EnrollOk(s, c) \/ SelfEnrollOk(s, c)
    BY <2>4, EnrollGate
  <2>5. CASE \/ \E n \in Names : LoginFails(s, n)
             \/ VerifyFails(s) \/ EnrollFails(s) \/ StepUpFails(s)
    <3>1. UNCHANGED <<ses, acct, secrets>>
      BY <2>5 DEF LoginFails, VerifyFails, EnrollFails, StepUpFails, Failed, authVars
    <3> QED
      BY <3>1, IdleStep
  <2>6. CASE \/ ToMenu(s) \/ OpenSettings(s) \/ Reload(s) \/ SettingsBack(s)
             \/ ChooseMFA(s) \/ ChangePassword(s) \/ SelfCancel(s)
    BY <2>6, MenuStep
  <2>7. CASE StepUpEnroll(s) \/ StepUpDisable(s)
    BY <2>7, StepUpStep
  <2> QED
    BY <1>1, <2>1, <2>2, <2>3, <2>4, <2>5, <2>6, <2>7 DEF Step
<1>2. CASE AdminEdit \/ AdminDelete \/ AdminCreate
  BY <1>2, AdminGate
<1>3. CASE Wait \/ UNCHANGED vars
  BY <1>3, IdleStep DEF Wait, authVars, vars
<1> QED
  BY <1>1, <1>2, <1>3 DEF Next

(* A session past the gate has shown a code for the secret that protected  *)
(* the account when its password was accepted, or has enrolled if it had   *)
(* to, for any number of concurrent sessions and secrets.                  *)
THEOREM GateHolds == Spec => []MfaEnforced
<1>1. GateInv => MfaEnforced
  BY DEF GateInv, Passing, MfaEnforced, Phase
<1> QED
  BY InitInd, NextInd, InitGate, NextGate, <1>1, PTL DEF Spec

-----------------------------------------------------------------------------
(* The floor is the highest step accepted as long as the user has one      *)
(* session at a time: nobody else stores a step between the load of the    *)
(* row at the gate and the code, and an administrator who gets there first *)
(* leaves no secret behind.  (With two sessions it fails: auth_replay.)    *)

Alone == \A s, t \in Sessions : s = t

(* At the prompt for the code, the copy x.u of the row r is up to date.    *)
CopyOK(x, r) ==
  x.phase = "verify" /\ r.secret # 0 => x.u.secret = r.secret /\ x.u.floor = r.floor

FloorInv ==
  /\ Alone
  /\ FloorIsHighest
  /\ \A s \in Sessions : CopyOK(ses[s], acct)

(* A step that leaves the row alone brings a session to the prompt only    *)
(* with a copy of the row as it is.                                        *)
LEMMA CopyStep ==
  ASSUME FloorInv, UNCHANGED <<acct, top>>,
         \A s \in Sessions : ses'[s].phase = "verify" =>
           \/ ses'[s].u = acct
           \/ ses[s].phase = "verify" /\ ses'[s].u = ses[s].u
  PROVE  FloorInv'
BY DEF FloorInv, Alone, FloorIsHighest, CopyOK

(* A step that leaves no secret in the row *)
LEMMA NoSecretStep ==
  ASSUME FloorInv, acct'.secret = 0
  PROVE  FloorInv'
BY DEF FloorInv, Alone, FloorIsHighest, CopyOK

(* A step that stores a step of a code, and takes the one session away     *)
(* from the prompt                                                         *)
LEMMA AcceptStep ==
  ASSUME FloorInv, NEW s \in Sessions, ses'[s].phase # "verify",
         acct'.secret # 0 => acct'.floor = top'
  PROVE  FloorInv'
BY DEF FloorInv, Alone, FloorIsHighest, CopyOK

LEMMA FloorSession ==
  ASSUME IndInv, GateInv, FloorInv, NEW s \in Sessions, Step(s)
  PROVE  FloorInv'
<1>0. ses \in [Sessions -> Session] /\ ses[s] \in Session
  BY DEF GateInv
<1>1. CASE \/ \E n \in Names : LoginFails(s, n)
           \/ VerifyFails(s) \/ EnrollFails(s) \/ StepUpFails(s)
  <2>1. UNCHANGED <<acct, top, ses>>
    BY <1>1 DEF LoginFails, VerifyFails, EnrollFails, StepUpFails, Failed, authVars
  <2> QED
    BY <2>1, CopyStep
<1>2. CASE \/ LoginOk(s) \/ Gate(s) \/ Leave(s) \/ ToMenu(s) \/ OpenSettings(s) \/ Reload(s)
           \/ SettingsBack(s) \/ ChooseMFA(s) \/ ChangePassword(s) \/ SelfCancel(s)
           \/ StepUpEnroll(s)
  <2>1. UNCHANGED <<acct, top>>
    BY <1>2 DEF LoginOk, Gate, Leave, ToMenu, OpenSettings, Reload, SettingsBack, ChooseMFA,
                ChangePassword, SelfCancel, StepUpEnroll
  <2>2. ses'[s].phase = "verify" => ses'[s].u = acct
    <3>1. CASE Gate(s)
      <4>1. CASE ses' = [ses EXCEPT ![s] = [@ EXCEPT !.phase = "verify", !.u = acct]]
        BY <1>0, <4>1 DEF Session
      <4>2. CASE ses' = [ses EXCEPT ![s] = [@ EXCEPT !.phase = "enroll", !.u = acct,
                                                     !.fresh = secrets']]
        BY <1>0, <4>2 DEF Session
      <4>3. CASE Admit(s, 0)
        BY <1>0, <4>3 DEF Admit, Session
      <4> QED
        BY <3>1, <4>1, <4>2, <4>3 DEF Gate
    <3>2. CASE LoginOk(s)
      <4>1. ses' = [ses EXCEPT ![s] = [@ EXCEPT !.phase = "gate", !.before = acct]]
        BY <3>2 DEF LoginOk
      <4> QED
        BY <1>0, <4>1 DEF Session
    <3>5. CASE Leave(s)
      <4>1. ses'[s] = AtLogin
        BY <1>0, <3>5 DEF Leave
      <4> QED
        BY <4>1 DEF AtLogin
    <3>3. CASE ToMenu(s) \/ OpenSettings(s)
      BY <1>0, <3>3 DEF ToMenu, OpenSettings, Goto, Session
    <3>6. CASE Reload(s) \/ SettingsBack(s)
      BY <1>0, <3>6 DEF Reload, SettingsBack, Session
    <3>4. CASE ChooseMFA(s) \/ ChangePassword(s) \/ SelfCancel(s) \/ StepUpEnroll(s)
      BY <1>0, <3>4 DEF ChooseMFA, ChangePassword, SelfCancel, StepUpEnroll, Goto, Session
    <3> QED
      BY <1>2, <3>1, <3>2, <3>3, <3>4, <3>5, <3>6
  <2>3. \A t \in Sessions : t = s
    BY DEF FloorInv, Alone
  <2> QED
    BY <2>1, <2>2, <2>3, CopyStep
<1>3. CASE \E c \in Codes : VerifyOk(s, c)
  <2>1. PICK c \in Codes : VerifyOk(s, c)
    BY <1>3
  <2>2. /\ ses[s].phase = "verify"
        /\ c[1] = ses[s].u.secret /\ c[2] > ses[s].u.floor
        /\ acct' = [acct EXCEPT !.floor = c[2]]
        /\ top' = IF acct.secret = c[1] /\ c[2] > top THEN c[2] ELSE top
    BY <2>1 DEF VerifyOk, Validate, UpdateMFAStep, Phase
  <2>3. ses'[s].phase # "verify"
    BY <1>0, <2>1 DEF VerifyOk, Admit, Session
  <2>4. acct'.secret = acct.secret /\ acct'.floor = c[2]
    BY <2>2 DEF IndInv, RowOK, Row
  <2>5. ASSUME acct.secret # 0 PROVE top' = c[2]
    <3>1. acct.secret = ses[s].u.secret /\ ses[s].u.floor = top
      BY <2>2, <2>5 DEF FloorInv, FloorIsHighest, CopyOK
    <3> QED
      BY <2>2, <3>1
  <2> QED
    BY <2>3, <2>4, <2>5, AcceptStep
<1>4. CASE \E c \in Codes : EnrollOk(s, c) \/ SelfEnrollOk(s, c)
  <2>1. PICK c \in Codes : EnrollOk(s, c) \/ SelfEnrollOk(s, c)
    BY <1>4
  <2>2. ses'[s].phase # "verify"
    <3>1. CASE Admit(s, c[1])
      BY <1>0, <3>1 DEF Admit, Session
    <3>2. CASE Goto(s, "reload")
      BY <1>0, <3>2 DEF Goto, Session
    <3> QED
      BY <2>1, <3>1, <3>2 DEF EnrollOk, SelfEnrollOk
  <2>3. acct'.floor = top'
    BY <2>1 DEF EnrollOk, SelfEnrollOk, ConfirmEnroll, StoreMFAEnrollment, IndInv, RowOK, Row
  <2> QED
    BY <2>2, <2>3, AcceptStep
<1>5. CASE StepUpDisable(s)
  <2>1. CASE ClearMFA
    BY <2>1, ClearedRow, NoSecretStep
  <2>2. CASE ses' = [ses EXCEPT ![s] = AtLogin] /\ UNCHANGED <<acct, top>>
    <3>1. ses'[s].phase # "verify" /\ \A t \in Sessions : t = s
      BY <1>0, <2>2 DEF AtLogin, FloorInv, Alone
    <3> QED
      BY <2>2, <3>1, CopyStep
  <2> QED
    BY <1>5, <2>1, <2>2 DEF StepUpDisable
<1> QED
  BY <1>1, <1>2, <1>3, <1>4, <1>5 DEF Step

LEMMA FloorNext == IndInv /\ GateInv /\ FloorInv /\ [Next]_vars => FloorInv'
<1> SUFFICES ASSUME IndInv, GateInv, FloorInv, [Next]_vars PROVE FloorInv'
  OBVIOUS
<1>1. CASE \E s \in Sessions : Step(s)
  BY <1>1, FloorSession
<1>2. CASE AdminEdit
  <2>1. CASE ClearMFA
    BY <2>1, ClearedRow, NoSecretStep
  <2>2. CASE \E b \in BOOLEAN : \/ acct' = [acct EXCEPT !.required = b] /\ UNCHANGED top
                                \/ acct' = [acct EXCEPT !.locked = b] /\ UNCHANGED top
    <3>1. acct'.secret = acct.secret /\ acct'.floor = acct.floor /\ top' = top
      BY <2>2 DEF IndInv, RowOK, Row
    <3>2. \A s \in Sessions : ses'[s].phase = ses[s].phase /\ ses'[s].u = ses[s].u
      BY <1>2 DEF AdminEdit, Touch, GateInv, Session
    <3> QED
      BY <3>1, <3>2 DEF FloorInv, Alone, FloorIsHighest, CopyOK
  <2> QED
    BY <1>2, <2>1, <2>2 DEF AdminEdit
<1>3. CASE AdminDelete \/ AdminCreate
  <2>1. acct'.secret = 0
    BY <1>3 DEF AdminDelete, AdminCreate, NoRow, NewRow
  <2> QED
    BY <2>1, NoSecretStep
<1>4. CASE Wait \/ UNCHANGED vars
  <2>1. UNCHANGED <<acct, top, ses>>
    BY <1>4 DEF Wait, authVars, vars
  <2> QED
    BY <2>1, CopyStep
<1> QED
  BY <1>1, <1>2, <1>3, <1>4 DEF Next

(* With one session at a time no accepted code can be used again, whatever *)
(* administrators do to the row meanwhile and for any secrets and ids.     *)
THEOREM FloorKept == Alone /\ Spec => []FloorIsHighest
<1>1. Alone /\ Init => FloorInv
  BY DEF Init, AtLogin, NewRow, NoRow, FloorInv, FloorIsHighest, CopyOK
<1>2. FloorInv => FloorIsHighest
  BY DEF FloorInv
<1> QED
  BY InitInd, NextInd, InitGate, NextGate, FloorNext, <1>1, <1>2, PTL DEF Spec

=============================================================================
