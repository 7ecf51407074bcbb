--------------------------- MODULE DummyPcmProofs ---------------------------
(***************************************************************************)
(* Proofs about DummyPcm, for any set of substreams, any HZ and any        *)
(* hardware parameters.                                                    *)
(*                                                                         *)
(* The inductive invariant joins the life of a substream to its struct:    *)
(* once prepared, and until new parameters are set, the struct holds the   *)
(* sizes of the current parameters, the position is inside the buffer and  *)
(* the rest of the period is between 1 and the whole period.  The timer is *)
(* pending exactly while the substream runs, which is why the callback can *)
(* rely on all of that.                                                    *)
(*                                                                         *)
(* Accounting follows because reducing a total step by step gives the same *)
(* remainder as reducing it once.  TimerOnPeriodEnd needs the clock: since *)
(* a period is shorter than half a turn of jiffies, the timer of a running *)
(* substream expires TicksLeft ticks after base_time and is at most        *)
(* MaxLate ticks overdue (`ClockInv').                                     *)
(***************************************************************************)
EXTENDS DummyPcm, TLAPS

Filled == {"prepared", "running", "suspended"}

\* Struct d holds the parameters r and a position that fits them.
Sized(d, r) ==
  /\ d.rate = r.rate
  /\ d.frac_buffer_size = r.buffer_size * HZ
  /\ d.frac_period_size = r.period_size * HZ
  /\ d.frac_pos < d.frac_buffer_size
  /\ 1 <= d.frac_period_rest /\ d.frac_period_rest <= d.frac_period_size

StructInv ==
  \A s \in Substreams :
    /\ pstate[s] # "closed" => dpcm[s].alloc
    /\ pstate[s] \notin {"closed", "open"} => runtime[s] \in Params
    /\ pstate[s] \in Filled => Sized(dpcm[s], runtime[s])

\* An enabled device holds the address and the sizes of a running substream.
DevicePlaysRunning ==
  regs.enable => regs.of \in Substreams /\ pstate[regs.of] = "running"

IInv == TypeOK /\ StructInv /\ TimerIffRunning /\ DevicePlaysRunning
----------------------------------------------------------------------------
(* Arithmetic of the two loops of dummy_systimer_update *)

LEMMA ModBound ==
  ASSUME NEW a \in Int, NEW m \in Nat \ {0}
  PROVE  a % m \in Nat /\ a % m < m
OBVIOUS

LEMMA ProductPos ==
  ASSUME NEW a \in Nat \ {0}, NEW b \in Nat \ {0}
  PROVE  a * b \in Nat \ {0}
OBVIOUS

\* A position below size * h fractions is a frame below size.
LEMMA DivLess ==
  ASSUME NEW a \in Nat, NEW b \in Nat, NEW h \in Nat \ {0}, a < b * h
  PROVE  a \div h < b
<1> DEFINE q == a \div h
<1>1. q \in Int /\ h * q <= a
  OBVIOUS
<1> HIDE DEF q
<1>2. ASSUME q >= b PROVE FALSE
  <2>1. h * q >= h * b
    BY <1>1, <1>2
  <2> QED
    BY <2>1, <1>1
<1> QED
  BY <1>1, <1>2 DEF q

LEMMA DivMono ==
  ASSUME NEW a \in Nat, NEW b \in Nat, NEW h \in Nat \ {0}, a <= b
  PROVE  a \div h \in Nat /\ b \div h \in Nat /\ a \div h <= b \div h
OBVIOUS

\* After the loop over the ended periods the rest is a proper rest again.
LEMMA RestBound ==
  ASSUME NEW r \in Nat, NEW d \in Nat, NEW p \in Nat, 1 <= r, r <= p, r <= d
  PROVE  LET k == (d - r) \div p + 1
         IN  k \in Nat /\ r + k * p - d \in Nat /\ 1 <= r + k * p - d /\ r + k * p - d <= p
<1> DEFINE q == (d - r) \div p
<1>1. q \in Nat /\ q * p <= d - r /\ d - r < q * p + p
  OBVIOUS
<1> HIDE DEF q
<1>2. (q + 1) * p = q * p + p /\ q * p \in Int
  BY <1>1
<1> QED
  BY <1>1, <1>2 DEF q

\* Quotient and remainder are the only ones.
LEMMA DivModUnique ==
  ASSUME NEW a \in Nat, NEW m \in Nat \ {0}, NEW q \in Int, NEW r \in Int,
         a = m * q + r, 0 <= r, r < m
  PROVE  a \div m = q /\ a % m = r
<1> DEFINE x == a \div m
<1> DEFINE y == a % m
<1>1. x \in Int /\ y \in Int /\ a = m * x + y /\ 0 <= y /\ y < m
  OBVIOUS
<1> HIDE DEF x, y
<1>2. ASSUME x > q PROVE FALSE
  <2>1. m * x >= m * (q + 1)
    BY <1>1, <1>2
  <2>2. m * (q + 1) = m * q + m
    OBVIOUS
  <2> QED
    BY <2>1, <2>2, <1>1
<1>3. ASSUME x < q PROVE FALSE
  <2>1. m * q >= m * (x + 1)
    BY <1>1, <1>3
  <2>2. m * (x + 1) = m * x + m
    BY <1>1
  <2> QED
    BY <2>1, <2>2, <1>1
<1>4. x = q
  BY <1>1, <1>2, <1>3
<1> QED
  BY <1>1, <1>4 DEF x, y

\* A remainder modulo a multiple of m has the remainder modulo m.
LEMMA ModOfMultiple ==
  ASSUME NEW a \in Nat, NEW m \in Nat \ {0}, NEW n \in Nat \ {0}
  PROVE  (a % (m * n)) % m = a % m
<1> DEFINE k == m * n
<1>1. k \in Nat \ {0}
  BY ProductPos
<1> DEFINE q == a \div k
<1> DEFINE r == a % k
<1>2. q \in Int /\ r \in Nat /\ a = k * q + r
  <2> HIDE DEF k
  <2> QED BY <1>1
<1> HIDE DEF q, r
<1> DEFINE x == r \div m
<1> DEFINE y == r % m
<1>3. x \in Int /\ y \in Int /\ r = m * x + y /\ 0 <= y /\ y < m
  BY <1>2
<1> HIDE DEF x, y
<1>4. k * q = m * (n * q)
  BY <1>2
<1>5. n * q \in Int /\ m * (n * q + x) = m * (n * q) + m * x
  BY <1>2, <1>3
<1>6. a = m * (n * q + x) + y
  BY <1>2, <1>3, <1>4, <1>5
<1>7. a % m = y
  <2>1. n * q + x \in Int
    BY <1>3, <1>5
  <2> QED BY <1>3, <1>6, <2>1, DivModUnique
<1> QED
  BY <1>7 DEF y, r, k

\* What is added to a remainder is added to the number.
LEMMA ModAdd ==
  ASSUME NEW a \in Nat, NEW b \in Nat, NEW m \in Nat \ {0}
  PROVE  ((a % m) + b) % m = (a + b) % m
<1> DEFINE q == a \div m
<1> DEFINE r == a % m
<1>1. q \in Int /\ r \in Nat /\ a = m * q + r
  OBVIOUS
<1> HIDE DEF q, r
<1> DEFINE x == (r + b) \div m
<1> DEFINE y == (r + b) % m
<1>2. x \in Int /\ y \in Int /\ r + b = m * x + y /\ 0 <= y /\ y < m
  BY <1>1
<1> HIDE DEF x, y
<1>3. m * (q + x) = m * q + m * x
  BY <1>1, <1>2
<1>4. a + b = m * (q + x) + y
  BY <1>1, <1>2, <1>3
<1>5. (a + b) % m = y
  <2>1. a + b \in Nat /\ q + x \in Int
    BY <1>1, <1>2
  <2> QED BY <1>2, <1>4, <2>1, DivModUnique
<1> QED
  BY <1>5 DEF y, r
----------------------------------------------------------------------------
(* The operations on one struct *)

LEMMA DeltaNat ==
  jiffies \in 0 .. JMOD - 1 => \A d \in DpcmType : Delta(d) \in Nat
<1> SUFFICES ASSUME jiffies \in 0 .. JMOD - 1, NEW d \in DpcmType PROVE Delta(d) \in Nat
  OBVIOUS
<1>1. jiffies - d.base_time \in Int /\ d.rate \in Nat /\ JMOD \in Nat \ {0}
  BY PcmAssumption DEF DpcmType
<1>2. (jiffies - d.base_time) % JMOD \in Nat
  BY <1>1, ModBound
<1> QED
  BY <1>1, <1>2 DEF Delta

\* The parameters make both sizes and the rate positive.
LEMMA SizedPositive ==
  ASSUME NEW d \in DpcmType, NEW r \in Params, Sized(d, r)
  PROVE  d.rate \in Nat \ {0} /\ d.frac_buffer_size \in Nat \ {0} /\ d.frac_period_size \in Nat \ {0}
<1>1. r.rate \in Nat \ {0} /\ r.period_size \in Nat \ {0} /\ r.buffer_size \in Nat \ {0}
      /\ HZ \in Nat \ {0}
  BY PcmAssumption
<1> QED
  BY <1>1, ProductPos DEF Sized

LEMMA UpdateOK ==
  jiffies \in 0 .. JMOD - 1 =>
    \A d \in DpcmType : \A r \in Params : Sized(d, r) =>
      /\ dummy_systimer_update(d) \in DpcmType
      /\ Sized(dummy_systimer_update(d), r)
      /\ dummy_systimer_update(d).alloc = d.alloc
      /\ dummy_systimer_update(d).pending = d.pending
<1> SUFFICES ASSUME jiffies \in 0 .. JMOD - 1, NEW d \in DpcmType, NEW r \in Params,
                    Sized(d, r), jiffies # d.base_time
             PROVE  /\ dummy_systimer_update(d) \in DpcmType
                    /\ Sized(dummy_systimer_update(d), r)
                    /\ dummy_systimer_update(d).alloc = d.alloc
                    /\ dummy_systimer_update(d).pending = d.pending
  BY DEF dummy_systimer_update
<1> DEFINE k == PeriodsEnded(d)
<1> DEFINE rest == d.frac_period_rest + k * d.frac_period_size - Delta(d)
<1> DEFINE pos == (d.frac_pos + Delta(d)) % d.frac_buffer_size
<1>1. Delta(d) \in Nat
  BY DeltaNat
<1>2. d.frac_period_rest \in Nat /\ d.frac_pos \in Nat /\ d.elapsed \in Nat
  BY DEF DpcmType
<1>3. d.frac_buffer_size \in Nat \ {0} /\ d.frac_period_size \in Nat \ {0}
  BY SizedPositive
<1>4. 1 <= d.frac_period_rest /\ d.frac_period_rest <= d.frac_period_size
  BY DEF Sized
<1>5. k \in Nat /\ rest \in Nat /\ 1 <= rest /\ rest <= d.frac_period_size
  <2>1. CASE d.frac_period_rest <= Delta(d)
    BY <1>1, <1>2, <1>3, <1>4, <2>1, RestBound DEF PeriodsEnded
  <2>2. CASE ~(d.frac_period_rest <= Delta(d))
    BY <1>1, <1>2, <1>3, <1>4, <2>2 DEF PeriodsEnded
  <2> QED
    BY <2>1, <2>2
<1>6. pos \in Nat /\ pos < d.frac_buffer_size
  <2>1. d.frac_pos + Delta(d) \in Int
    BY <1>1, <1>2
  <2> QED
    BY <2>1, <1>3, ModBound, Zenon
<1>7. dummy_systimer_update(d) =
        [d EXCEPT !.base_time = jiffies, !.frac_pos = pos, !.elapsed = @ + k,
                  !.frac_period_rest = rest]
  BY DEF dummy_systimer_update
<1> HIDE DEF k, rest, pos
<1>8. d.elapsed + k \in Nat
  BY <1>2, <1>5
<1> QED
  BY <1>5, <1>6, <1>7, <1>8 DEF DpcmType, Sized

LEMMA RearmOK ==
  jiffies \in 0 .. JMOD - 1 =>
    \A d \in DpcmType : \A r \in Params : Sized(d, r) =>
      /\ dummy_systimer_rearm(d) \in DpcmType
      /\ Sized(dummy_systimer_rearm(d), r)
      /\ dummy_systimer_rearm(d).alloc = d.alloc
      /\ dummy_systimer_rearm(d).pending
<1> SUFFICES ASSUME jiffies \in 0 .. JMOD - 1, NEW d \in DpcmType, NEW r \in Params, Sized(d, r)
             PROVE  /\ dummy_systimer_rearm(d) \in DpcmType
                    /\ Sized(dummy_systimer_rearm(d), r)
                    /\ dummy_systimer_rearm(d).alloc = d.alloc
                    /\ dummy_systimer_rearm(d).pending
  OBVIOUS
<1> DEFINE delay == (d.frac_period_rest + d.rate - 1) \div d.rate
<1>1. d.rate \in Nat \ {0} /\ d.frac_period_rest \in Nat /\ JMOD \in Nat \ {0}
  BY SizedPositive, PcmAssumption DEF DpcmType
<1>2. delay \in Int
  BY <1>1
<1> HIDE DEF delay
<1>3. (jiffies + delay) % JMOD \in 0 .. JMOD - 1
  BY <1>1, <1>2, ModBound
<1>4. dummy_systimer_rearm(d) = [d EXCEPT !.pending = TRUE, !.expires = (jiffies + delay) % JMOD]
  BY DEF dummy_systimer_rearm, delay
<1> QED
  BY <1>3, <1>4 DEF DpcmType, Sized

LEMMA StartOK ==
  jiffies \in 0 .. JMOD - 1 =>
    \A d \in DpcmType : \A r \in Params : Sized(d, r) =>
      /\ dummy_systimer_start(d) \in DpcmType
      /\ Sized(dummy_systimer_start(d), r)
      /\ dummy_systimer_start(d).alloc = d.alloc
      /\ dummy_systimer_start(d).pending
<1> SUFFICES ASSUME jiffies \in 0 .. JMOD - 1, NEW d \in DpcmType, NEW r \in Params, Sized(d, r)
             PROVE  /\ dummy_systimer_start(d) \in DpcmType
                    /\ Sized(dummy_systimer_start(d), r)
                    /\ dummy_systimer_start(d).alloc = d.alloc
                    /\ dummy_systimer_start(d).pending
  OBVIOUS
<1>1. [d EXCEPT !.base_time = jiffies] \in DpcmType
  BY DEF DpcmType
<1>2. Sized([d EXCEPT !.base_time = jiffies], r) /\ [d EXCEPT !.base_time = jiffies].alloc = d.alloc
  BY DEF Sized, DpcmType
<1> QED
  BY <1>1, <1>2, RearmOK DEF dummy_systimer_start

LEMMA StopOK ==
  \A d \in DpcmType :
      /\ dummy_systimer_stop(d) \in DpcmType
      /\ \A r \in Params : Sized(d, r) => Sized(dummy_systimer_stop(d), r)
      /\ dummy_systimer_stop(d).alloc = d.alloc
      /\ ~dummy_systimer_stop(d).pending
BY DEF DpcmType, Sized, dummy_systimer_stop

LEMMA PrepareOK ==
  \A d \in DpcmType : \A r \in Params :
      /\ dummy_systimer_prepare(d, r) \in DpcmType
      /\ Sized(dummy_systimer_prepare(d, r), r)
      /\ dummy_systimer_prepare(d, r).alloc = d.alloc
      /\ dummy_systimer_prepare(d, r).pending = d.pending
<1> SUFFICES ASSUME NEW d \in DpcmType, NEW r \in Params
             PROVE  /\ dummy_systimer_prepare(d, r) \in DpcmType
                    /\ Sized(dummy_systimer_prepare(d, r), r)
                    /\ dummy_systimer_prepare(d, r).alloc = d.alloc
                    /\ dummy_systimer_prepare(d, r).pending = d.pending
  OBVIOUS
<1>1. r.rate \in Nat \ {0} /\ r.period_size \in Nat \ {0} /\ r.buffer_size \in Nat \ {0}
      /\ HZ \in Nat \ {0}
  BY PcmAssumption
<1>2. r.period_size * HZ \in Nat \ {0} /\ r.buffer_size * HZ \in Nat \ {0}
  BY <1>1, ProductPos
<1> DEFINE p == dummy_systimer_prepare(d, r)
<1>3. p \in DpcmType
  BY <1>1, <1>2 DEF DpcmType, dummy_systimer_prepare
<1>4. p.alloc = d.alloc /\ p.pending = d.pending
  BY DEF DpcmType, dummy_systimer_prepare
<1>5. /\ p.rate = r.rate /\ p.frac_pos = 0
      /\ p.frac_buffer_size = r.buffer_size * HZ
      /\ p.frac_period_size = r.period_size * HZ
      /\ p.frac_period_rest = r.period_size * HZ
  BY DEF DpcmType, dummy_systimer_prepare
<1> HIDE DEF p
<1>6. Sized(p, r)
  BY <1>2, <1>5 DEF Sized
<1> QED
  BY <1>3, <1>4, <1>6 DEF p

LEMMA FreshOK ==
  /\ ZeroDpcm \in DpcmType /\ ZeroDpcm.alloc /\ ~ZeroDpcm.pending
  /\ Freed \in DpcmType /\ ~Freed.pending
  /\ \A d \in DpcmType : dummy_systimer_free(d) \in DpcmType
                         /\ dummy_systimer_free(d).pending = d.pending
<1>1. 0 \in 0 .. JMOD - 1
  BY PcmAssumption
<1>2. ZeroDpcm \in DpcmType /\ ZeroDpcm.alloc /\ ~ZeroDpcm.pending
  BY <1>1 DEF ZeroDpcm, DpcmType
<1>3. Freed \in DpcmType /\ ~Freed.pending
  BY <1>1 DEF ZeroDpcm, Freed, DpcmType
<1>4. \A d \in DpcmType : d.pending \in BOOLEAN
  BY DEF DpcmType
<1> HIDE DEF Freed
<1>5. \A b \in BOOLEAN : [Freed EXCEPT !.pending = b] \in DpcmType
                        /\ [Freed EXCEPT !.pending = b].pending = b
  BY <1>3 DEF DpcmType
<1> QED
  BY <1>2, <1>3, <1>4, <1>5 DEF dummy_systimer_free
----------------------------------------------------------------------------
(* The inductive invariant *)

LEMMA InitInv == Init => IInv
<1> SUFFICES ASSUME Init PROVE IInv
  OBVIOUS
<1>1. TypeOK
  <2>1. dpcm \in [Substreams -> DpcmType]
    BY FreshOK DEF Init
  <2>2. pstate \in [Substreams -> PStates] /\ runtime \in [Substreams -> Params \cup {NoParams}]
    BY DEF Init, PStates
  <2>3. played \in [Substreams -> Nat] /\ owed \in [Substreams -> Nat]
    BY DEF Init
  <2>4. regs \in [enable : BOOLEAN, of : Substreams \cup {"none"}]
    BY DEF Init
  <2> QED
    BY <2>1, <2>2, <2>3, <2>4 DEF Init, TypeOK
<1>2. StructInv
  BY DEF Init, StructInv, Filled
<1>3. TimerIffRunning
  BY FreshOK DEF Init, TimerIffRunning
<1>4. DevicePlaysRunning
  BY DEF Init, DevicePlaysRunning
<1> QED
  BY <1>1, <1>2, <1>3, <1>4 DEF IInv

\* A step that moves only the state, parameters and struct of s, to values
\* that fit together, keeps the invariants about structs and timers.
LEMMA OneSubstream ==
  ASSUME IInv, NEW s \in Substreams,
         NEW st \in PStates, NEW r \in Params \cup {NoParams}, NEW d \in DpcmType,
         pstate' = [pstate EXCEPT ![s] = st],
         runtime' = [runtime EXCEPT ![s] = r],
         dpcm' = [dpcm EXCEPT ![s] = d],
         st # "closed" => d.alloc,
         st \notin {"closed", "open"} => r \in Params,
         st \in Filled => Sized(d, r),
         d.pending <=> st = "running"
  PROVE  /\ pstate' \in [Substreams -> PStates]
         /\ runtime' \in [Substreams -> Params \cup {NoParams}]
         /\ dpcm' \in [Substreams -> DpcmType]
         /\ StructInv' /\ TimerIffRunning'
<1>1. /\ pstate \in [Substreams -> PStates]
      /\ runtime \in [Substreams -> Params \cup {NoParams}]
      /\ dpcm \in [Substreams -> DpcmType]
  BY DEF IInv, TypeOK
<1>2. pstate'[s] = st /\ runtime'[s] = r /\ dpcm'[s] = d
  BY <1>1
<1>3. \A t \in Substreams : t # s =>
        pstate'[t] = pstate[t] /\ runtime'[t] = runtime[t] /\ dpcm'[t] = dpcm[t]
  BY <1>1
<1>4. StructInv'
  <2> SUFFICES ASSUME NEW t \in Substreams
               PROVE  /\ pstate'[t] # "closed" => dpcm'[t].alloc
                      /\ pstate'[t] \notin {"closed", "open"} => runtime'[t] \in Params
                      /\ pstate'[t] \in Filled => Sized(dpcm'[t], runtime'[t])
    BY DEF StructInv, Sized
  <2>1. CASE t = s
    BY <1>2, <2>1
  <2>2. CASE t # s
    BY <1>3, <2>2 DEF IInv, StructInv
  <2> QED
    BY <2>1, <2>2
<1>5. TimerIffRunning'
  <2> SUFFICES ASSUME NEW t \in Substreams
               PROVE  /\ dpcm'[t].pending <=> pstate'[t] = "running"
                      /\ dpcm'[t].pending => dpcm'[t].alloc
    BY DEF TimerIffRunning
  <2>1. CASE t = s
    BY <1>2, <2>1
  <2>2. CASE t # s
    BY <1>3, <2>2 DEF IInv, TimerIffRunning
  <2> QED
    BY <2>1, <2>2
<1> QED
  BY <1>1, <1>4, <1>5

\* The device is off after a stop, and on only when a start left one running.
LEMMA DeviceStep ==
  ASSUME IInv, NEW s \in Substreams, NEW st \in PStates,
         pstate' = [pstate EXCEPT ![s] = st],
         \/ regs' = StopRegs
         \/ regs' = regs /\ (pstate[s] = "running" => st = "running")
         \/ st = "running" /\ regs' = [enable |-> TRUE, of |-> s]
  PROVE  regs' \in [enable : BOOLEAN, of : Substreams \cup {"none"}] /\ DevicePlaysRunning'
<1>1. regs \in [enable : BOOLEAN, of : Substreams \cup {"none"}]
  BY DEF IInv, TypeOK
<1>2. pstate'[s] = st /\ \A t \in Substreams : t # s => pstate'[t] = pstate[t]
  BY DEF IInv, TypeOK
<1>3. CASE regs' = StopRegs
  BY <1>1, <1>3 DEF StopRegs, DevicePlaysRunning
<1>4. CASE regs' = regs /\ (pstate[s] = "running" => st = "running")
  BY <1>1, <1>2, <1>4 DEF IInv, DevicePlaysRunning
<1>5. CASE st = "running" /\ regs' = [enable |-> TRUE, of |-> s]
  BY <1>2, <1>5 DEF DevicePlaysRunning
<1> QED
  BY <1>3, <1>4, <1>5

\* What an update of a running substream adds to the history is a count.
LEMMA HistoryOK ==
  ASSUME IInv, NEW s \in Substreams, pstate[s] = "running"
  PROVE  PlayedAfter(s) \in Nat /\ OwedAfter(s) \in Nat
<1> DEFINE d == dpcm[s]
<1>1. d \in DpcmType /\ runtime[s] \in Params /\ Sized(d, runtime[s])
  BY DEF IInv, TypeOK, StructInv, Filled
<1>2. d.frac_buffer_size \in Nat \ {0} /\ d.frac_period_size \in Nat \ {0}
  BY <1>1, SizedPositive
<1>3. Delta(d) \in Nat /\ played[s] \in Nat /\ owed[s] \in Nat
  BY <1>1, DeltaNat DEF IInv, TypeOK
<1> HIDE DEF d
<1> DEFINE m == d.frac_buffer_size * d.frac_period_size
<1>4. m \in Nat \ {0}
  BY <1>2, ProductPos
<1> HIDE DEF m
<1>5. (played[s] + Delta(d)) % m \in Nat
  BY <1>3, <1>4, ModBound
<1> DEFINE x == played[s] \div d.frac_period_size
<1> DEFINE y == (played[s] + Delta(d)) \div d.frac_period_size
<1>6. x \in Nat /\ y \in Nat /\ x <= y
  BY <1>2, <1>3, DivMono, SMTT(30)
<1>7. owed[s] + y - x \in Nat
  <2> HIDE DEF x, y
  <2> QED BY <1>3, <1>6
<1> QED
  BY <1>5, <1>7 DEF d, m, PlayedAfter, OwedAfter

LEMMA NextInv == IInv /\ [Next]_vars => IInv'
<1> SUFFICES ASSUME IInv, [Next]_vars PROVE IInv'
  OBVIOUS
<1>a. /\ jiffies \in 0 .. JMOD - 1
      /\ pstate \in [Substreams -> PStates]
      /\ runtime \in [Substreams -> Params \cup {NoParams}]
      /\ dpcm \in [Substreams -> DpcmType]
      /\ regs \in [enable : BOOLEAN, of : Substreams \cup {"none"}]
      /\ played \in [Substreams -> Nat]
      /\ owed \in [Substreams -> Nat]
  BY DEF IInv, TypeOK
<1>b. ASSUME NEW s \in Substreams
      PROVE  /\ dpcm[s] \in DpcmType
             /\ runtime[s] \in Params \cup {NoParams}
             /\ pstate[s] # "closed" => dpcm[s].alloc
             /\ pstate[s] \notin {"closed", "open"} => runtime[s] \in Params
             /\ pstate[s] \in Filled => Sized(dpcm[s], runtime[s])
             /\ dpcm[s].pending <=> pstate[s] = "running"
  BY <1>a DEF IInv, StructInv, TimerIffRunning
<1>c. ASSUME NEW s \in Substreams,
             NEW st \in PStates, NEW r \in Params \cup {NoParams}, NEW d \in DpcmType,
             pstate' = [pstate EXCEPT ![s] = st],
             runtime' = [runtime EXCEPT ![s] = r],
             dpcm' = [dpcm EXCEPT ![s] = d],
             st # "closed" => d.alloc,
             st \notin {"closed", "open"} => r \in Params,
             st \in Filled => Sized(d, r),
             d.pending <=> st = "running",
             \/ regs' = StopRegs
             \/ regs' = regs /\ (pstate[s] = "running" => st = "running")
             \/ st = "running" /\ regs' = [enable |-> TRUE, of |-> s],
             jiffies' = jiffies,
             played' \in [Substreams -> Nat], owed' \in [Substreams -> Nat]
      PROVE  IInv'
  <2>1. /\ pstate' \in [Substreams -> PStates]
        /\ runtime' \in [Substreams -> Params \cup {NoParams}]
        /\ dpcm' \in [Substreams -> DpcmType]
        /\ StructInv' /\ TimerIffRunning'
    BY <1>c, OneSubstream
  <2>2. regs' \in [enable : BOOLEAN, of : Substreams \cup {"none"}] /\ DevicePlaysRunning'
    BY <1>c, DeviceStep
  <2> QED
    BY <1>a, <1>c, <2>1, <2>2 DEF IInv, TypeOK
<1>1. CASE Tick
  <2>1. jiffies' \in 0 .. JMOD - 1
    BY <1>1, <1>a, PcmAssumption, ModBound DEF Tick
  <2>2. pstate' = pstate /\ runtime' = runtime /\ dpcm' = dpcm /\ regs' = regs
        /\ played' = played /\ owed' = owed
    BY <1>1 DEF Tick, history
  <2> QED
    BY <2>1, <2>2, <1>a DEF IInv, TypeOK, StructInv, TimerIffRunning, DevicePlaysRunning
<1>2. CASE UNCHANGED vars
  BY <1>2 DEF vars, IInv, TypeOK, StructInv, TimerIffRunning, DevicePlaysRunning
<1>3. ASSUME NEW s \in Substreams, Open(s) PROVE IInv'
  <2>1. CASE pstate' = [pstate EXCEPT ![s] = "open"] /\ dpcm' = [dpcm EXCEPT ![s] = ZeroDpcm]
    <3>1. runtime' = [runtime EXCEPT ![s] = runtime[s]] /\ regs' = regs /\ jiffies' = jiffies
          /\ played' = played /\ owed' = owed /\ pstate[s] = "closed"
      BY <1>3, <1>a DEF Open, history
    <3> QED
      BY <2>1, <3>1, <1>a, <1>b, <1>c, FreshOK DEF PStates, Filled
  <2>2. CASE UNCHANGED <<pstate, dpcm>>
    <3>1. UNCHANGED vars
      BY <1>3, <2>2 DEF Open, history, vars
    <3> QED
      BY <3>1, <1>2
  <2> QED
    BY <1>3, <2>1, <2>2 DEF Open
<1>4. ASSUME NEW s \in Substreams, HwParams(s) PROVE IInv'
  <2>1. /\ dpcm' = [dpcm EXCEPT ![s] = dpcm[s]] /\ regs' = regs /\ jiffies' = jiffies
        /\ played' = played /\ owed' = owed /\ pstate[s] \in {"open", "setup", "prepared"}
    BY <1>4, <1>a DEF HwParams, history
  <2>2. CASE pstate' = [pstate EXCEPT ![s] = "open"] /\ UNCHANGED runtime
    <3>1. runtime' = [runtime EXCEPT ![s] = runtime[s]]
      BY <2>2, <1>a
    <3>2. /\ dpcm[s] \in DpcmType /\ runtime[s] \in Params \cup {NoParams}
          /\ dpcm[s].alloc /\ ~dpcm[s].pending /\ pstate[s] # "running"
      BY <2>1, <1>b
    <3>3. "open" \in PStates /\ "open" \notin Filled
      BY DEF PStates, Filled
    <3>4. played' \in [Substreams -> Nat] /\ owed' \in [Substreams -> Nat]
      BY <2>1, <1>a
    <3> QED
      BY <2>1, <2>2, <3>1, <3>2, <3>3, <3>4, <1>c
  <2>3. ASSUME NEW p \in Params,
               runtime' = [runtime EXCEPT ![s] = p], pstate' = [pstate EXCEPT ![s] = "setup"]
        PROVE  IInv'
    BY <2>1, <2>3, <1>a, <1>b, <1>c DEF PStates, Filled
  <2> QED
    BY <1>4, <2>2, <2>3 DEF HwParams
<1>5. ASSUME NEW s \in Substreams, HwFree(s) PROVE IInv'
  <2>1. /\ dpcm' = [dpcm EXCEPT ![s] = dpcm[s]] /\ regs' = regs /\ jiffies' = jiffies
        /\ runtime' = [runtime EXCEPT ![s] = runtime[s]]
        /\ played' = played /\ owed' = owed
        /\ pstate' = [pstate EXCEPT ![s] = "open"]
        /\ pstate[s] \in {"setup", "prepared", "xrun", "suspended"}
    BY <1>5, <1>a DEF HwFree, history
  <2> QED
    BY <2>1, <1>a, <1>b, <1>c DEF PStates, Filled
<1>6. ASSUME NEW s \in Substreams, Prepare(s) PROVE IInv'
  <2> DEFINE d == dummy_systimer_prepare(dpcm[s], runtime[s])
  <2>1. /\ dpcm' = [dpcm EXCEPT ![s] = d] /\ regs' = regs /\ jiffies' = jiffies
        /\ runtime' = [runtime EXCEPT ![s] = runtime[s]]
        /\ pstate' = [pstate EXCEPT ![s] = "prepared"]
        /\ pstate[s] \in {"setup", "prepared", "xrun", "suspended"}
    BY <1>6, <1>a DEF Prepare
  <2>2. played' \in [Substreams -> Nat] /\ owed' \in [Substreams -> Nat]
    BY <1>6, <1>a DEF Prepare
  <2>3. runtime[s] \in Params /\ dpcm[s].alloc /\ ~dpcm[s].pending
    BY <2>1, <1>b
  <2>4. d \in DpcmType /\ Sized(d, runtime[s]) /\ d.alloc /\ ~d.pending
    BY <2>3, <1>b, PrepareOK
  <2> HIDE DEF d
  <2> QED
    BY <2>1, <2>2, <2>3, <2>4, <1>c DEF PStates
<1>7. ASSUME NEW s \in Substreams, TriggerStart(s) PROVE IInv'
  <2> DEFINE d == dummy_systimer_start(dpcm[s])
  <2>1. /\ dpcm' = [dpcm EXCEPT ![s] = d] /\ jiffies' = jiffies
        /\ runtime' = [runtime EXCEPT ![s] = runtime[s]]
        /\ pstate' = [pstate EXCEPT ![s] = "running"]
        /\ regs' = [enable |-> TRUE, of |-> s]
        /\ played' = played /\ owed' = owed
        /\ pstate[s] \in {"prepared", "suspended"}
    BY <1>7, <1>a DEF TriggerStart, history
  <2>2. runtime[s] \in Params /\ dpcm[s].alloc /\ Sized(dpcm[s], runtime[s])
    BY <2>1, <1>b DEF Filled
  <2>3. d \in DpcmType /\ Sized(d, runtime[s]) /\ d.alloc /\ d.pending
    BY <2>2, <1>a, <1>b, StartOK
  <2> HIDE DEF d
  <2> QED
    BY <2>1, <2>2, <2>3, <1>a, <1>c DEF PStates
<1>8. ASSUME NEW s \in Substreams, TriggerStop(s) PROVE IInv'
  <2> DEFINE d == dummy_systimer_stop(dpcm[s])
  <2>1. /\ dpcm' = [dpcm EXCEPT ![s] = d] /\ jiffies' = jiffies
        /\ runtime' = [runtime EXCEPT ![s] = runtime[s]]
        /\ regs' = StopRegs
        /\ played' = played /\ owed' = owed
        /\ pstate[s] = "running"
    BY <1>8, <1>a DEF TriggerStop, history
  <2>2. PICK st \in {"setup", "suspended"} : pstate' = [pstate EXCEPT ![s] = st]
    BY <1>8 DEF TriggerStop
  <2>3. runtime[s] \in Params /\ dpcm[s].alloc /\ Sized(dpcm[s], runtime[s])
    BY <2>1, <1>b DEF Filled
  <2>4. d \in DpcmType /\ Sized(d, runtime[s]) /\ d.alloc /\ ~d.pending
    BY <2>3, <1>b, StopOK
  <2>5. st \in PStates /\ st # "running"
    BY <2>2 DEF PStates
  <2> HIDE DEF d
  <2> QED
    BY <2>1, <2>2, <2>3, <2>4, <2>5, <1>a, <1>c
<1>d. ASSUME NEW s \in Substreams, NEW d \in DpcmType, CoreChecks(s, d),
             pstate[s] = "running", d.alloc, d.pending, Sized(d, runtime[s]),
             jiffies' = jiffies, runtime' = runtime,
             played' \in [Substreams -> Nat], owed' \in [Substreams -> Nat]
      PROVE  IInv'
  <2>1. runtime' = [runtime EXCEPT ![s] = runtime[s]] /\ runtime[s] \in Params
    BY <1>d, <1>a, <1>b
  <2>2. CASE dpcm' = [dpcm EXCEPT ![s] = d] /\ UNCHANGED <<pstate, regs>>
    <3>1. pstate' = [pstate EXCEPT ![s] = "running"] /\ regs' = regs
      BY <1>d, <1>a, <2>2
    <3> QED
      BY <1>d, <1>c, <2>1, <2>2, <3>1 DEF PStates
  <2>3. CASE /\ pstate' = [pstate EXCEPT ![s] = "xrun"]
             /\ regs' = StopRegs
             /\ dpcm' = [dpcm EXCEPT ![s] = dummy_systimer_stop(d)]
    <3> DEFINE e == dummy_systimer_stop(d)
    <3>1. e \in DpcmType /\ e.alloc /\ ~e.pending
      BY <1>d, StopOK
    <3>2. dpcm' = [dpcm EXCEPT ![s] = e]
      BY <2>3
    <3> HIDE DEF e
    <3> QED
      BY <1>d, <1>c, <2>1, <2>3, <3>1, <3>2 DEF PStates, Filled
  <2> QED
    BY <1>d, <2>2, <2>3 DEF CoreChecks
<1>9. ASSUME NEW s \in Substreams, Pointer(s) PROVE IInv'
  <2>1. /\ pstate[s] = "running" /\ jiffies' = jiffies /\ runtime' = runtime
        /\ CoreChecks(s, dummy_systimer_update(dpcm[s]))
    BY <1>9 DEF Pointer
  <2>2. played' \in [Substreams -> Nat] /\ owed' \in [Substreams -> Nat]
    BY <1>9, <1>a, <2>1, HistoryOK DEF Pointer
  <2>3. runtime[s] \in Params /\ dpcm[s].alloc /\ dpcm[s].pending /\ Sized(dpcm[s], runtime[s])
    BY <2>1, <1>b DEF Filled
  <2> DEFINE d == dummy_systimer_update(dpcm[s])
  <2>4. d \in DpcmType /\ Sized(d, runtime[s]) /\ d.alloc /\ d.pending
    BY <2>3, <1>a, <1>b, UpdateOK
  <2> HIDE DEF d
  <2> QED
    BY <2>1, <2>2, <2>4, <1>d DEF d
<1>10. ASSUME NEW s \in Substreams, Close(s) PROVE IInv'
  <2> DEFINE d == dummy_systimer_free(dpcm[s])
  <2>1. /\ dpcm' = [dpcm EXCEPT ![s] = d] /\ jiffies' = jiffies /\ regs' = regs
        /\ runtime' = [runtime EXCEPT ![s] = NoParams]
        /\ pstate' = [pstate EXCEPT ![s] = "closed"]
        /\ pstate[s] # "running"
    BY <1>10 DEF Close
  <2>2. played' \in [Substreams -> Nat] /\ owed' \in [Substreams -> Nat]
    BY <1>10, <1>a DEF Close
  <2>3. d \in DpcmType /\ ~d.pending
    BY <2>1, <1>b, FreshOK
  <2> HIDE DEF d
  <2> QED
    BY <2>1, <2>2, <2>3, <1>c DEF PStates, Filled
<1>11. ASSUME NEW s \in Substreams, Callback(s) PROVE IInv'
  <2> DEFINE c == [dpcm[s] EXCEPT !.pending = FALSE]
  <2> DEFINE d == dummy_systimer_update(c)
  <2> DEFINE z == [d EXCEPT !.elapsed = 0]
  <2> DEFINE e == dummy_systimer_rearm(z)
  <2>1. pstate[s] = "running"
    BY <1>11, <1>b DEF Callback, Due
  <2>2. runtime[s] \in Params /\ dpcm[s].alloc /\ Sized(dpcm[s], runtime[s])
    BY <2>1, <1>b DEF Filled
  <2>3. c \in DpcmType /\ c.alloc /\ Sized(c, runtime[s])
    BY <2>2, <1>b DEF DpcmType, Sized
  <2> HIDE DEF c
  <2>4. d \in DpcmType /\ d.alloc /\ Sized(d, runtime[s])
    BY <2>2, <2>3, <1>a, UpdateOK
  <2> HIDE DEF d
  <2>5. z \in DpcmType /\ z.alloc /\ Sized(z, runtime[s])
    BY <2>4 DEF DpcmType, Sized
  <2> HIDE DEF z
  <2>6. e \in DpcmType /\ e.alloc /\ e.pending /\ Sized(e, runtime[s])
    BY <2>2, <2>5, <1>a, RearmOK
  <2> HIDE DEF e
  <2>7. \/ CoreChecks(s, e)
        \/ dpcm' = [dpcm EXCEPT ![s] = e] /\ UNCHANGED <<pstate, regs>>
    BY <1>11 DEF Callback, c, d, z, e
  <2>8. CoreChecks(s, e)
    BY <2>7 DEF CoreChecks
  <2>9. jiffies' = jiffies /\ runtime' = runtime
    BY <1>11 DEF Callback
  <2>10. played' = [played EXCEPT ![s] = PlayedAfter(s)]
         /\ (owed' = [owed EXCEPT ![s] = 0] \/ owed' = [owed EXCEPT ![s] = OwedAfter(s)])
    BY <1>11 DEF Callback
  <2>11. played' \in [Substreams -> Nat] /\ owed' \in [Substreams -> Nat]
    BY <2>1, <2>10, <1>a, HistoryOK
  <2> QED
    BY <2>1, <2>6, <2>8, <2>9, <2>11, <1>d
<1> QED
  BY <1>1, <1>2, <1>3, <1>4, <1>5, <1>6, <1>7, <1>8, <1>9, <1>10, <1>11 DEF Next

LEMMA Inductive == Spec => []IInv
BY InitInv, NextInv, PTL DEF Spec
----------------------------------------------------------------------------
(* The driver's remainders and the total played *)

\* Struct d agrees with a total of pl fractions and ow unreported periods.
Acct(d, pl, ow) ==
  /\ d.frac_pos = pl % d.frac_buffer_size
  /\ d.frac_period_rest = d.frac_period_size - (pl % d.frac_period_size)
  /\ d.elapsed = ow

\* dummy_systimer_update moves position, rest and count of periods the way
\* the total moves.
LEMMA UpdateAcct ==
  jiffies \in 0 .. JMOD - 1 =>
    \A d \in DpcmType : \A r \in Params : \A pl, ow \in Nat :
      Sized(d, r) /\ Acct(d, pl, ow) =>
        Acct(dummy_systimer_update(d),
             (pl + Delta(d)) % (d.frac_buffer_size * d.frac_period_size),
             ow + (pl + Delta(d)) \div d.frac_period_size - pl \div d.frac_period_size)
<1> SUFFICES ASSUME jiffies \in 0 .. JMOD - 1, NEW d \in DpcmType, NEW r \in Params,
                    NEW pl \in Nat, NEW ow \in Nat, Sized(d, r), Acct(d, pl, ow)
             PROVE  Acct(dummy_systimer_update(d),
                         (pl + Delta(d)) % (d.frac_buffer_size * d.frac_period_size),
                         ow + (pl + Delta(d)) \div d.frac_period_size
                            - pl \div d.frac_period_size)
  OBVIOUS
<1> DEFINE D == Delta(d)
<1> DEFINE B == d.frac_buffer_size
<1> DEFINE P == d.frac_period_size
<1> DEFINE tot == (pl + D) % (B * P)
<1>1. D \in Nat /\ B \in Nat \ {0} /\ P \in Nat \ {0}
  BY DeltaNat, SizedPositive
<1>2. d.frac_pos = pl % B /\ d.frac_period_rest = P - (pl % P) /\ d.elapsed = ow
  BY DEF Acct
<1>3. 1 <= d.frac_period_rest /\ d.frac_period_rest <= P /\ d.frac_period_rest \in Nat
      /\ d.frac_pos \in Nat
  BY DEF Sized, DpcmType
<1>4. tot % B = (pl + D) % B /\ tot % P = (pl + D) % P
  <2> HIDE DEF D, B, P
  <2>1. pl + D \in Nat /\ B * P = P * B
    BY <1>1
  <2>2. tot % B = (pl + D) % B
    BY <1>1, <2>1, ModOfMultiple
  <2>3. ((pl + D) % (P * B)) % P = (pl + D) % P
    BY <1>1, <2>1, ModOfMultiple
  <2> QED
    BY <2>1, <2>2, <2>3
<1>5. CASE jiffies = d.base_time
  <2>1. D = 0
    <3>1. jiffies - d.base_time = 0 /\ JMOD \in Nat \ {0} /\ d.rate \in Nat
      BY <1>5, PcmAssumption DEF DpcmType
    <3>2. 0 % JMOD = 0
      BY <3>1
    <3> QED
      BY <3>1, <3>2 DEF Delta
  <2>2. dummy_systimer_update(d) = d
    BY <1>5 DEF dummy_systimer_update
  <2> HIDE DEF D
  <2>3. pl + D = pl
    BY <2>1
  <2>4. ow + (pl + D) \div P - pl \div P = ow
    <3> DEFINE x == pl \div P
    <3>1. x \in Int
      BY <1>1
    <3> HIDE DEF x
    <3>2. ow + x - x = ow
      BY <3>1
    <3> QED
      BY <2>3, <3>2 DEF x
  <2>5. d.frac_pos = tot % B /\ d.frac_period_rest = P - (tot % P)
    BY <1>2, <1>4, <2>3
  <2> HIDE DEF tot
  <2>6. Acct(d, tot, ow)
    BY <1>2, <2>5 DEF Acct
  <2> QED
    BY <2>2, <2>4, <2>6 DEF D, tot
<1>6. CASE jiffies # d.base_time
  <2> DEFINE k == PeriodsEnded(d)
  <2> DEFINE rest == d.frac_period_rest + k * P - D
  <2> DEFINE pos == (d.frac_pos + D) % B
  <2>1. k \in Nat /\ rest \in Nat /\ 1 <= rest /\ rest <= P
    <3>1. CASE d.frac_period_rest <= D
      BY <1>1, <1>3, <3>1, RestBound DEF PeriodsEnded
    <3>2. CASE ~(d.frac_period_rest <= D)
      BY <1>1, <1>3, <3>2 DEF PeriodsEnded
    <3> QED
      BY <3>1, <3>2
  <2>2. dummy_systimer_update(d) =
          [d EXCEPT !.base_time = jiffies, !.frac_pos = pos, !.elapsed = @ + k,
                    !.frac_period_rest = rest]
    BY <1>6 DEF dummy_systimer_update
  <2> HIDE DEF k, D, B, P
  <2>3. rest = P - (pl % P) + k * P - D
    BY <1>2
  <2> HIDE DEF rest
  <2>4. (pl + D) % P = P - rest /\ (pl + D) \div P = pl \div P + k
    <3> DEFINE x == pl \div P
    <3> DEFINE y == pl % P
    <3>1. x \in Int /\ y \in Int /\ pl = P * x + y
      BY <1>1
    <3>2. rest = P - y + k * P - D
      BY <2>3
    <3> HIDE DEF x, y
    <3>3. P * (x + k) = P * x + k * P /\ k * P \in Int /\ P * x \in Int
      BY <1>1, <2>1, <3>1
    <3> DEFINE u == P * x
    <3> DEFINE v == k * P
    <3>4. u \in Int /\ v \in Int /\ P * (x + k) = u + v /\ pl = u + y /\ rest = P - y + v - D
      BY <3>1, <3>2, <3>3
    <3> HIDE DEF u, v, pos, tot
    <3>5. pl + D = (u + v) + (P - rest)
      BY <1>1, <2>1, <3>1, <3>4
    <3>6. pl + D = P * (x + k) + (P - rest)
      BY <3>4, <3>5
    <3>7. pl + D \in Nat /\ x + k \in Int /\ P - rest \in Int /\ 0 <= P - rest /\ P - rest < P
      BY <1>1, <2>1, <3>1
    <3>8. (pl + D) \div P = x + k /\ (pl + D) % P = P - rest
      BY <1>1, <3>6, <3>7, DivModUnique
    <3> QED
      BY <3>8 DEF x
  <2>5. rest = P - (tot % P)
    <3> DEFINE t == (pl + D) % P
    <3>1. t = P - rest /\ tot % P = t
      BY <2>4, <1>4
    <3> HIDE DEF t, tot
    <3> QED BY <3>1, <1>1, <2>1
  <2>6. pos = tot % B
    BY <1>1, <1>2, <1>4, ModAdd
  <2>7. ow + (pl + D) \div P - pl \div P = ow + k
    <3> DEFINE x == pl \div P
    <3> DEFINE y == (pl + D) \div P
    <3>1. x \in Int /\ y = x + k
      BY <1>1, <2>4
    <3> HIDE DEF x, y
    <3>2. ow + y - x = ow + k
      BY <3>1, <2>1
    <3> QED
      BY <3>2 DEF x, y
  <2> DEFINE e == dummy_systimer_update(d)
  <2> HIDE DEF pos, tot
  <2>8. /\ e.frac_pos = pos /\ e.frac_period_rest = rest /\ e.elapsed = ow + k
        /\ e.frac_buffer_size = B /\ e.frac_period_size = P
    BY <1>2, <2>2 DEF DpcmType, B, P
  <2> HIDE DEF e
  <2>9. Acct(e, tot, ow + k)
    BY <2>5, <2>6, <2>8 DEF Acct
  <2> QED
    BY <2>7, <2>9 DEF e, tot, D, B, P
<1> QED
  BY <1>5, <1>6

\* The steps of one substream, as far as remainders, timer and history go:
\* it leaves the states in which they are looked at, or one of the operations
\* of dummy_systimer works on its struct.
Leaves(s) == pstate'[s] \notin Filled

Prepares(s) ==
  /\ runtime[s] \in Params /\ pstate'[s] = "prepared"
  /\ dpcm'[s] = dummy_systimer_prepare(dpcm[s], runtime[s])
  /\ played'[s] = 0 /\ owed'[s] = 0

Starts(s) ==
  /\ pstate[s] \in Filled /\ pstate'[s] = "running"
  /\ dpcm'[s] = dummy_systimer_start(dpcm[s])
  /\ played'[s] = played[s] /\ owed'[s] = owed[s]

Suspends(s) ==
  /\ pstate[s] = "running" /\ pstate'[s] = "suspended"
  /\ dpcm'[s] = dummy_systimer_stop(dpcm[s])
  /\ played'[s] = played[s] /\ owed'[s] = owed[s]

Updates(s) ==
  /\ pstate[s] = "running" /\ pstate'[s] = "running"
  /\ dpcm'[s] = dummy_systimer_update(dpcm[s])
  /\ played'[s] = PlayedAfter(s) /\ owed'[s] = OwedAfter(s)

Reports(s) ==
  LET d == dummy_systimer_update([dpcm[s] EXCEPT !.pending = FALSE]) IN
  /\ pstate[s] = "running" /\ pstate'[s] = "running"
  /\ dpcm'[s] = dummy_systimer_rearm([d EXCEPT !.elapsed = 0])
  /\ played'[s] = PlayedAfter(s)
  /\ owed'[s] = IF d.elapsed > 0 THEN 0 ELSE OwedAfter(s)

OthersKeep(s) ==
  \A t \in Substreams : t # s =>
    pstate'[t] = pstate[t] /\ dpcm'[t] = dpcm[t] /\ played'[t] = played[t] /\ owed'[t] = owed[t]

LEMMA StepOfOne ==
  ASSUME IInv, Next, ~Tick
  PROVE  \E s \in Substreams :
           /\ jiffies' = jiffies /\ OthersKeep(s)
           /\ \/ Leaves(s) \/ Prepares(s) \/ Starts(s)
              \/ Suspends(s) \/ Updates(s) \/ Reports(s)
<1>a. /\ pstate \in [Substreams -> PStates]
      /\ dpcm \in [Substreams -> DpcmType]
      /\ played \in [Substreams -> Nat]
      /\ owed \in [Substreams -> Nat]
  BY DEF IInv, TypeOK
<1>1. PICK s \in Substreams :
        \/ Open(s) \/ HwParams(s) \/ HwFree(s) \/ Prepare(s) \/ TriggerStart(s)
        \/ TriggerStop(s) \/ Pointer(s) \/ Close(s) \/ Callback(s)
  BY DEF Next
<1>b. pstate[s] = "running" => runtime[s] \in Params /\ dpcm[s].pending
  BY DEF IInv, StructInv, TimerIffRunning
<1>c. pstate[s] \notin {"closed", "open"} => runtime[s] \in Params
  BY DEF IInv, StructInv
<1>2. CASE Open(s)
  BY <1>a, <1>2 DEF Open, history, OthersKeep, Leaves, Filled
<1>3. CASE HwParams(s)
  BY <1>a, <1>3 DEF HwParams, history, OthersKeep, Leaves, Filled
<1>4. CASE HwFree(s)
  BY <1>a, <1>4 DEF HwFree, history, OthersKeep, Leaves, Filled
<1>5. CASE Close(s)
  BY <1>a, <1>5 DEF Close, history, OthersKeep, Leaves, Filled
<1>6. CASE Prepare(s)
  <2>1. Prepares(s)
    BY <1>a, <1>c, <1>6 DEF Prepare, Prepares
  <2>2. jiffies' = jiffies /\ OthersKeep(s)
    BY <1>a, <1>6 DEF Prepare, OthersKeep
  <2> QED
    BY <2>1, <2>2
<1>7. CASE TriggerStart(s)
  <2>1. Starts(s)
    BY <1>a, <1>7 DEF TriggerStart, Starts, Filled, history
  <2>2. jiffies' = jiffies /\ OthersKeep(s)
    BY <1>a, <1>7 DEF TriggerStart, OthersKeep, history
  <2> QED
    BY <2>1, <2>2
<1>8. CASE TriggerStop(s)
  <2>1. Suspends(s) \/ Leaves(s)
    BY <1>a, <1>8 DEF TriggerStop, Suspends, Leaves, Filled, history
  <2>2. jiffies' = jiffies /\ OthersKeep(s)
    BY <1>a, <1>8 DEF TriggerStop, OthersKeep, history
  <2> QED
    BY <2>1, <2>2
<1>9. CASE Pointer(s)
  <2>1. Updates(s) \/ Leaves(s)
    BY <1>a, <1>9 DEF Pointer, CoreChecks, Updates, Leaves, Filled
  <2>2. jiffies' = jiffies /\ OthersKeep(s)
    BY <1>a, <1>9 DEF Pointer, CoreChecks, OthersKeep
  <2> QED
    BY <2>1, <2>2
<1>10. CASE Callback(s)
  <2> DEFINE d == dummy_systimer_update([dpcm[s] EXCEPT !.pending = FALSE])
  <2> DEFINE e == dummy_systimer_rearm([d EXCEPT !.elapsed = 0])
  <2> DEFINE w == IF d.elapsed > 0 THEN 0 ELSE OwedAfter(s)
  <2>1. pstate[s] = "running"
    BY <1>10 DEF Callback, Due, IInv, TimerIffRunning
  <2>2. CoreChecks(s, e)
    BY <1>10 DEF Callback, CoreChecks
  <2>3. /\ owed' = [owed EXCEPT ![s] = w]
        /\ played' = [played EXCEPT ![s] = PlayedAfter(s)] /\ jiffies' = jiffies
    BY <1>10 DEF Callback
  <2> HIDE DEF d, e, w
  <2>4. \/ Leaves(s)
        \/ /\ pstate'[s] = "running" /\ dpcm'[s] = e
           /\ played'[s] = PlayedAfter(s) /\ owed'[s] = w
    BY <1>a, <2>1, <2>2, <2>3 DEF CoreChecks, Leaves, Filled
  <2>5. Reports(s) \/ Leaves(s)
    BY <2>1, <2>4 DEF Reports, d, e, w
  <2>6. OthersKeep(s)
    BY <1>a, <2>2, <2>3 DEF CoreChecks, OthersKeep
  <2> QED
    BY <2>3, <2>5, <2>6
<1> QED
  BY <1>1, <1>2, <1>3, <1>4, <1>5, <1>6, <1>7, <1>8, <1>9, <1>10

LEMMA AccountingStep == IInv /\ Accounting /\ [Next]_vars => Accounting'
<1> SUFFICES ASSUME IInv, Accounting, [Next]_vars PROVE Accounting'
  OBVIOUS
<1>a. ASSUME NEW t \in Substreams, pstate[t] \in Filled
      PROVE  Acct(dpcm[t], played[t], owed[t])
  BY <1>a DEF Accounting, Acct, Filled
<1>b. /\ jiffies \in 0 .. JMOD - 1 /\ HZ \in Nat \ {0}
      /\ \A t \in Substreams : /\ dpcm[t] \in DpcmType /\ played[t] \in Nat /\ owed[t] \in Nat
                               /\ pstate[t] \in Filled => /\ runtime[t] \in Params
                                                          /\ Sized(dpcm[t], runtime[t])
  BY PcmAssumption DEF IInv, TypeOK, StructInv, Filled
<1>1. CASE UNCHANGED vars
  BY <1>1 DEF vars, Accounting
<1>2. CASE Tick
  BY <1>2 DEF Tick, history, Accounting
<1>3. CASE Next /\ ~Tick
  <2>1. PICK s \in Substreams :
           /\ jiffies' = jiffies /\ OthersKeep(s)
           /\ \/ Leaves(s) \/ Prepares(s) \/ Starts(s)
              \/ Suspends(s) \/ Updates(s) \/ Reports(s)
    BY <1>3, StepOfOne
  <2>2. SUFFICES ASSUME pstate'[s] \in Filled
                 PROVE  Acct(dpcm'[s], played'[s], owed'[s])
    <3> SUFFICES ASSUME NEW t \in Substreams, pstate'[t] \in Filled
                 PROVE  Acct(dpcm'[t], played'[t], owed'[t])
      BY DEF Accounting, Acct, Filled
    <3>1. CASE t = s
      BY <2>2, <3>1
    <3>2. CASE t # s
      BY <3>2, <2>1, <1>a DEF OthersKeep
    <3> QED
      BY <3>1, <3>2
  <2>3. CASE Prepares(s)
    <3> DEFINE d == dummy_systimer_prepare(dpcm[s], runtime[s])
    <3>1. runtime[s] \in Params /\ d \in DpcmType /\ Sized(d, runtime[s])
      BY <1>b, <2>3, PrepareOK DEF Prepares
    <3>2. d.frac_buffer_size \in Nat \ {0} /\ d.frac_period_size \in Nat \ {0}
      BY <3>1, SizedPositive
    <3>3. d.frac_pos = 0 /\ d.elapsed = 0 /\ d.frac_period_rest = d.frac_period_size
      BY <1>b DEF dummy_systimer_prepare, DpcmType
    <3> HIDE DEF d
    <3>4. 0 % d.frac_buffer_size = 0 /\ 0 % d.frac_period_size = 0
      BY <3>2
    <3>5. Acct(d, 0, 0)
      BY <3>2, <3>3, <3>4 DEF Acct
    <3> QED
      BY <3>5, <2>3 DEF Prepares, d
  <2>4. CASE Starts(s)
    <3>1. Acct(dpcm[s], played[s], owed[s])
      BY <2>4, <1>a DEF Starts
    <3>2. Acct(dummy_systimer_start(dpcm[s]), played[s], owed[s])
      BY <3>1, <1>b DEF Acct, dummy_systimer_start, dummy_systimer_rearm, DpcmType
    <3> QED
      BY <2>4, <3>2 DEF Starts
  <2>5. CASE Suspends(s)
    <3>1. Acct(dpcm[s], played[s], owed[s])
      BY <2>5, <1>a DEF Suspends, Filled
    <3>2. Acct(dummy_systimer_stop(dpcm[s]), played[s], owed[s])
      BY <3>1, <1>b DEF Acct, dummy_systimer_stop, DpcmType
    <3> QED
      BY <2>5, <3>2 DEF Suspends
  <2>6. ASSUME pstate[s] = "running", NEW c \in DpcmType, Sized(c, runtime[s]),
               Delta(c) = Delta(dpcm[s]), c.frac_pos = dpcm[s].frac_pos,
               c.frac_period_rest = dpcm[s].frac_period_rest, c.elapsed = dpcm[s].elapsed
        PROVE  Acct(dummy_systimer_update(c), PlayedAfter(s), OwedAfter(s))
    <3>1. Acct(dpcm[s], played[s], owed[s]) /\ runtime[s] \in Params
          /\ Sized(dpcm[s], runtime[s])
      BY <2>6, <1>a, <1>b DEF Filled
    <3>2. c.frac_buffer_size = dpcm[s].frac_buffer_size
          /\ c.frac_period_size = dpcm[s].frac_period_size
      BY <2>6, <3>1 DEF Sized
    <3>3. Acct(c, played[s], owed[s])
      BY <2>6, <3>1, <3>2 DEF Acct
    <3>4. Acct(dummy_systimer_update(c),
               (played[s] + Delta(c)) % (c.frac_buffer_size * c.frac_period_size),
               owed[s] + (played[s] + Delta(c)) \div c.frac_period_size
                       - played[s] \div c.frac_period_size)
      BY <1>b, <2>6, <3>1, <3>3, UpdateAcct
    <3> QED
      BY <2>6, <3>2, <3>4 DEF PlayedAfter, OwedAfter
  <2>7. CASE Updates(s)
    BY <2>7, <2>6, <1>b DEF Updates, Filled
  <2>8. CASE Reports(s)
    <3> DEFINE c == [dpcm[s] EXCEPT !.pending = FALSE]
    <3> DEFINE d == dummy_systimer_update(c)
    <3> DEFINE e == dummy_systimer_rearm([d EXCEPT !.elapsed = 0])
    <3>1. pstate[s] = "running" /\ runtime[s] \in Params /\ Sized(dpcm[s], runtime[s])
      BY <1>b, <2>8 DEF Reports, Filled
    <3>2. c \in DpcmType /\ Sized(c, runtime[s]) /\ Delta(c) = Delta(dpcm[s])
          /\ c.frac_pos = dpcm[s].frac_pos
          /\ c.frac_period_rest = dpcm[s].frac_period_rest /\ c.elapsed = dpcm[s].elapsed
      BY <1>b, <3>1 DEF DpcmType, Sized, Delta
    <3>3. /\ dpcm'[s] = e /\ played'[s] = PlayedAfter(s)
          /\ owed'[s] = IF d.elapsed > 0 THEN 0 ELSE OwedAfter(s)
      BY <2>8 DEF Reports
    <3> HIDE DEF c
    <3>4. d \in DpcmType
      BY <1>b, <3>1, <3>2, UpdateOK
    <3>5. Acct(d, PlayedAfter(s), OwedAfter(s))
      BY <2>6, <3>1, <3>2
    <3> HIDE DEF d
    <3>6. owed'[s] = 0
      BY <3>3, <3>4, <3>5 DEF Acct, DpcmType
    <3>7. /\ e.frac_pos = d.frac_pos /\ e.frac_period_rest = d.frac_period_rest
          /\ e.frac_buffer_size = d.frac_buffer_size /\ e.frac_period_size = d.frac_period_size
          /\ e.elapsed = 0
      BY <3>4 DEF dummy_systimer_rearm, DpcmType
    <3> HIDE DEF e
    <3> QED
      BY <3>3, <3>5, <3>6, <3>7 DEF Acct
  <2> QED
    BY <2>1, <2>2, <2>3, <2>4, <2>5, <2>7, <2>8 DEF Leaves
<1> QED
  BY <1>1, <1>2, <1>3
----------------------------------------------------------------------------
(* The timer and the clock *)

\* Ticks until the period of d ends, counted from base_time.
TicksLeft(d) == (d.frac_period_rest + d.rate - 1) \div d.rate

\* The timer of d expires when the period ends and is not missed by more than
\* MaxLate ticks, or it is due for a period that has ended.
OnTime(d) ==
  \/ /\ (d.expires - d.base_time) % JMOD = TicksLeft(d)
     /\ (jiffies - d.base_time) % JMOD <= TicksLeft(d) + MaxLate
  \/ d.elapsed > 0 /\ Overdue(d) <= MaxLate

ClockInv == \A s \in Substreams : pstate[s] = "running" => OnTime(dpcm[s])

\* The unsigned difference of two times.
LEMMA WrapDiff ==
  ASSUME NEW m \in Nat \ {0}, NEW x \in 0 .. m - 1, NEW y \in 0 .. m - 1
  PROVE  (x - y) % m = IF x >= y THEN x - y ELSE x - y + m
<1>1. CASE x >= y
  <2>1. x - y \in Nat /\ x - y = m * 0 + (x - y) /\ x - y < m
    BY <1>1
  <2> QED
    BY <1>1, <2>1
<1>2. CASE ~(x >= y)
  <2>1. x - y = m * (-1) + (x - y + m) /\ 0 <= x - y + m /\ x - y + m < m
    BY <1>2
  <2> QED
    BY <1>2, <2>1
<1> QED
  BY <1>1, <1>2

\* t ticks after time x.
LEMMA WrapAdd ==
  ASSUME NEW m \in Nat \ {0}, NEW x \in 0 .. m - 1, NEW t \in 0 .. m - 1
  PROVE  (x + t) % m \in 0 .. m - 1 /\ (((x + t) % m) - x) % m = t
<1>1. CASE x + t < m
  <2>1. (x + t) % m = x + t
    BY <1>1
  <2>2. x + t \in 0 .. m - 1
    BY <1>1
  <2>3. (x + t) - x = t /\ x + t >= x
    OBVIOUS
  <2> QED
    BY <2>1, <2>2, <2>3, WrapDiff
<1>2. CASE ~(x + t < m)
  <2>1. (x + t) % m = x + t - m
    BY <1>2
  <2>2. x + t - m \in 0 .. m - 1
    BY <1>2
  <2>3. (x + t - m) - x + m = t /\ ~(x + t - m >= x)
    OBVIOUS
  <2> QED
    BY <2>1, <2>2, <2>3, WrapDiff
<1> QED
  BY <1>1, <1>2

\* Ticks from time y to time x.
Since(x, y) == (x - y) % JMOD

\* Times j and e, seen from an earlier time b.
LEMMA WrapFrom ==
  ASSUME NEW j \in 0 .. JMOD - 1, NEW e \in 0 .. JMOD - 1, NEW b \in 0 .. JMOD - 1
  PROVE  /\ Since(j, e) = IF Since(j, b) >= Since(e, b)
                          THEN Since(j, b) - Since(e, b)
                          ELSE Since(j, b) - Since(e, b) + JMOD
         /\ Since(j, b) \in 0 .. JMOD - 1
<1>1. JMOD \in Nat \ {0}
  BY PcmAssumption
<1>2. Since(j, e) = IF j >= e THEN j - e ELSE j - e + JMOD
  BY <1>1, WrapDiff DEF Since
<1>3. Since(j, b) = IF j >= b THEN j - b ELSE j - b + JMOD
  BY <1>1, WrapDiff DEF Since
<1>4. Since(e, b) = IF e >= b THEN e - b ELSE e - b + JMOD
  BY <1>1, WrapDiff DEF Since
<1> QED
  BY <1>1, <1>2, <1>3, <1>4

CeilDiv(r, v) == (r + v - 1) \div v

\* A rest of r at v per tick ends in the tick it is rounded up to: within a
\* ticks, in which w goes by, or as many ticks later as are left of it then.
RoundsUp(r, v, a, w) ==
  /\ CeilDiv(r, v) \in Nat
  /\ r <= w <=> CeilDiv(r, v) <= a
  /\ r > w => CeilDiv(r - w, v) = CeilDiv(r, v) - a

LEMMA RoundUp ==
  ASSUME NEW r \in Nat, NEW v \in Nat \ {0}, NEW a \in Nat, NEW w \in Nat, w = a * v
  PROVE  RoundsUp(r, v, a, w)
<1> DEFINE t == (r + v - 1) \div v
<1> DEFINE y == (r + v - 1) % v
<1>1. t \in Nat /\ y \in Nat /\ r + v - 1 = v * t + y /\ y < v
  OBVIOUS
<1> HIDE DEF t, y
<1>2. ASSUME t <= a PROVE r <= a * v
  <2>1. v * t <= v * a
    BY <1>1, <1>2
  <2>2. v * t \in Int /\ v * a \in Int /\ v * a = a * v
    BY <1>1
  <2> QED
    BY <1>1, <2>1, <2>2
<1>3. ASSUME t > a PROVE r > a * v
  <2>1. v * t >= v * (a + 1)
    BY <1>1, <1>3
  <2>2. v * t \in Int /\ v * a \in Int /\ v * a = a * v /\ v * (a + 1) = v * a + v
    BY <1>1
  <2> QED
    BY <1>1, <2>1, <2>2
<1>4. ASSUME r > w PROVE (r - w + v - 1) \div v = t - a
  <2> DEFINE u == v * t
  <2> DEFINE n == r - w + v - 1
  <2>1. u \in Int /\ v * (t - a) = u - w /\ r + v - 1 = u + y
    BY <1>1
  <2> HIDE DEF u
  <2>2. n \in Nat /\ n = (u - w) + y
    BY <1>1, <1>4, <2>1
  <2>3. n = v * (t - a) + y /\ t - a \in Int /\ y \in Int /\ 0 <= y
    BY <1>1, <2>1, <2>2
  <2> HIDE DEF n
  <2>4. n \div v = t - a
    BY <1>1, <2>2, <2>3, DivModUnique
  <2> QED
    BY <2>4 DEF n
<1>5. CeilDiv(r, v) = t /\ CeilDiv(r - w, v) = (r - w + v - 1) \div v
  BY DEF CeilDiv, t
<1>6. r <= w <=> t <= a
  BY <1>1, <1>2, <1>3
<1> QED
  BY <1>1, <1>4, <1>5, <1>6 DEF RoundsUp

\* A period and the lateness are shorter than half a turn of jiffies.
LEMMA TicksFit ==
  ASSUME NEW d \in DpcmType, NEW r \in Params, Sized(d, r)
  PROVE  TicksLeft(d) \in Nat /\ TicksLeft(d) + MaxLate < JMOD \div 2
<1>1. d.rate \in Nat \ {0} /\ d.frac_period_rest \in Nat /\ JMOD \in Nat \ {0} /\ MaxLate \in Nat
  BY SizedPositive, PcmAssumption DEF DpcmType
<1>2. d.rate = r.rate /\ d.frac_period_rest <= r.period_size * HZ
      /\ r.period_size * HZ = d.frac_period_size /\ d.frac_period_size \in Nat
  BY DEF Sized, DpcmType
<1> DEFINE p == r.period_size * HZ
<1> DEFINE x == d.frac_period_rest + d.rate - 1
<1> DEFINE y == p + d.rate - 1
<1>3. (p + r.rate - 1) \div r.rate + MaxLate < JMOD \div 2
  BY PeriodAssumption
<1>4. p \in Nat /\ d.frac_period_rest <= p
  BY <1>2
<1> HIDE DEF p
<1>5. x \in Nat /\ y \in Nat /\ x <= y
  BY <1>1, <1>4
<1>6. y \div d.rate + MaxLate < JMOD \div 2
  BY <1>2, <1>3
<1> HIDE DEF x, y
<1> DEFINE u == x \div d.rate
<1> DEFINE v == y \div d.rate
<1> DEFINE h == JMOD \div 2
<1>7. u \in Nat /\ v \in Nat /\ u <= v /\ h \in Int
  BY <1>1, <1>5, DivMono
<1>8. v + MaxLate < h
  BY <1>6
<1>9. u + MaxLate < h
  <2> HIDE DEF u, v, h
  <2> QED BY <1>1, <1>7, <1>8
<1> QED
  BY <1>7, <1>9 DEF TicksLeft, u, h, x

LEMMA ArmedOnTime ==
  jiffies \in 0 .. JMOD - 1 =>
    \A d \in DpcmType : \A r \in Params :
      Sized(d, r) /\ d.base_time = jiffies => OnTime(dummy_systimer_rearm(d))
<1> SUFFICES ASSUME jiffies \in 0 .. JMOD - 1, NEW d \in DpcmType, NEW r \in Params,
                    Sized(d, r), d.base_time = jiffies
             PROVE  OnTime(dummy_systimer_rearm(d))
  OBVIOUS
<1> DEFINE t == TicksLeft(d)
<1> DEFINE x == (jiffies + t) % JMOD
<1> DEFINE e == dummy_systimer_rearm(d)
<1>1. t \in Nat /\ t + MaxLate < JMOD \div 2 /\ JMOD \in Nat \ {0} /\ MaxLate \in Nat
  BY TicksFit, PcmAssumption
<1>2. e = [d EXCEPT !.pending = TRUE, !.expires = x]
  BY DEF dummy_systimer_rearm, TicksLeft
<1> HIDE DEF e, x, t
<1>3. t \in 0 .. JMOD - 1
  BY <1>1
<1>4. (x - jiffies) % JMOD = t
  BY <1>1, <1>3, WrapAdd DEF x
<1>5. e.expires = x /\ e.base_time = jiffies
      /\ e.frac_period_rest = d.frac_period_rest /\ e.rate = d.rate
  BY <1>2 DEF DpcmType
<1>6. TicksLeft(e) = t
  BY <1>5 DEF TicksLeft, t
<1>7. (jiffies - jiffies) % JMOD = 0
  BY <1>1, WrapDiff
<1> QED
  BY <1>1, <1>4, <1>5, <1>6, <1>7 DEF OnTime, e

\* The clock and the loop of dummy_systimer_update agree on when a period ends.
LEMMA EndsWithClock ==
  jiffies \in 0 .. JMOD - 1 =>
    \A d \in DpcmType : \A r \in Params : Sized(d, r) =>
      LET a == Since(jiffies, d.base_time) IN
      /\ a \in 0 .. JMOD - 1
      /\ TicksLeft(d) <= a => PeriodsEnded(d) \in Nat /\ PeriodsEnded(d) > 0
      /\ TicksLeft(d) > a =>
           /\ PeriodsEnded(d) = 0
           /\ CeilDiv(d.frac_period_rest - Delta(d), d.rate) = TicksLeft(d) - a
<1> SUFFICES ASSUME jiffies \in 0 .. JMOD - 1, NEW d \in DpcmType, NEW r \in Params, Sized(d, r)
             PROVE  LET a == Since(jiffies, d.base_time) IN
                    /\ a \in 0 .. JMOD - 1
                    /\ TicksLeft(d) <= a => PeriodsEnded(d) \in Nat /\ PeriodsEnded(d) > 0
                    /\ TicksLeft(d) > a =>
                         /\ PeriodsEnded(d) = 0
                         /\ CeilDiv(d.frac_period_rest - Delta(d), d.rate) = TicksLeft(d) - a
  OBVIOUS
<1> DEFINE a == Since(jiffies, d.base_time)
<1>1. /\ d.frac_period_rest \in Nat /\ d.base_time \in 0 .. JMOD - 1
      /\ JMOD \in Nat \ {0}
      /\ d.rate \in Nat \ {0} /\ d.frac_period_size \in Nat \ {0}
  BY PcmAssumption, SizedPositive DEF DpcmType
<1>2. a \in 0 .. JMOD - 1
  BY <1>1, WrapFrom
<1>3. Delta(d) = a * d.rate
  BY DEF Delta, Since
<1> HIDE DEF a
<1>4. /\ TicksLeft(d) \in Nat /\ Delta(d) \in Nat
      /\ d.frac_period_rest <= Delta(d) <=> TicksLeft(d) <= a
      /\ d.frac_period_rest > Delta(d) =>
           CeilDiv(d.frac_period_rest - Delta(d), d.rate) = TicksLeft(d) - a
  <2>1. TicksLeft(d) = CeilDiv(d.frac_period_rest, d.rate)
    BY DEF TicksLeft, CeilDiv
  <2>2. a \in Nat /\ Delta(d) \in Nat
    BY <1>1, <1>2, DeltaNat
  <2>3. RoundsUp(d.frac_period_rest, d.rate, a, Delta(d))
    BY <1>1, <1>3, <2>2, RoundUp
  <2> QED
    BY <2>1, <2>2, <2>3 DEF RoundsUp
<1>5. CASE TicksLeft(d) <= a
  <2>1. (Delta(d) - d.frac_period_rest) \div d.frac_period_size \in Nat
    BY <1>1, <1>4, <1>5
  <2>2. PeriodsEnded(d) \in Nat /\ PeriodsEnded(d) > 0
    BY <1>4, <1>5, <2>1 DEF PeriodsEnded
  <2> QED
    BY <1>2, <1>4, <1>5, <2>2 DEF a
<1>6. CASE TicksLeft(d) > a
  <2>1. d.frac_period_rest > Delta(d)
    BY <1>1, <1>2, <1>4, <1>6
  <2>2. PeriodsEnded(d) = 0
    BY <1>1, <1>4, <2>1 DEF PeriodsEnded
  <2> QED
    BY <1>2, <1>4, <1>6, <2>1, <2>2 DEF a
<1> QED
  BY <1>2, <1>4, <1>5, <1>6

LEMMA UpdateOnTime ==
  jiffies \in 0 .. JMOD - 1 =>
    \A d \in DpcmType : \A r \in Params :
      Sized(d, r) /\ OnTime(d) => OnTime(dummy_systimer_update(d))
<1> SUFFICES ASSUME jiffies \in 0 .. JMOD - 1, NEW d \in DpcmType, NEW r \in Params,
                    Sized(d, r), OnTime(d), jiffies # d.base_time
             PROVE  OnTime(dummy_systimer_update(d))
  BY DEF dummy_systimer_update
<1> DEFINE e == dummy_systimer_update(d)
<1> DEFINE k == PeriodsEnded(d)
<1> DEFINE a == Since(jiffies, d.base_time)
<1> DEFINE o == Since(jiffies, d.expires)
<1> DEFINE t == TicksLeft(d)
<1>1. /\ e.base_time = jiffies /\ e.expires = d.expires /\ e.rate = d.rate
      /\ e.elapsed = d.elapsed + k
      /\ e.frac_period_rest = d.frac_period_rest + k * d.frac_period_size - Delta(d)
  BY DEF dummy_systimer_update, DpcmType
<1>2. /\ d.frac_period_rest \in Nat /\ d.base_time \in 0 .. JMOD - 1 /\ d.elapsed \in Nat
      /\ d.expires \in 0 .. JMOD - 1 /\ JMOD \in Nat \ {0} /\ MaxLate \in Nat
      /\ d.frac_period_size \in Nat /\ Delta(d) \in Nat
  BY PcmAssumption, DeltaNat DEF DpcmType
<1>3. t \in Nat /\ t + MaxLate < JMOD \div 2
  BY TicksFit
<1>4. /\ a \in 0 .. JMOD - 1
      /\ t <= a => k \in Nat /\ k > 0
      /\ t > a => k = 0 /\ CeilDiv(d.frac_period_rest - Delta(d), d.rate) = t - a
  BY EndsWithClock
<1>5. o = Overdue(e) /\ o = Overdue(d)
  BY <1>1 DEF Overdue, Since
<1> HIDE DEF e, k, t
<1>6. CASE d.elapsed > 0 /\ Overdue(d) <= MaxLate
  <2>1. k \in Nat
    BY <1>3, <1>4
  <2>2. e.elapsed > 0
    BY <1>1, <1>2, <1>6, <2>1
  <2> QED
    BY <1>5, <1>6, <2>2 DEF OnTime, e
<1>7. CASE Since(d.expires, d.base_time) = t /\ a <= t + MaxLate
  <2>1. /\ o = IF a >= t THEN a - t ELSE a - t + JMOD
        /\ Since(d.expires, jiffies) = IF t >= a THEN t - a ELSE t - a + JMOD
    BY <1>2, <1>7, WrapFrom
  <2> HIDE DEF a, o
  <2>2. CASE t <= a
    <3>1. e.elapsed > 0
      BY <1>1, <1>2, <1>4, <2>2
    <3>2. o <= MaxLate
      BY <1>2, <1>3, <1>4, <1>7, <2>1, <2>2
    <3> QED
      BY <1>5, <3>1, <3>2 DEF OnTime, e
  <2>3. CASE t > a
    <3>1. e.frac_period_rest = d.frac_period_rest - Delta(d)
      BY <1>1, <1>2, <1>4, <2>3
    <3>2. TicksLeft(e) = t - a
      BY <1>1, <1>4, <2>3, <3>1 DEF TicksLeft, CeilDiv
    <3>3. Since(e.expires, e.base_time) = t - a
      BY <1>1, <1>3, <1>4, <2>1, <2>3
    <3>4. Since(jiffies, e.base_time) = 0
      <4>1. Since(jiffies, jiffies) = 0
        BY <1>2, WrapFrom
      <4> QED BY <1>1, <4>1
    <3>5. 0 <= t - a + MaxLate
      BY <1>2, <1>3, <1>4, <2>3
    <3> QED
      BY <3>2, <3>3, <3>4, <3>5 DEF OnTime, Since, e
  <2> QED
    BY <1>3, <1>4, <2>2, <2>3
<1> QED
  BY <1>6, <1>7 DEF OnTime, Since, t

LEMMA TickOnTime ==
  ASSUME jiffies \in 0 .. JMOD - 1, jiffies' = (jiffies + 1) % JMOD,
         NEW d \in DpcmType, NEW r \in Params, Sized(d, r), OnTime(d), d.pending,
         Due(d) => Overdue(d) < MaxLate
  PROVE  \/ /\ (d.expires - d.base_time) % JMOD = TicksLeft(d)
            /\ (jiffies' - d.base_time) % JMOD <= TicksLeft(d) + MaxLate
         \/ d.elapsed > 0 /\ (jiffies' - d.expires) % JMOD <= MaxLate
<1>1. /\ d.base_time \in 0 .. JMOD - 1 /\ d.expires \in 0 .. JMOD - 1
      /\ JMOD \in Nat \ {0} /\ MaxLate \in Nat
  BY PcmAssumption DEF DpcmType
<1> DEFINE t == TicksLeft(d)
<1> DEFINE a == Since(jiffies, d.base_time)
<1> DEFINE o == Since(jiffies, d.expires)
<1> DEFINE h == JMOD \div 2
<1>2. t \in Nat /\ t + MaxLate < h /\ h \in Int /\ h <= JMOD /\ (h < JMOD)
  <2>1. h \in Int /\ h < JMOD /\ h <= JMOD
    BY <1>1
  <2> QED
    BY TicksFit, <2>1
<1> DEFINE j1 == (jiffies + 1) % JMOD
<1>3. j1 = IF jiffies + 1 = JMOD THEN 0 ELSE jiffies + 1
  BY <1>1
<1>4. ASSUME NEW y \in 0 .. JMOD - 1
      PROVE  Since(j1, y) = IF Since(jiffies, y) + 1 = JMOD
                               THEN 0 ELSE Since(jiffies, y) + 1
  <2>1. j1 \in 0 .. JMOD - 1
    BY <1>1, <1>3
  <2>2. Since(j1, y) = IF j1 >= y THEN j1 - y ELSE j1 - y + JMOD
    BY <1>1, <2>1, WrapDiff DEF Since
  <2>3. Since(jiffies, y) = IF jiffies >= y THEN jiffies - y ELSE jiffies - y + JMOD
    BY <1>1, WrapDiff DEF Since
  <2> DEFINE u == Since(j1, y)
  <2> DEFINE v == Since(jiffies, y)
  <2>4. u = (IF j1 >= y THEN j1 - y ELSE j1 - y + JMOD)
        /\ v = (IF jiffies >= y THEN jiffies - y ELSE jiffies - y + JMOD)
    BY <2>2, <2>3
  <2> HIDE DEF u, v, j1
  <2>5. u = IF v + 1 = JMOD THEN 0 ELSE v + 1
    BY <1>1, <1>3, <2>4
  <2> QED
    BY <2>5 DEF u, v
<1> DEFINE a1 == Since(j1, d.base_time)
<1> DEFINE o1 == Since(j1, d.expires)
<1>5. /\ a1 = IF a + 1 = JMOD THEN 0 ELSE a + 1
      /\ o1 = IF o + 1 = JMOD THEN 0 ELSE o + 1
  BY <1>1, <1>4
<1>6. Due(d) <=> o < h
  BY DEF Due, Overdue, Since
<1>7. Overdue(d) = o
  BY DEF Overdue, Since
<1>8. a \in 0 .. JMOD - 1 /\ o \in 0 .. JMOD - 1
  BY <1>1, WrapFrom
<1>9. CASE d.elapsed > 0 /\ o <= MaxLate
  <2> HIDE DEF a, o, h, t, a1, o1
  <2>1. o < h
    BY <1>1, <1>2, <1>8, <1>9
  <2>2. o < MaxLate
    BY <2>1, <1>6, <1>7
  <2>3. o1 <= MaxLate
    BY <1>1, <1>2, <1>5, <1>8, <2>2
  <2> QED
    BY <1>9, <2>3 DEF o1, j1, Since
<1>10. CASE Since(d.expires, d.base_time) = t /\ a <= t + MaxLate
  <2> HIDE DEF a, o, h, t, a1, o1, j1
  <2>1. o = IF a >= t THEN a - t ELSE a - t + JMOD
    BY <1>1, <1>10, WrapFrom DEF a, o
  <2>2. a >= t => o < MaxLate
    BY <1>1, <1>2, <1>6, <1>7, <1>8, <1>10, <2>1
  <2>3. a1 <= t + MaxLate
    BY <1>1, <1>2, <1>5, <1>8, <1>10, <2>1, <2>2
  <2> QED
    BY <1>10, <2>3 DEF a1, j1, t, Since
<1> QED
  BY <1>7, <1>9, <1>10 DEF OnTime, Since

LEMMA ClockStep == IInv /\ ClockInv /\ [Next]_vars => ClockInv'
<1> SUFFICES ASSUME IInv, ClockInv, [Next]_vars PROVE ClockInv'
  OBVIOUS
<1>a. /\ jiffies \in 0 .. JMOD - 1
      /\ \A t \in Substreams : /\ dpcm[t] \in DpcmType
                               /\ dpcm[t].pending <=> pstate[t] = "running"
                               /\ pstate[t] \in Filled => /\ runtime[t] \in Params
                                                          /\ Sized(dpcm[t], runtime[t])
  BY DEF IInv, TypeOK, StructInv, TimerIffRunning, Filled
<1>b. "running" \in Filled
  BY DEF Filled
<1>1. CASE UNCHANGED vars
  BY <1>1 DEF vars, ClockInv, OnTime, Overdue
<1>2. CASE Tick
  <2>1. jiffies' = (jiffies + 1) % JMOD /\ pstate' = pstate /\ dpcm' = dpcm
        /\ \A s \in Substreams : Due(dpcm[s]) => Overdue(dpcm[s]) < MaxLate
    BY <1>2 DEF Tick
  <2> SUFFICES ASSUME NEW s \in Substreams, pstate[s] = "running"
               PROVE  OnTime(dpcm[s])'
    BY <2>1 DEF ClockInv
  <2> DEFINE d == dpcm[s]
  <2>2. d \in DpcmType /\ runtime[s] \in Params /\ Sized(d, runtime[s]) /\ OnTime(d) /\ d.pending
        /\ (Due(d) => Overdue(d) < MaxLate)
    BY <1>a, <1>b, <2>1 DEF ClockInv
  <2> HIDE DEF d
  <2>3. \/ /\ (d.expires - d.base_time) % JMOD = TicksLeft(d)
           /\ (jiffies' - d.base_time) % JMOD <= TicksLeft(d) + MaxLate
        \/ d.elapsed > 0 /\ (jiffies' - d.expires) % JMOD <= MaxLate
    BY <1>a, <2>1, <2>2, TickOnTime
  <2>4. d = dpcm[s] /\ d = dpcm'[s]
    BY <2>1 DEF d
  <2> QED
    BY <2>3, <2>4 DEF OnTime, TicksLeft, Overdue
<1>3. CASE Next /\ ~Tick
  <2>1. PICK s \in Substreams :
           /\ jiffies' = jiffies /\ OthersKeep(s)
           /\ \/ Leaves(s) \/ Prepares(s) \/ Starts(s)
              \/ Suspends(s) \/ Updates(s) \/ Reports(s)
    BY <1>3, StepOfOne
  <2>2. SUFFICES ASSUME pstate'[s] = "running"
                 PROVE  OnTime(dpcm'[s])
    <3>1. \A d : OnTime(d)' <=> OnTime(d)
      BY <2>1 DEF OnTime, Overdue, TicksLeft
    <3> SUFFICES ASSUME NEW t \in Substreams, pstate'[t] = "running"
                 PROVE  OnTime(dpcm'[t])
      BY <2>1 DEF ClockInv, OnTime, Overdue, TicksLeft
    <3>2. CASE t = s
      BY <2>2, <3>2
    <3>3. CASE t # s
      BY <3>3, <2>1 DEF OthersKeep, ClockInv
    <3> QED
      BY <3>2, <3>3
  <2>3. CASE Starts(s)
    <3> DEFINE c == [dpcm[s] EXCEPT !.base_time = jiffies]
    <3>1. runtime[s] \in Params /\ Sized(dpcm[s], runtime[s]) /\ dpcm[s] \in DpcmType
      BY <1>a, <2>3 DEF Starts
    <3>2. c \in DpcmType /\ c.base_time = jiffies
      BY <1>a, <3>1 DEF DpcmType
    <3>3. Sized(c, runtime[s])
      BY <3>1 DEF Sized, DpcmType
    <3>4. dpcm'[s] = dummy_systimer_rearm(c)
      BY <2>3 DEF Starts, dummy_systimer_start
    <3> HIDE DEF c
    <3> QED
      BY <1>a, <3>1, <3>2, <3>3, <3>4, ArmedOnTime
  <2>4. CASE Updates(s)
    BY <1>a, <1>b, <2>4, UpdateOnTime DEF Updates, ClockInv
  <2>5. CASE Reports(s)
    <3> DEFINE c == [dpcm[s] EXCEPT !.pending = FALSE]
    <3> DEFINE d == dummy_systimer_update(c)
    <3> DEFINE z == [d EXCEPT !.elapsed = 0]
    <3>1. runtime[s] \in Params /\ Sized(dpcm[s], runtime[s]) /\ dpcm[s] \in DpcmType
      BY <1>a, <1>b, <2>5 DEF Reports
    <3>2. c \in DpcmType /\ Sized(c, runtime[s])
      BY <3>1 DEF DpcmType, Sized
    <3>3. dpcm'[s] = dummy_systimer_rearm(z)
      BY <2>5 DEF Reports
    <3> HIDE DEF c
    <3>4. d \in DpcmType /\ Sized(d, runtime[s])
      BY <1>a, <3>1, <3>2, UpdateOK
    <3>5. d.base_time = jiffies
      BY <3>2 DEF dummy_systimer_update, DpcmType
    <3> HIDE DEF d
    <3>6. z \in DpcmType /\ z.base_time = jiffies
      BY <3>4, <3>5 DEF DpcmType
    <3>7. Sized(z, runtime[s])
      BY <3>4 DEF DpcmType, Sized
    <3> HIDE DEF z
    <3> QED
      BY <1>a, <3>1, <3>3, <3>6, <3>7, ArmedOnTime
  <2> QED
    BY <2>1, <2>2, <2>3, <2>4, <2>5 DEF Leaves, Prepares, Suspends, Filled
<1> QED
  BY <1>1, <1>2, <1>3

LEMMA ClockHolds == Spec => []ClockInv
<1>1. Init => ClockInv
  BY DEF Init, ClockInv
<1> QED
  BY <1>1, ClockStep, Inductive, PTL DEF Spec
----------------------------------------------------------------------------
(* The properties *)

\* The structs, the clock and the history of the driver keep their types; in
\* particular no unsigned remainder of dummy_systimer_update goes below 0.
THEOREM TypeCorrect == Spec => []TypeOK
BY Inductive, PTL DEF IInv

\* A pending timer belongs to a running substream with live memory.
THEOREM TimerIffRunningHolds == Spec => []TimerIffRunning
BY Inductive, PTL DEF IInv

\* All substreams share one register block: a start overwrites what another one
\* has written, and any stop disables the device, also under a substream that
\* goes on.  For any number of substreams, whatever order they start and stop
\* in: while the device is enabled it reads the buffer of a substream that runs,
\* never one that hw_params or hw_free may replace or close has given back.
THEOREM DevicePlaysRunningHolds == Spec => []DevicePlaysRunning
BY Inductive, PTL DEF IInv

\* dummy_pcm_pointer returns a frame of the client's buffer.
THEOREM PointerInBufferHolds == Spec => []PointerInBuffer
<1>1. IInv => PointerInBuffer
  <2> SUFFICES ASSUME IInv, NEW s \in Substreams, pstate[s] \in Filled
               PROVE  /\ dpcm[s].rate > 0 /\ dpcm[s].frac_buffer_size > 0
                      /\ dpcm[s].frac_period_size > 0
                      /\ dpcm[s].frac_pos \div HZ < runtime[s].buffer_size
    BY DEF PointerInBuffer, Filled
  <2>1. dpcm[s] \in DpcmType /\ runtime[s] \in Params /\ Sized(dpcm[s], runtime[s])
    BY DEF IInv, TypeOK, StructInv, Filled
  <2>2. dpcm[s].rate > 0 /\ dpcm[s].frac_buffer_size > 0 /\ dpcm[s].frac_period_size > 0
    BY <2>1, SizedPositive
  <2>3. dpcm[s].frac_pos \in Nat /\ runtime[s].buffer_size \in Nat /\ HZ \in Nat \ {0}
    BY <2>1, PcmAssumption DEF DpcmType
  <2>4. dpcm[s].frac_pos < runtime[s].buffer_size * HZ
    BY <2>1 DEF Sized
  <2> QED
    BY <2>2, <2>3, <2>4, DivLess
<1> QED
  BY <1>1, Inductive, PTL

\* The remainders of dummy_systimer_update agree with the total played: no
\* fraction and no period is lost or counted twice.
THEOREM AccountingHolds == Spec => []Accounting
<1>1. Init => Accounting
  BY DEF Init, Accounting
<1> QED
  BY <1>1, AccountingStep, Inductive, PTL DEF Spec

\* A running stream's timer expires in the very tick in which its period ends,
\* whatever the calls of dummy_pcm_pointer in between, across the wrap of
\* jiffies and however late the softirq was before.
THEOREM TimerOnPeriodEndHolds == Spec => []TimerOnPeriodEnd
<1>1. IInv /\ ClockInv => TimerOnPeriodEnd
  <2> SUFFICES ASSUME IInv, ClockInv, NEW s \in Substreams, pstate[s] = "running"
               PROVE  LET d == dpcm[s] IN
                      \/ (d.expires - d.base_time) % JMOD = (d.frac_period_rest + d.rate - 1) \div d.rate
                      \/ d.elapsed > 0 /\ Due(d)
    BY DEF TimerOnPeriodEnd
  <2> DEFINE d == dpcm[s]
  <2>1. d \in DpcmType /\ runtime[s] \in Params /\ Sized(d, runtime[s]) /\ d.pending /\ OnTime(d)
        /\ jiffies \in 0 .. JMOD - 1
    BY DEF IInv, TypeOK, StructInv, TimerIffRunning, Filled, ClockInv
  <2> HIDE DEF d
  <2>2. TicksLeft(d) \in Nat /\ TicksLeft(d) + MaxLate < JMOD \div 2
    BY <2>1, TicksFit
  <2>3. ASSUME Overdue(d) <= MaxLate PROVE Due(d)
    <3>1. Overdue(d) \in Nat /\ MaxLate \in Nat /\ JMOD \div 2 \in Int
      <4>1. Since(jiffies, d.expires) \in 0 .. JMOD - 1
        BY <2>1, WrapFrom DEF DpcmType
      <4>2. Overdue(d) = Since(jiffies, d.expires) /\ JMOD \in Nat /\ MaxLate \in Nat
        BY PcmAssumption DEF Overdue, Since
      <4> QED BY <4>1, <4>2
    <3> DEFINE h == JMOD \div 2
    <3> HIDE DEF h
    <3>2. Overdue(d) < h
      BY <2>2, <2>3, <3>1 DEF h
    <3> QED
      BY <2>1, <3>2 DEF Due, h
  <2> QED
    BY <2>1, <2>3 DEF OnTime, TicksLeft, d
<1> QED
  BY <1>1, ClockHolds, Inductive, PTL

\* No callback comes for nothing: when the timer is due the update in
\* dummy_systimer_callback finds a period to report.
CallbackReports ==
  \A s \in Substreams : Due(dpcm[s]) => dummy_systimer_update(dpcm[s]).elapsed > 0

\* dummy_systimer_callback never wakes up early, so every call of it reports a
\* period to the ALSA core.
THEOREM CallbackReportsHolds == Spec => []CallbackReports
<1>1. IInv /\ ClockInv => CallbackReports
  <2> SUFFICES ASSUME IInv, ClockInv, NEW s \in Substreams, Due(dpcm[s])
               PROVE  dummy_systimer_update(dpcm[s]).elapsed > 0
    BY DEF CallbackReports
  <2> DEFINE d == dpcm[s]
  <2> DEFINE t == TicksLeft(d)
  <2> DEFINE a == Since(jiffies, d.base_time)
  <2> DEFINE h == JMOD \div 2
  <2>1. d \in DpcmType /\ runtime[s] \in Params /\ Sized(d, runtime[s]) /\ OnTime(d)
        /\ jiffies \in 0 .. JMOD - 1
    BY DEF IInv, TypeOK, StructInv, TimerIffRunning, Filled, ClockInv, Due
  <2>2. Since(jiffies, d.expires) < h
    BY DEF Due, Overdue, Since
  <2> HIDE DEF d, h
  <2>3. /\ d.base_time \in 0 .. JMOD - 1 /\ d.expires \in 0 .. JMOD - 1
        /\ d.elapsed \in Nat /\ JMOD \in Nat \ {0} /\ MaxLate \in Nat /\ h \in Int
        /\ 2 * h <= JMOD
    BY <2>1, PcmAssumption DEF DpcmType, h
  <2>4. t \in Nat /\ t + MaxLate < h
    BY <2>1, TicksFit DEF h
  <2>5. /\ a \in 0 .. JMOD - 1
        /\ t <= a => PeriodsEnded(d) \in Nat /\ PeriodsEnded(d) > 0
        /\ t > a => PeriodsEnded(d) = 0
    BY <2>1, EndsWithClock
  <2> HIDE DEF t
  <2>6. t <= a \/ d.elapsed > 0
    <3>1. CASE Since(d.expires, d.base_time) = t
      <4>1. Since(jiffies, d.expires) = IF a >= t THEN a - t ELSE a - t + JMOD
        BY <2>1, <2>3, <3>1, WrapFrom
      <4> HIDE DEF a
      <4> QED BY <2>2, <2>3, <2>4, <2>5, <4>1
    <3> QED
      BY <2>1, <3>1 DEF OnTime, Since, t
  <2>7. CASE jiffies = d.base_time
    <3>1. a = 0
      BY <2>3, <2>7, WrapFrom
    <3>2. t >= 1
      <4>1. d.frac_period_rest \in Nat /\ d.frac_period_rest >= 1 /\ d.rate \in Nat \ {0}
        BY <2>1, SizedPositive DEF Sized, DpcmType
      <4>2. (d.frac_period_rest + d.rate - 1) \div d.rate >= 1
        BY <4>1
      <4> QED BY <4>2 DEF t, TicksLeft
    <3>3. d.elapsed > 0
      BY <2>4, <2>6, <3>1, <3>2
    <3> QED
      BY <2>7, <3>3 DEF dummy_systimer_update, d
  <2>8. CASE jiffies # d.base_time
    <3>1. dummy_systimer_update(d).elapsed = d.elapsed + PeriodsEnded(d)
      BY <2>1, <2>8 DEF dummy_systimer_update, DpcmType
    <3>2. d.elapsed + PeriodsEnded(d) > 0
      <4> HIDE DEF a
      <4> QED BY <2>3, <2>4, <2>5, <2>6
    <3> QED
      BY <3>1, <3>2 DEF d
  <2> QED
    BY <2>7, <2>8
<1> QED
  BY <1>1, ClockHolds, Inductive, PTL
============================================================================
