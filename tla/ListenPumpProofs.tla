------------------------- MODULE ListenPumpProofs -------------------------
(***************************************************************************)
(* Proofs about ListenPump for any waits, any batch size, any number of    *)
(* events and of faults: how long an event can go unnoticed.               *)
(***************************************************************************)
EXTENDS ListenPump, Integers, TLAPS

\* The flag says what the listener does.
FlagInv == listening <=> listen = "listening"

\* The listener has closed its connection before it opens the next.
ConnInv == listen \in {"off", "connecting", "sleeping"} => conn = "none"

\* What is committed while a connection hears is under way to the pump, or
\* the pump is at it.
HeardInv ==
    listening /\ conn = "live" /\ cursor < head =>
        notice \/ wake \/ pump \in {"draining", "failing", "off"}

\* The pump begins its wait with nothing left to fetch, and what comes after
\* is no older than the wait.
AgeInv ==
    /\ pump = "drained" => age = 0
    /\ pump = "waiting" => age + timer <= IF trusted THEN Long ELSE Short

PumpInv == TypeOK /\ FlagInv /\ ConnInv /\ HeardInv /\ AgeInv

-----------------------------------------------------------------------------
(* Numbers *)

LEMMA MinOfTwo ==
    ASSUME NEW a \in Int, NEW b \in Int
    PROVE  Min({a, b}) = IF a <= b THEN a ELSE b
<1> DEFINE m == IF a <= b THEN a ELSE b
<1>1. m \in {a, b} /\ \A x \in {a, b} : m <= x
  OBVIOUS
<1>2. \A y \in {a, b} : (\A x \in {a, b} : y <= x) => y = m
  OBVIOUS
<1> QED BY <1>1, <1>2 DEF Min

LEMMA MaxOfTwo ==
    ASSUME NEW a \in Int, NEW b \in Int
    PROVE  Max({a, b}) = IF a >= b THEN a ELSE b
<1> DEFINE m == IF a >= b THEN a ELSE b
<1>1. m \in {a, b} /\ \A x \in {a, b} : m >= x
  OBVIOUS
<1>2. \A y \in {a, b} : (\A x \in {a, b} : y >= x) => y = m
  OBVIOUS
<1> QED BY <1>1, <1>2 DEF Max

LEMMA MaxOfThree ==
    ASSUME NEW a \in Int, NEW b \in Int, NEW c \in Int
    PROVE  /\ Max({a, b, c}) \in Int
           /\ a <= Max({a, b, c}) /\ b <= Max({a, b, c}) /\ c <= Max({a, b, c})
<1> DEFINE m == IF a >= b /\ a >= c THEN a ELSE IF b >= c THEN b ELSE c
<1>1. m \in {a, b, c} /\ \A x \in {a, b, c} : m >= x
  OBVIOUS
<1>2. \A y \in {a, b, c} : (\A x \in {a, b, c} : y >= x) => y = m
  OBVIOUS
<1>3. Max({a, b, c}) = m
  BY <1>1, <1>2 DEF Max
<1> QED BY <1>3

\* The waits are no longer than the types allow.
LongWait == Max({Long, MaxBackoff})
LongProbe == Max({Probe, Retry, MaxBackoff})

LEMMA Waits ==
    ASSUME WaitsAssumption
    PROVE  /\ {Short, Long, Probe, Retry, MaxBackoff, BatchSize} \subseteq Nat \ {0}
           /\ Short <= Long /\ MaxSeq \in Nat /\ MaxFaults \in Nat
           /\ LongWait \in Nat /\ LongProbe \in Nat
           /\ Long <= LongWait /\ MaxBackoff <= LongWait
           /\ Probe <= LongProbe /\ Retry <= LongProbe /\ MaxBackoff <= LongProbe
<1>1. {Short, Long, Probe, Retry, MaxBackoff, BatchSize} \subseteq Nat \ {0}
      /\ Short <= Long /\ MaxSeq \in Nat /\ MaxFaults \in Nat
  BY DEF WaitsAssumption
<1>2. LongWait = IF Long >= MaxBackoff THEN Long ELSE MaxBackoff
  BY <1>1, MaxOfTwo DEF LongWait
<1>3. /\ LongProbe \in Int /\ Probe <= LongProbe /\ Retry <= LongProbe
      /\ MaxBackoff <= LongProbe
  <2>1. Probe \in Int /\ Retry \in Int /\ MaxBackoff \in Int
    BY <1>1
  <2> QED BY <2>1, MaxOfThree DEF LongProbe
<1> QED BY <1>1, <1>2, <1>3

\* A tick that takes one from the timer and adds at most one to the age.
LEMMA OneTick ==
    ASSUME NEW w \in Int, NEW t \in Int, NEW t1 \in Int, NEW g \in Int, NEW g1 \in Int,
           g + t <= w, t1 = t - 1, g1 <= g + 1
    PROVE  g1 + t1 <= w
  OBVIOUS

LEMMA DoubleType ==
    ASSUME WaitsAssumption, NEW b \in 1..MaxBackoff
    PROVE  Double(b) \in 1..MaxBackoff
<1>1. MaxBackoff \in Nat \ {0} /\ 2 * b \in Int
  BY Waits
<1>2. Double(b) = IF 2 * b <= MaxBackoff THEN 2 * b ELSE MaxBackoff
  BY <1>1, MinOfTwo DEF Double
<1> QED BY <1>1, <1>2

\* A fetch takes what there is, at most a batch of it.
LEMMA FetchedIs ==
    ASSUME WaitsAssumption, TypeOK
    PROVE  /\ Fetched \in cursor..head
           /\ Fetched - cursor < BatchSize => Fetched = head
<1>1. head \in Nat /\ cursor \in Nat /\ cursor <= head /\ BatchSize \in Nat \ {0}
  BY Waits DEF TypeOK
<1>2. Fetched = IF head <= cursor + BatchSize THEN head ELSE cursor + BatchSize
  BY <1>1, MinOfTwo DEF Fetched
<1> QED BY <1>1, <1>2

\* A tick lowers the timers, down to zero, and ages what waits by one.
LEMMA TickIs ==
    ASSUME WaitsAssumption, TypeOK, Tick
    PROVE  /\ timer' = IF timer = 0 THEN 0 ELSE timer - 1
           /\ ltimer' = IF ltimer = 0 THEN 0 ELSE ltimer - 1
           /\ age' = IF cursor < head THEN IF age <= Long THEN age + 1 ELSE Long + 1 ELSE 0
<1>1. timer \in Nat /\ ltimer \in Nat /\ age \in Nat /\ Long \in Nat
  BY Waits DEF TypeOK, LongWait, LongProbe
<1>2. Max({1, timer}) = IF 1 >= timer THEN 1 ELSE timer
  BY <1>1, MaxOfTwo
<1>3. Max({1, ltimer}) = IF 1 >= ltimer THEN 1 ELSE ltimer
  BY <1>1, MaxOfTwo
<1>4. Min({age + 1, Long + 1}) = IF age + 1 <= Long + 1 THEN age + 1 ELSE Long + 1
  BY <1>1, MinOfTwo
<1> QED BY <1>1, <1>2, <1>3, <1>4 DEF Tick

-----------------------------------------------------------------------------
(* Types *)

LEMMA InitTypes ==
    ASSUME WaitsAssumption, Init
    PROVE  TypeOK
<1>1. /\ head \in 0..MaxSeq /\ faults \in 0..MaxFaults /\ cursor \in 0..head
      /\ timer \in 0..LongWait /\ ltimer \in 0..LongProbe /\ age \in 0..(Long + 1)
      /\ backoff \in 1..MaxBackoff /\ lbackoff \in 1..MaxBackoff
  BY Waits DEF Init
<1> QED BY <1>1 DEF Init, TypeOK, LongWait, LongProbe

LEMMA DatabaseTypes ==
    ASSUME WaitsAssumption, TypeOK, Publish \/ Hear \/ Break \/ ProbeLate
    PROVE  TypeOK'
<1>1. head \in 0..MaxSeq /\ MaxSeq \in Nat /\ faults \in 0..MaxFaults /\ MaxFaults \in Nat
  BY Waits DEF TypeOK
<1>2. CASE Publish
  BY <1>1, <1>2 DEF TypeOK, Publish, pumpVars, listenVars
<1>3. CASE Hear
  BY <1>3 DEF TypeOK, Hear, pumpVars, listenVars
<1>4. CASE Break
  <2>1. faults' \in 0..MaxFaults /\ conn' \in {"broken", "dead"}
    BY <1>1, <1>4 DEF Break, Fault
  <2>2. ~ notice'
    BY <1>4 DEF Break
  <2> QED BY <1>4, <2>1, <2>2 DEF TypeOK, Break, pumpVars, listenVars
<1>5. CASE ProbeLate
  BY <1>1, <1>5 DEF TypeOK, ProbeLate, Fault, pumpVars, listenVars
<1> QED BY <1>2, <1>3, <1>4, <1>5

LEMMA PumpTypes ==
    ASSUME WaitsAssumption, TypeOK, PumpStep \/ PumpError
    PROVE  TypeOK'
<1>1. CASE Fetch
  <2>1. Fetched \in 0..head
    BY FetchedIs DEF TypeOK
  <2>2. backoff' \in 1..MaxBackoff /\ age' \in 0..(Long + 1)
    BY <1>1, Waits DEF Fetch, TypeOK
  <2> QED BY <1>1, <2>1, <2>2 DEF TypeOK, Fetch, network, listenVars
<1>2. CASE PumpRetry
  BY <1>2 DEF TypeOK, PumpRetry, network, listenVars
<1>3. CASE Wait
  <2>1. timer' \in 0..LongWait
    BY <1>3, Waits DEF Wait
  <2> QED BY <1>3, <2>1 DEF TypeOK, Wait, network, listenVars, LongWait
<1>4. CASE Wake
  BY <1>4 DEF TypeOK, Wake, network, listenVars
<1>5. CASE EndPump
  BY <1>5 DEF TypeOK, EndPump, network, listenVars
<1>6. CASE PumpError
  <2>1. timer' \in 0..LongWait /\ backoff' \in 1..MaxBackoff
    BY <1>6, Waits, DoubleType DEF PumpError, TypeOK
  <2>2. faults' \in 0..MaxFaults
    BY <1>6, Waits DEF PumpError, Fault, TypeOK
  <2> QED BY <1>6, <2>1, <2>2 DEF TypeOK, PumpError, network, listenVars, LongWait
<1> QED BY <1>1, <1>2, <1>3, <1>4, <1>5, <1>6 DEF PumpStep

LEMMA ListenTypes ==
    ASSUME WaitsAssumption, TypeOK, ConnInv, ListenStep
    PROVE  TypeOK'
<1>1. CASE Connect
  <2>1. conn = "none" /\ conn' \in {"live", "deaf"}
    BY <1>1 DEF ConnInv, Connect
  <2>2. ~ notice /\ notice' = notice
    BY <1>1, <2>1 DEF TypeOK, Connect
  <2> QED BY <1>1, <2>1, <2>2 DEF TypeOK, Connect, pumpVars
<1>2. CASE Ask
  <2>1. ltimer' \in 0..LongProbe
    BY <1>2, Waits DEF Ask
  <2> QED BY <1>2, <2>1 DEF TypeOK, Ask, pumpVars, LongProbe
<1>3. CASE Trust
  <2>1. lbackoff' \in 1..MaxBackoff
    BY <1>3, Waits DEF Trust
  <2> QED BY <1>3, <2>1 DEF TypeOK, Trust, pumpVars
<1>4. CASE Distrust
  <2>1. ltimer' \in 0..LongProbe
    BY <1>4, Waits DEF Distrust
  <2> QED BY <1>4, <2>1 DEF TypeOK, Distrust, pumpVars, LongProbe
<1>5. CASE Again
  BY <1>5 DEF TypeOK, Again, Release, pumpVars
<1>6. CASE Reconnect
  BY <1>6 DEF TypeOK, Reconnect, network, pumpVars
<1>7. CASE EndListen
  BY <1>7 DEF TypeOK, EndListen, Release, pumpVars
<1>8. CASE ListenError
  <2>1. ltimer' \in 0..LongProbe /\ lbackoff' \in 1..MaxBackoff
    BY <1>8, Waits, DoubleType DEF ListenError, TypeOK
  <2>2. faults' \in 0..MaxFaults
    BY <1>8, Waits DEF ListenError, Fault, TypeOK
  <2> QED BY <1>8, <2>1, <2>2 DEF TypeOK, ListenError, Release, pumpVars, LongProbe
<1> QED BY <1>1, <1>2, <1>3, <1>4, <1>5, <1>6, <1>7, <1>8 DEF ListenStep

LEMMA TickTypes ==
    ASSUME WaitsAssumption, TypeOK, Tick
    PROVE  TypeOK'
<1>1. /\ timer \in 0..LongWait /\ ltimer \in 0..LongProbe /\ age \in 0..(Long + 1)
      /\ LongWait \in Nat /\ LongProbe \in Nat /\ Long \in Nat
  BY Waits DEF TypeOK, LongWait, LongProbe
<1>2. timer' \in 0..LongWait /\ ltimer' \in 0..LongProbe /\ age' \in 0..(Long + 1)
  BY <1>1, TickIs
<1> QED BY <1>2 DEF Tick, TypeOK, network, LongWait, LongProbe

LEMMA NextTypes ==
    ASSUME WaitsAssumption, TypeOK, ConnInv, [Next]_vars
    PROVE  TypeOK'
<1>1. CASE Close
  BY <1>1 DEF TypeOK, Close, network, pumpVars, listenVars
<1>2. CASE UNCHANGED vars
  BY <1>2 DEF TypeOK, vars, network, pumpVars, listenVars
<1> QED BY <1>1, <1>2, DatabaseTypes, PumpTypes, ListenTypes, TickTypes DEF Next

-----------------------------------------------------------------------------
(* What the pump is told *)

LEMMA FlagStep ==
    ASSUME FlagInv, [Next]_vars
    PROVE  FlagInv'
<1>1. CASE UNCHANGED listenVars
  BY <1>1 DEF FlagInv, listenVars
<1>2. CASE ListenStep
  BY <1>2 DEF FlagInv, ListenStep, Connect, Ask, Trust, Distrust, Again, Reconnect, EndListen,
              ListenError, Release, listenVars, pumpVars, network
<1>3. CASE Publish \/ Hear \/ Break \/ ProbeLate \/ PumpStep \/ PumpError \/ Close
           \/ UNCHANGED vars
  <2>1. UNCHANGED listenVars
    BY <1>3 DEF Publish, Hear, Break, ProbeLate, PumpStep, PumpError, Close, vars, Fetch,
                PumpRetry, Wait, Wake, EndPump
  <2> QED BY <1>1, <2>1
<1>4. CASE Tick
  BY <1>4 DEF FlagInv, Tick
<1> QED BY <1>2, <1>3, <1>4 DEF Next

LEMMA ConnStep ==
    ASSUME ConnInv, [Next]_vars
    PROVE  ConnInv'
<1>1. CASE UNCHANGED <<listen, conn>>
  BY <1>1 DEF ConnInv
<1>2. CASE ListenStep
  BY <1>2 DEF ConnInv, ListenStep, Connect, Ask, Trust, Distrust, Again, Reconnect, EndListen,
              ListenError, Release, network
<1>3. CASE Publish \/ Hear \/ ProbeLate \/ PumpStep \/ PumpError \/ Close \/ Tick
           \/ UNCHANGED vars
  <2>1. UNCHANGED <<listen, conn>>
    BY <1>3 DEF Publish, Hear, ProbeLate, PumpStep, PumpError, Close, vars, Fetch, PumpRetry,
                Wait, Wake, EndPump, Tick, network, listenVars
  <2> QED BY <1>1, <2>1
<1>4. CASE Break
  BY <1>4 DEF ConnInv, Break, listenVars
<1> QED BY <1>2, <1>3, <1>4 DEF Next

LEMMA HeardStep ==
    ASSUME WaitsAssumption, TypeOK, FlagInv, HeardInv, [Next]_vars
    PROVE  HeardInv'
<1>1. CASE Publish
  BY <1>1 DEF HeardInv, Publish, listenVars, pumpVars
<1>2. CASE Hear
  BY <1>2 DEF HeardInv, Hear
<1>3. CASE Break
  BY <1>3 DEF HeardInv, Break
<1>4. CASE ProbeLate
  BY <1>4 DEF HeardInv, ProbeLate, pumpVars, listenVars
<1>5. CASE Fetch
  <2>1. pump' = "drained" => cursor' = head'
    BY <1>5, FetchedIs DEF Fetch, network
  <2>2. pump' \in {"draining", "drained"}
    BY <1>5 DEF Fetch
  <2>3. cursor' \in Nat /\ head' \in Nat
    BY <1>5, FetchedIs DEF Fetch, network, TypeOK
  <2> QED BY <2>1, <2>2, <2>3 DEF HeardInv
<1>6. CASE PumpError \/ PumpRetry \/ Wake \/ EndPump
  BY <1>6 DEF HeardInv, PumpError, PumpRetry, Wake, EndPump
<1>7. CASE Wait
  BY <1>7 DEF HeardInv, Wait, network, listenVars
<1>8. CASE Trust
  BY <1>8 DEF HeardInv, Trust
<1>9. CASE Connect \/ Ask \/ Distrust \/ Again \/ Reconnect \/ EndListen \/ ListenError
  <2>1. ~ listening'
    BY <1>9 DEF FlagInv, Connect, Ask, Distrust, Again, Reconnect, EndListen, ListenError,
                Release
  <2> QED BY <2>1 DEF HeardInv
<1>10. CASE Close \/ UNCHANGED vars
  BY <1>10 DEF HeardInv, Close, vars, network, pumpVars, listenVars
<1>11. CASE Tick
  BY <1>11 DEF HeardInv, Tick, network
<1> QED BY <1>1, <1>2, <1>3, <1>4, <1>5, <1>6, <1>7, <1>8, <1>9, <1>10, <1>11
        DEF Next, PumpStep, ListenStep

LEMMA AgeStep ==
    ASSUME WaitsAssumption, TypeOK, FlagInv, AgeInv, [Next]_vars
    PROVE  AgeInv'
<1>1. CASE UNCHANGED <<pumpVars, age>>
  BY <1>1 DEF AgeInv, pumpVars
<1>2. CASE Publish \/ Hear \/ Break \/ ProbeLate \/ Close \/ ListenStep \/ UNCHANGED vars
  <2>1. UNCHANGED <<pumpVars, age>>
    BY <1>2 DEF Publish, Hear, Break, ProbeLate, Close, ListenStep, vars, Connect, Ask, Trust,
                Distrust, Again, Reconnect, EndListen, ListenError
  <2> QED BY <1>1, <2>1
<1>3. CASE Fetch
  <2>1. pump' = "drained" => age' = 0
    BY <1>3, FetchedIs DEF Fetch
  <2>2. pump' # "waiting"
    BY <1>3 DEF Fetch
  <2> QED BY <2>1, <2>2 DEF AgeInv
<1>4. CASE PumpError \/ PumpRetry \/ Wake \/ EndPump
  BY <1>4 DEF AgeInv, PumpError, PumpRetry, Wake, EndPump
<1>5. CASE Wait
  <2>1. age = 0 /\ age' = age /\ pump' = "waiting"
    BY <1>5 DEF Wait, AgeInv
  <2>2. timer' = IF trusted' THEN Long ELSE Short
    BY <1>5 DEF Wait, FlagInv
  <2> QED BY <2>1, <2>2, Waits DEF AgeInv
<1>6. CASE Tick
  <2>1. timer \in Nat /\ age \in Nat /\ Long \in Nat /\ Short \in Nat
    BY Waits DEF TypeOK, LongWait
  <2>2. pump' = pump /\ trusted' = trusted /\ pump # "drained"
        /\ (pump = "waiting" => timer > 0)
    BY <1>6 DEF Tick, Idle
  <2>3. timer' = IF timer = 0 THEN 0 ELSE timer - 1
    BY <1>6, TickIs
  <2>4. age' \in Nat /\ age' <= age + 1
    BY <1>6, <2>1, TickIs
  <2>0. PICK T : T = IF trusted THEN Long ELSE Short
    OBVIOUS
  <2>5. T = IF trusted' THEN Long ELSE Short
    BY Zenon, <2>0, <2>2
  <2>6. pump = "waiting" => age + timer <= T
    BY <2>0 DEF AgeInv
  <2>7. pump = "waiting" => age' + timer' <= T
    <3>1. T \in Nat
      BY <2>0, <2>1
    <3>2. ASSUME pump = "waiting"
          PROVE  age' + timer' <= T
      <4>1. timer' = timer - 1 /\ timer' \in Int
        BY <2>1, <2>2, <2>3, <3>2
      <4>2. age + timer <= T
        BY <2>6, <3>2
      <4>3. /\ T \in Int /\ timer \in Int /\ timer' \in Int /\ age \in Int /\ age' \in Int
            /\ age' <= age + 1
        BY <2>1, <2>4, <3>1, <4>1
      <4> QED BY Zenon, <4>1, <4>2, <4>3, OneTick
    <3> QED BY <3>2
  <2> QED BY <2>2, <2>5, <2>7 DEF AgeInv
<1> QED BY <1>2, <1>3, <1>4, <1>5, <1>6 DEF Next, PumpStep

-----------------------------------------------------------------------------
(* The theorems *)

LEMMA PumpAlways ==
    ASSUME WaitsAssumption
    PROVE  Spec => []PumpInv
<1>1. Init => PumpInv
  <2> SUFFICES ASSUME Init PROVE PumpInv
    OBVIOUS
  <2>1. TypeOK
    BY InitTypes
  <2>2. FlagInv /\ ConnInv /\ HeardInv /\ AgeInv
    BY DEF Init, FlagInv, ConnInv, HeardInv, AgeInv
  <2> QED BY <2>1, <2>2 DEF PumpInv
<1>2. PumpInv /\ [Next]_vars => PumpInv'
  BY NextTypes, FlagStep, ConnStep, HeardStep, AgeStep DEF PumpInv
<1> QED BY <1>1, <1>2, PTL DEF Spec

\* The timers stay within the longest wait, the backoffs within their cap,
\* and a NOTIFY is under way only to a connection that hears.
THEOREM PumpTypesHold ==
    ASSUME WaitsAssumption
    PROVE  Spec => []TypeOK
<1>1. PumpInv => TypeOK
  BY DEF PumpInv
<1> QED BY <1>1, PumpAlways, PTL

\* However long the waits are, and whatever goes wrong how often: an event
\* is fetched at once if a LISTEN connection hears, within the poll interval
\* if the pump had none to trust, and within the long wait in any case.
THEOREM EventsAreNoticed ==
    ASSUME WaitsAssumption
    PROVE  Spec => []NoticedInTime
<1>1. PumpInv => NoticedInTime
  <2> SUFFICES ASSUME PumpInv, Idle, pump = "waiting"
               PROVE  /\ listening /\ conn = "live" => cursor = head
                      /\ cursor < head => age <= IF trusted THEN Long ELSE Short
    BY DEF NoticedInTime
  <2>1. head \in Nat /\ cursor \in Nat /\ cursor <= head /\ age \in Nat /\ timer \in Nat
    BY Waits DEF PumpInv, TypeOK, LongWait
  <2>2. ~ notice /\ ~ wake
    BY DEF Idle
  <2>3. listening /\ conn = "live" => ~ (cursor < head)
    BY <2>2 DEF PumpInv, HeardInv
  <2>4. age <= IF trusted THEN Long ELSE Short
    BY <2>1, Waits DEF PumpInv, AgeInv
  <2> QED BY <2>1, <2>3, <2>4
<1> QED BY <1>1, PumpAlways, PTL

===========================================================================
