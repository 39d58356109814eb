------------------------- MODULE AttemptDeadlines_proofs -------------------------
(***************************************************************************)
(* How long an attempt can take, for all timeouts, frame sizes and widths  *)
(* of int, and any number of signals.                                      *)
(*                                                                         *)
(* AttemptBounded says nothing about where the time went, so no step of    *)
(* the clock keeps it by itself.  Accounted does: what has passed is paid  *)
(* for by the connect, the bytes that moved, the signals that came and the *)
(* wait of the call in progress.                                           *)
(***************************************************************************)
EXTENDS AttemptDeadlines, TLAPS

Types ==
    /\ pc \in {"start", "connecting", "sending", "receiving", "done", "failed", "timed_out"}
    /\ link \in {"none", "pending", "up", "refused"}
    /\ nonblocking \in BOOLEAN
    /\ moved \in Nat /\ idle \in Nat /\ elapsed \in Nat /\ signals \in Nat
    /\ connect_timeout \in ConnectTimeouts

\* The state of the socket at every stage.
SocketSound ==
    /\ pc = "start" => moved = 0 /\ idle = 0 /\ elapsed = 0 /\ ~nonblocking
    /\ pc = "connecting" => moved = 0 /\ link # "none"
    /\ pc \in {"sending", "receiving"} =>
          link = "up" /\ ~nonblocking /\ moved < StageSize /\ idle <= IoTimeout

\* Where the time of an attempt went.
Accounted ==
    PollTimeout >= 0 =>
        /\ pc = "connecting" => idle <= PollTimeout /\ elapsed <= Larger * signals + idle
        /\ pc = "sending" =>
              elapsed <= PollTimeout + IoTimeout * moved + Larger * signals + idle
        /\ pc = "receiving" =>
              elapsed <= PollTimeout + IoTimeout * (RequestSize + moved) + Larger * signals + idle

DeadlineInv == Types /\ SocketSound /\ Accounted /\ AttemptBounded /\ TimedOutInFull
--------------------------------------------------------------------------------
LEMMA OneMore ==
    ASSUME NEW a \in Nat, NEW b \in Nat
    PROVE  a * (b + 1) = a * b + a
OBVIOUS

LEMMA Room ==
    ASSUME NEW a \in Nat, NEW b \in Nat, NEW d \in Nat, b < d
    PROVE  a * b + a <= a * d /\ a * b \in Nat /\ a * d \in Nat
<1>1. PICK e \in Nat : d = b + 1 + e
    <2>1. d - b - 1 \in Nat /\ d = b + 1 + (d - b - 1) OBVIOUS
    <2> QED BY <2>1
<1>2. a * d = a * b + a + a * e BY <1>1
<1>3. a * e \in Nat /\ a * b \in Nat /\ a * d \in Nat OBVIOUS
<1> QED BY <1>2, <1>3

\* The timeout poll gets is an integer, and no step changes it.
LEMMA PollTimeoutInt == Types => PollTimeout \in Int
<1> SUFFICES ASSUME Types PROVE PollTimeout \in Int OBVIOUS
<1>1. connect_timeout \in Nat BY TimeoutsPositive DEF Types
<1>2. IntModulus \in Nat \ {0} BY TimeoutsPositive
<1>3. IntModulus \div 2 \in Int BY <1>2
<1>4. (connect_timeout + IntModulus \div 2) % IntModulus \in Int BY <1>1, <1>2, <1>3
<1> QED BY <1>3, <1>4 DEF PollTimeout

LEMMA Sizes ==
    ASSUME Types
    PROVE  /\ IoTimeout \in Nat /\ RequestSize \in Nat /\ ReplySize \in Nat
           /\ RequestSize > 0 /\ ReplySize > 0
           /\ PollTimeout \in Int
           /\ PollTimeout >= 0 => Larger \in Nat /\ PollTimeout <= Larger /\ IoTimeout <= Larger
<1>1. PollTimeout \in Int BY PollTimeoutInt
<1> QED BY <1>1, TimeoutsPositive DEF Larger

LEMMA InitDeadline == Init => DeadlineInv
<1> SUFFICES ASSUME Init PROVE DeadlineInv OBVIOUS
<1>1. Types BY DEF Init, Types
<1>2. SocketSound BY DEF Init, SocketSound
<1>3. Accounted BY DEF Init, Accounted
<1>4. AttemptBounded
    <2>1. IoTimeout * (RequestSize + ReplySize) \in Nat BY <1>1, Sizes
    <2>2. Larger * signals = 0 \/ ~(PollTimeout >= 0) BY <1>1, Sizes DEF Init
    <2> QED BY <1>1, Sizes, <2>1, <2>2 DEF Init, AttemptBounded
<1>5. TimedOutInFull BY DEF Init, TimedOutInFull
<1> QED BY <1>1, <1>2, <1>3, <1>4, <1>5 DEF DeadlineInv

\* A step that leaves the constants of the attempt, its clock and its signals
\* alone keeps the bound.
LEMMA BoundKept ==
    ASSUME AttemptBounded, UNCHANGED <<elapsed, signals, connect_timeout>>
    PROVE  AttemptBounded' /\ PollTimeout' = PollTimeout /\ Larger' = Larger
<1>1. PollTimeout' = PollTimeout BY DEF PollTimeout
<1>2. Larger' = Larger BY <1>1 DEF Larger
<1> QED BY <1>1, <1>2 DEF AttemptBounded

LEMMA ConnectKeeps == ASSUME DeadlineInv, Connect PROVE DeadlineInv'
<1> USE DEF DeadlineInv
<1>1. Types'
    <2>1. nonblocking' \in BOOLEAN BY Zenon DEF Connect, Connected
    <2>2. pc' \in {"connecting", "sending"} /\ link' \in {"pending", "up"} /\ idle' \in Nat
            /\ UNCHANGED <<moved, elapsed, signals, connect_timeout>>
        BY DEF Types, Connect, Connected
    <2> QED BY <2>1, <2>2 DEF Types
<1>2. AttemptBounded' /\ PollTimeout' = PollTimeout /\ Larger' = Larger
    BY BoundKept DEF Connect, Connected
<1>3. SocketSound' BY TimeoutsPositive DEF Types, SocketSound, Connect, Connected, StageSize
<1>4. PollTimeout >= 0 => Larger * signals \in Nat BY Sizes DEF Types
<1>5. IoTimeout * moved = 0 BY Sizes DEF SocketSound, Connect
<1>6. Accounted'
    BY <1>2, <1>4, <1>5, Sizes DEF Accounted, Types, SocketSound, Connect, Connected
<1>7. TimedOutInFull' BY DEF TimedOutInFull, Connect, Connected
<1> QED BY <1>1, <1>2, <1>3, <1>6, <1>7

LEMMA CallFailsKeeps == ASSUME DeadlineInv, CallFails PROVE DeadlineInv'
<1> USE DEF DeadlineInv
<1>1. Types' BY DEF Types, CallFails, Fail
<1>2. AttemptBounded' BY BoundKept DEF CallFails, Fail
<1>3. SocketSound' BY DEF SocketSound, CallFails, Fail
<1>4. Accounted' BY DEF Accounted, CallFails, Fail
<1>5. TimedOutInFull' BY DEF TimedOutInFull, CallFails, Fail
<1> QED BY <1>1, <1>2, <1>3, <1>4, <1>5

LEMMA ResolveKeeps == ASSUME DeadlineInv, Resolve PROVE DeadlineInv'
<1> USE DEF DeadlineInv
<1>1. Types' BY DEF Types, Resolve
<1>2. AttemptBounded' /\ PollTimeout' = PollTimeout /\ Larger' = Larger BY BoundKept DEF Resolve
<1>3. SocketSound' BY DEF SocketSound, Resolve
<1>4. Accounted' BY <1>2 DEF Accounted, Resolve
<1>5. TimedOutInFull' BY DEF TimedOutInFull, Resolve
<1> QED BY <1>1, <1>2, <1>3, <1>4, <1>5

LEMMA PollReadyKeeps == ASSUME DeadlineInv, PollReady PROVE DeadlineInv'
<1> USE DEF DeadlineInv
<1>1. CASE link = "refused"
    <2>1. CallFails BY <1>1 DEF PollReady, CallFails
    <2> QED BY <2>1, CallFailsKeeps
<1>2. CASE link # "refused"
    <2> link = "up" BY <1>2 DEF PollReady, SocketSound, Types
    <2>1. Types'
        <3>1. nonblocking' \in BOOLEAN BY <1>2, Zenon DEF PollReady, Connected
        <3>2. pc' = "sending" /\ idle' = 0
                /\ UNCHANGED <<link, moved, elapsed, signals, connect_timeout>>
            BY <1>2 DEF PollReady, Connected
        <3> QED BY <3>1, <3>2 DEF Types
    <2>2. AttemptBounded' /\ PollTimeout' = PollTimeout /\ Larger' = Larger
        BY <1>2, BoundKept DEF PollReady, Connected
    <2>3. SocketSound'
        BY <1>2, TimeoutsPositive DEF Types, SocketSound, PollReady, Connected, StageSize
    <2>4. PollTimeout >= 0 => Larger * signals \in Nat BY Sizes DEF Types
    <2>5. IoTimeout * moved = 0 BY Sizes DEF SocketSound, PollReady
    <2>6. Accounted'
        BY <1>2, <2>2, <2>4, <2>5, Sizes DEF Accounted, Types, PollReady, Connected
    <2>7. TimedOutInFull' BY <1>2 DEF TimedOutInFull, PollReady, Connected
    <2> QED BY <2>1, <2>2, <2>3, <2>6, <2>7
<1> QED BY <1>1, <1>2

\* What the call in progress waited is paid for by the bytes it moves.
LEMMA TransferKeeps ==
    ASSUME DeadlineInv, NEW n \in 1..StageSize, Transfer(n)
    PROVE  DeadlineInv'
<1> USE DEF DeadlineInv
<1>1. StageSize \in Nat /\ StageSize > 0 BY Sizes DEF StageSize
<1>2. n \in Nat /\ n > 0 /\ moved + n <= StageSize /\ moved \in Nat
    BY <1>1 DEF Transfer, Types
<1>3. Types' BY <1>2 DEF Types, Transfer
<1>4. AttemptBounded' /\ PollTimeout' = PollTimeout /\ Larger' = Larger
    BY BoundKept DEF Transfer
<1>5. SocketSound'
    BY <1>1, <1>2, Sizes DEF SocketSound, Transfer, StageSize, Types
<1>6. Accounted'
    <2> SUFFICES ASSUME PollTimeout >= 0 PROVE Accounted' BY <1>4 DEF Accounted
    <2>1. Larger * signals \in Nat BY Sizes DEF Types
    <2>2. idle <= IoTimeout /\ idle' = 0 /\ UNCHANGED <<elapsed, signals>>
        BY DEF SocketSound, Transfer
    <2>3. CASE pc = "sending" /\ moved + n < StageSize
        <3>1. IoTimeout * moved + IoTimeout <= IoTimeout * (moved + n)
                /\ IoTimeout * moved \in Nat /\ IoTimeout * (moved + n) \in Nat
            BY <1>2, Room, Sizes
        <3>2. elapsed <= PollTimeout + IoTimeout * moved + Larger * signals + idle
            BY <2>3 DEF Accounted
        <3>3. elapsed <= PollTimeout + IoTimeout * (moved + n) + Larger * signals + 0
            BY <3>1, <3>2, <2>1, <2>2, Sizes DEF Types
        <3>4. moved' = moved + n /\ pc' = "sending" BY <2>3 DEF Transfer
        <3> QED BY <3>3, <3>4, <2>2, <1>4 DEF Accounted
    <2>4. CASE pc = "receiving" /\ moved + n < StageSize
        <3>1. IoTimeout * (RequestSize + moved) + IoTimeout <= IoTimeout * (RequestSize + (moved + n))
                /\ IoTimeout * (RequestSize + moved) \in Nat
                /\ IoTimeout * (RequestSize + (moved + n)) \in Nat
            <4>1. RequestSize + moved \in Nat /\ RequestSize + (moved + n) \in Nat
                    /\ RequestSize + moved < RequestSize + (moved + n)
                BY <1>2, Sizes
            <4> QED BY <4>1, Room, Sizes
        <3>2. elapsed <= PollTimeout + IoTimeout * (RequestSize + moved) + Larger * signals + idle
            BY <2>4 DEF Accounted
        <3>3. elapsed <= PollTimeout + IoTimeout * (RequestSize + (moved + n)) + Larger * signals + 0
            BY <3>1, <3>2, <2>1, <2>2, Sizes DEF Types
        <3>4. moved' = moved + n /\ pc' = "receiving" BY <2>4 DEF Transfer
        <3> QED BY <3>3, <3>4, <2>2, <1>4 DEF Accounted
    <2>5. CASE pc = "sending" /\ ~(moved + n < StageSize)
        <3>1. IoTimeout * moved + IoTimeout <= IoTimeout * RequestSize
                /\ IoTimeout * moved \in Nat /\ IoTimeout * RequestSize \in Nat
            <4>1. moved < RequestSize BY <2>5 DEF SocketSound, StageSize
            <4> QED BY <4>1, <1>2, Room, Sizes
        <3>2. elapsed <= PollTimeout + IoTimeout * moved + Larger * signals + idle
            BY <2>5 DEF Accounted
        <3>3. elapsed <= PollTimeout + IoTimeout * RequestSize + Larger * signals + 0
            BY <3>1, <3>2, <2>1, <2>2, Sizes DEF Types
        <3>4. moved' = 0 /\ pc' = "receiving" BY <2>5 DEF Transfer
        <3>5. RequestSize + moved' = RequestSize BY <3>4, Sizes
        <3> QED BY <3>3, <3>4, <3>5, <2>2, <1>4 DEF Accounted
    <2>6. CASE pc = "receiving" /\ ~(moved + n < StageSize)
        BY <2>6 DEF Accounted, Transfer
    <2> QED BY <2>3, <2>4, <2>5, <2>6 DEF Transfer
<1>7. TimedOutInFull' BY DEF TimedOutInFull, Transfer
<1> QED BY <1>3, <1>4, <1>5, <1>6, <1>7

LEMMA TimesOutKeeps == ASSUME DeadlineInv, TimesOut PROVE DeadlineInv'
<1> USE DEF DeadlineInv
<1>1. Types' BY DEF Types, TimesOut
<1>2. AttemptBounded' /\ PollTimeout' = PollTimeout BY BoundKept DEF TimesOut
<1>3. SocketSound' BY DEF SocketSound, TimesOut
<1>4. Accounted' BY DEF Accounted, TimesOut
<1>5. TimedOutInFull'
    <2>1. CASE pc = "connecting"
        <3>1. link = "pending" /\ idle = CallTimeout /\ idle < Horizon BY <2>1 DEF TimesOut, Waiting
        <3>2. PollTimeout >= 0 /\ idle = PollTimeout
            BY <2>1, <3>1, Sizes, TimeoutsPositive DEF CallTimeout, Types
        <3> QED BY <3>1, <3>2, <1>2, Sizes DEF TimedOutInFull, TimesOut
    <2>2. CASE pc # "connecting"
        BY <2>2 DEF TimesOut, Waiting, CallTimeout, SocketSound, TimedOutInFull
    <2> QED BY <2>1, <2>2
<1> QED BY <1>1, <1>2, <1>3, <1>4, <1>5

\* A signal costs at most what the interrupted call had waited.
LEMMA InterruptedKeeps == ASSUME DeadlineInv, Interrupted PROVE DeadlineInv'
<1> USE DEF DeadlineInv
<1>1. Types' BY DEF Types, Interrupted
<1>2. PollTimeout' = PollTimeout BY DEF Interrupted, PollTimeout
<1>3. Larger' = Larger BY <1>2 DEF Larger
<1>4. SocketSound' BY Sizes DEF SocketSound, Interrupted, StageSize
<1>5. ASSUME PollTimeout >= 0
      PROVE  /\ Larger * signals' = Larger * signals + Larger
             /\ Larger * signals \in Nat /\ Larger \in Nat
    BY <1>5, Sizes, OneMore DEF Types, Interrupted
<1>6. Accounted'
    <2> SUFFICES ASSUME PollTimeout >= 0 PROVE Accounted' BY <1>2 DEF Accounted
    <2>1. idle <= Larger BY Sizes DEF Accounted, SocketSound, Interrupted, Waiting, Types
    <2>2. IoTimeout * moved \in Nat /\ IoTimeout * (RequestSize + moved) \in Nat BY Sizes DEF Types
    <2>3. idle' = 0 /\ UNCHANGED <<pc, moved, elapsed>> BY DEF Interrupted
    <2> QED BY <1>2, <1>3, <1>5, <2>1, <2>2, <2>3, Sizes DEF Accounted, Types
<1>7. AttemptBounded'
    <2> SUFFICES ASSUME PollTimeout >= 0 PROVE AttemptBounded' BY <1>2 DEF AttemptBounded
    <2>1. IoTimeout * (RequestSize + ReplySize) \in Nat BY Sizes
    <2>2. elapsed' = elapsed /\ elapsed \in Nat BY DEF Interrupted, Types
    <2> QED BY <1>2, <1>3, <1>5, <2>1, <2>2, Sizes DEF AttemptBounded
<1>8. TimedOutInFull' BY DEF TimedOutInFull, Interrupted, Waiting
<1> QED BY <1>1, <1>4, <1>6, <1>7, <1>8

LEMMA TickKeeps == ASSUME DeadlineInv, Tick PROVE DeadlineInv'
<1> USE DEF DeadlineInv
<1>1. Types' BY DEF Types, Tick
<1>2. PollTimeout' = PollTimeout BY DEF Tick, PollTimeout
<1>3. Larger' = Larger BY <1>2 DEF Larger
<1>4. /\ idle' = idle + 1 /\ idle \in Nat /\ elapsed \in Nat /\ elapsed' \in Nat
      /\ elapsed' <= elapsed + 1
    BY DEF Tick, Types
<1>5. ASSUME pc # "connecting" PROVE idle' <= IoTimeout
    BY <1>4, <1>5, Sizes DEF Tick, Waiting, CallTimeout, SocketSound
<1>6. ASSUME pc = "connecting", PollTimeout >= 0 PROVE idle' <= PollTimeout
    BY <1>4, <1>6, Sizes DEF Tick, CallTimeout
<1>7. SocketSound' BY <1>5 DEF SocketSound, Tick, Waiting, StageSize
<1>8. ASSUME PollTimeout >= 0
      PROVE  Larger * signals \in Nat /\ IoTimeout * moved \in Nat
             /\ IoTimeout * (RequestSize + moved) \in Nat
    BY <1>8, Sizes DEF Types
<1>9. Accounted'
    BY <1>2, <1>3, <1>4, <1>5, <1>6, <1>8, Sizes DEF Accounted, Tick
<1>10. AttemptBounded'
    <2> SUFFICES ASSUME PollTimeout >= 0 PROVE AttemptBounded' BY <1>2 DEF AttemptBounded
    <2> USE <1>2, <1>3
    <2> DEFINE total == RequestSize + ReplySize
    <2>1. total \in Nat /\ IoTimeout * total \in Nat BY Sizes
    <2>2. UNCHANGED <<pc, moved, signals>> BY DEF Tick
    <2>3. elapsed' <= PollTimeout + IoTimeout * total + Larger * signals
        <3>1. CASE pc = "connecting"
            BY <3>1, <1>6, <1>8, <1>9, <2>1, <2>2, <1>4, Sizes DEF Accounted
        <3>2. CASE pc = "sending"
            <4>1. moved \in Nat /\ moved < total BY <3>2, Sizes DEF SocketSound, StageSize, Types
            <4>2. IoTimeout * moved + IoTimeout <= IoTimeout * total BY <4>1, <2>1, Room, Sizes
            <4>3. elapsed' <= PollTimeout + IoTimeout * moved + Larger * signals + idle'
                BY <3>2, <1>9, <2>2 DEF Accounted
            <4> HIDE DEF total
            <4> QED BY <4>2, <4>3, <3>2, <1>4, <1>5, <1>8, <2>1, Sizes
        <3>3. CASE pc = "receiving"
            <4>1. RequestSize + moved \in Nat /\ RequestSize + moved < total
                BY <3>3, Sizes DEF SocketSound, StageSize, Types
            <4>2. IoTimeout * (RequestSize + moved) + IoTimeout <= IoTimeout * total
                BY <4>1, <2>1, Room, Sizes
            <4>3. elapsed' <= PollTimeout + IoTimeout * (RequestSize + moved) + Larger * signals + idle'
                BY <3>3, <1>9, <2>2 DEF Accounted
            <4> HIDE DEF total
            <4> QED BY <4>2, <4>3, <3>3, <1>4, <1>5, <1>8, <2>1, Sizes
        <3> QED BY <3>1, <3>2, <3>3 DEF Tick, Waiting
    <2> QED BY <2>2, <2>3 DEF AttemptBounded
<1>11. TimedOutInFull' BY DEF TimedOutInFull, Tick, Waiting
<1> QED BY <1>1, <1>7, <1>9, <1>10, <1>11

LEMMA StutterKeeps == ASSUME DeadlineInv, UNCHANGED vars PROVE DeadlineInv'
<1> USE DEF DeadlineInv, vars
<1>1. AttemptBounded' /\ PollTimeout' = PollTimeout /\ Larger' = Larger BY BoundKept
<1> QED BY <1>1 DEF Types, SocketSound, Accounted, TimedOutInFull, StageSize

\* The attempt's time is always accounted for: connect_ipv4_with_timeout,
\* send_all and recv_exact, with every signal, delay and failure.
THEOREM DeadlineInvariant == Spec => []DeadlineInv
<1>1. DeadlineInv /\ [Next]_vars => DeadlineInv'
    BY ConnectKeeps, CallFailsKeeps, ResolveKeeps, PollReadyKeeps, TransferKeeps, TimesOutKeeps,
       InterruptedKeeps, TickKeeps, StutterKeeps DEF Next
<1> QED BY InitDeadline, <1>1, PTL DEF Spec

\* No peer holds an attempt longer than the connect deadline, one I/O deadline
\* for each byte of the two frames and one deadline for each signal, unless the
\* connect timeout is negative as an int.
THEOREM AttemptsAreBounded == Spec => []AttemptBounded
<1>1. DeadlineInv => AttemptBounded BY DEF DeadlineInv
<1> QED BY DeadlineInvariant, <1>1, PTL

\* No deadline is reported before the call it is reported for has waited it out.
THEOREM DeadlinesInFull == Spec => []TimedOutInFull
<1>1. DeadlineInv => TimedOutInFull BY DEF DeadlineInv
<1> QED BY DeadlineInvariant, <1>1, PTL
==================================================================================
