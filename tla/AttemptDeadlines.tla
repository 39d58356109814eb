---------------------------- MODULE AttemptDeadlines ----------------------------
(***************************************************************************)
(* How long one attempt of AuthenticatedTcpAttemptExecutor can take: the   *)
(* non-blocking connect and its poll (connect_ipv4_with_timeout), then the *)
(* loops of send_all and recv_exact on a socket with send and receive      *)
(* timeouts (set_socket_io_timeout), against a clock.                      *)
(*                                                                         *)
(* Every deadline is one system call's: a signal (EINTR) makes poll, send  *)
(* or recv start again with the whole timeout, and so does every byte that *)
(* moves.  The peer decides when bytes move, the kernel when the connect   *)
(* resolves, if ever.                                                      *)
(***************************************************************************)
EXTENDS Integers

CONSTANTS
    ConnectTimeouts,            \* what connect_timeout_ may be, in milliseconds
    IoTimeout,
    IntModulus,                 \* the number of values of an int
    RequestSize, ReplySize,     \* bytes of the request frame and of the reply
    MaxSignals,                 \* bound on the signals the thread gets
    Horizon                     \* the clock stops here

\* The constructor's checks, and a clock that outlasts the bounded waits.
ASSUME TimeoutsPositive ==
    /\ ConnectTimeouts \subseteq Nat \ {0} /\ IoTimeout \in Nat \ {0}
    /\ RequestSize \in Nat \ {0} /\ ReplySize \in Nat \ {0} /\ MaxSignals \in Nat /\ Horizon \in Nat
    /\ IntModulus \in {2 * k : k \in 1..Horizon}

VARIABLES
    pc,             \* "start", "connecting", "sending", "receiving", or how it
                    \* ended: "done", "failed", "timed_out"
    link,           \* the kernel's view: "none", "pending", "up", "refused"
    nonblocking,    \* O_NONBLOCK on the socket
    moved,          \* bytes moved in this stage
    idle,           \* how long the current system call has waited
    elapsed,        \* how long the attempt has taken
    signals,        \* how many signals it got
    connect_timeout \* the executor's connect_timeout_

vars == <<pc, link, nonblocking, moved, idle, elapsed, signals, connect_timeout>>

\* static_cast<int>(timeout.count()); poll waits for ever on a negative value.
PollTimeout == ((connect_timeout + IntModulus \div 2) % IntModulus) - IntModulus \div 2

StageSize == IF pc = "sending" THEN RequestSize ELSE ReplySize
--------------------------------------------------------------------------------
Init ==
    /\ pc = "start"
    /\ link = "none"
    /\ nonblocking = FALSE
    /\ moved = 0 /\ idle = 0 /\ elapsed = 0 /\ signals = 0
    /\ connect_timeout \in ConnectTimeouts

Fail == pc' = "failed" /\ UNCHANGED <<link, nonblocking, moved, idle, elapsed, signals, connect_timeout>>

\* Mutant: the socket stays non-blocking.
Connected_KeepsFlags ==
    /\ pc' = "sending" /\ idle' = 0
    /\ UNCHANGED <<nonblocking, moved, elapsed, signals, connect_timeout>>

\* The flags are restored, the timeouts set, and the request goes out.
Connected ==
    /\ pc' = "sending" /\ idle' = 0
    /\ nonblocking' = FALSE
    /\ UNCHANGED <<moved, elapsed, signals, connect_timeout>>

\* ::connect on a non-blocking socket succeeds, or is in progress.
Connect ==
    /\ pc = "start"
    /\ \/ link' = "up" /\ Connected
       \/ /\ link' = "pending"
          /\ pc' = "connecting"
          /\ nonblocking' = TRUE
          /\ UNCHANGED <<moved, idle, elapsed, signals, connect_timeout>>

\* A call before, during or after the connect fails: socket, fcntl, inet_pton,
\* connect, getsockopt or setsockopt; or the peer resets or closes.
CallFails ==
    /\ pc \in {"start", "connecting", "sending", "receiving"}
    /\ Fail

\* The kernel gets an answer from the peer's host.
Resolve ==
    /\ pc = "connecting" /\ link = "pending"
    /\ link' \in {"up", "refused"}
    /\ UNCHANGED <<pc, nonblocking, moved, idle, elapsed, signals, connect_timeout>>

\* poll reports the socket, and SO_ERROR says which way the connect went.
PollReady ==
    /\ pc = "connecting" /\ link # "pending"
    /\ IF link = "refused" THEN Fail ELSE Connected /\ UNCHANGED link

\* send or recv moves n bytes, and the loop goes on or is finished.
Transfer(n) ==
    /\ pc \in {"sending", "receiving"}
    /\ n <= StageSize - moved
    /\ idle' = 0
    /\ IF moved + n < StageSize
       THEN moved' = moved + n /\ UNCHANGED pc
       ELSE moved' = 0 /\ pc' = IF pc = "sending" THEN "receiving" ELSE "done"
    /\ UNCHANGED <<link, nonblocking, elapsed, signals, connect_timeout>>

Waiting == pc \in {"sending", "receiving"} \/ (pc = "connecting" /\ link = "pending")

\* Mutant: the socket timeouts are not set.
CallTimeout_NoIoDeadline == IF pc = "connecting" THEN PollTimeout ELSE Horizon

\* The timeout of the call in progress; Horizon stands for none.
CallTimeout ==
    CASE pc = "connecting" -> IF PollTimeout < 0 THEN Horizon ELSE PollTimeout
      [] pc # "connecting" -> IF nonblocking THEN 0 ELSE IoTimeout

\* The call returns 0 (poll) or EAGAIN (send, recv) and the function throws.
TimesOut ==
    /\ Waiting
    /\ idle = CallTimeout /\ idle < Horizon
    /\ pc' = "timed_out"
    /\ UNCHANGED <<link, nonblocking, moved, idle, elapsed, signals, connect_timeout>>

\* The call returns EINTR and is made again, with the whole timeout.
Interrupted ==
    /\ Waiting
    /\ signals < MaxSignals
    /\ signals' = signals + 1
    /\ idle' = 0
    /\ UNCHANGED <<pc, link, nonblocking, moved, elapsed, connect_timeout>>

\* Time passes inside a call that waits.
Tick ==
    /\ Waiting
    /\ idle < CallTimeout
    /\ idle' = idle + 1
    /\ elapsed' = IF elapsed < Horizon THEN elapsed + 1 ELSE elapsed
    /\ UNCHANGED <<pc, link, nonblocking, moved, signals, connect_timeout>>

Next ==
    \/ Connect
    \/ CallFails
    \/ Resolve
    \/ PollReady
    \/ \E n \in 1..StageSize : Transfer(n)
    \/ TimesOut
    \/ Interrupted
    \/ Tick

Spec == Init /\ [][Next]_vars

\* The caller's thread runs and time passes; nothing is assumed of the peer, the
\* network or the signals but their bound.
FairSpec ==
    /\ Spec
    /\ WF_vars(Connect) /\ WF_vars(PollReady) /\ WF_vars(TimesOut)
    /\ WF_vars(Tick)
--------------------------------------------------------------------------------
Larger == IF PollTimeout > IoTimeout THEN PollTimeout ELSE IoTimeout

\* What the deadlines bound: the connect, then every byte of the request and the
\* reply may cost a whole I/O timeout, and every signal one timeout more.  No
\* peer can hold an attempt longer than this, unless the connect timeout is
\* negative as poll's int (tcp.hpp:147).
AttemptBounded ==
    PollTimeout >= 0 =>
        elapsed <= PollTimeout + IoTimeout * (RequestSize + ReplySize) + Larger * signals

\* A deadline is never reported early: the call it is reported for has waited for
\* the whole time it was given, however the connect, the flags and the signals
\* before it went, and a poll without a deadline is never reported.  For the
\* connect that time is what static_cast<int> leaves of the timeout (tcp.hpp:147):
\* one that wraps to a short time counts as waited in full after the short one.
TimedOutInFull ==
    pc = "timed_out" =>
        IF link = "up" THEN idle >= IoTimeout ELSE PollTimeout >= 0 /\ idle >= PollTimeout

\* Every attempt whose connect has a deadline ends, with the peer silent from any
\* point on; without one, every attempt that got its connection does.
AttemptEnds ==
    (PollTimeout >= 0 \/ link = "up") ~> (pc \in {"done", "failed", "timed_out"})
================================================================================
