---------------------------- MODULE ChannelReady ----------------------------
(***************************************************************************)
(* InterfacesClient::WaitForChannelReady: a poll of the gRPC channel's     *)
(* state against a deadline (source/robot/client/interfaces_client.cpp).   *)
(*                                                                         *)
(* Time is discrete.  The caller's statements take no time, the sleep      *)
(* between two polls takes Poll ticks (one second), and timeouts need not  *)
(* be multiples of it.  The channel is external: it connects only when     *)
(* GetState(true) asks it to, fails and retries by itself, and falls back  *)
(* to IDLE when an established connection is lost.  The system clock is    *)
(* assumed not to be set during the wait.                                  *)
(***************************************************************************)
EXTENDS Integers

CONSTANTS
  Poll,        \* ticks of one sleep
  Timeouts     \* the values of timeout_ms, in ticks

ASSUME PollAssumption == Poll \in Nat \ {0}
ASSUME TimeoutsAssumption == Timeouts \subseteq Nat

ChannelStates == {"IDLE", "CONNECTING", "READY", "TRANSIENT_FAILURE"}

VARIABLES
  now,        \* ticks since the call
  channel,    \* the channel's state, NULL when channel_ is null
  timeout,    \* the argument, timeout_ms
  deadline,   \* the local `deadline`
  state,      \* the local `state`: what the last GetState returned
  polledAt,   \* when it was read
  wakeAt,     \* end of the current sleep
  pc,
  readySince  \* history: since when the channel is ready, -1 when it is not

vars == <<now, channel, timeout, deadline, state, polledAt, wakeAt, pc, readySince>>

TypeOK ==
  /\ now \in Nat /\ polledAt \in Nat /\ wakeAt \in Nat
  /\ channel \in ChannelStates \cup {"NULL"} /\ state \in ChannelStates
  /\ timeout \in Timeouts /\ deadline \in Nat
  /\ pc \in {"enter", "test", "poll", "sleep", "returned"}
  /\ readySince \in Nat \cup {-1}

Init ==
  /\ now = 0 /\ polledAt = 0 /\ wakeAt = 0
  /\ channel \in ChannelStates \cup {"NULL"}
  /\ state = "IDLE"
  /\ timeout \in Timeouts /\ deadline = 0
  /\ pc = "enter"
  /\ readySince = IF channel = "READY" THEN 0 ELSE -1

ChannelBecomes(s) ==
  /\ channel' = s
  /\ readySince' = CASE s # "READY" -> -1
                      [] s = "READY" /\ channel # "READY" -> now
                      [] OTHER -> readySince

\* Fault: the timeout is taken from the time instead of added.
GetDeadlineBefore(ticks) == now - ticks

GetDeadline(ticks) == now + ticks

EnterWithoutChannel ==
  /\ pc = "enter" /\ channel = "NULL"
  /\ pc' = "returned"
  /\ UNCHANGED <<now, channel, timeout, deadline, state, polledAt, wakeAt,
                 readySince>>

\* GetState(true): the state, and a push to an idle channel.
Enter ==
  /\ pc = "enter" /\ channel # "NULL"
  /\ deadline' = GetDeadline(timeout)
  /\ state' = channel /\ polledAt' = now
  /\ ChannelBecomes(IF channel = "IDLE" THEN "CONNECTING" ELSE channel)
  /\ pc' = "test"
  /\ UNCHANGED <<now, timeout, wakeAt>>

Loop(while) ==
  /\ pc = "test"
  /\ pc' = IF while THEN "poll" ELSE "returned"
  /\ UNCHANGED <<now, channel, timeout, deadline, state, polledAt, wakeAt,
                 readySince>>

\* Fault: the deadline itself still counts as in time.
TestLate == Loop(state # "READY" /\ now <= deadline)

\* Fault: a failed attempt to connect ends the wait.
TestGivesUp ==
  Loop(state \notin {"READY", "TRANSIENT_FAILURE"} /\ now < deadline)

Test == Loop(state # "READY" /\ now < deadline)

\* Fault: the loop sleeps twice.
PollStateSlowly ==
  /\ pc = "poll"
  /\ state' = channel /\ polledAt' = now
  /\ wakeAt' = now + 2 * Poll
  /\ pc' = "sleep"
  /\ UNCHANGED <<now, channel, timeout, deadline, readySince>>

\* GetState(false), then the sleep begins.
PollState ==
  /\ pc = "poll"
  /\ state' = channel /\ polledAt' = now
  /\ wakeAt' = now + Poll
  /\ pc' = "sleep"
  /\ UNCHANGED <<now, channel, timeout, deadline, readySince>>

\* Fault: the loop waits for the channel's state to change, without deadline.
WakeOnChange ==
  /\ pc = "sleep" /\ now = wakeAt /\ channel # state
  /\ pc' = "test"
  /\ UNCHANGED <<now, channel, timeout, deadline, state, polledAt, wakeAt,
                 readySince>>

Wake ==
  /\ pc = "sleep" /\ now = wakeAt
  /\ pc' = "test"
  /\ UNCHANGED <<now, channel, timeout, deadline, state, polledAt, wakeAt,
                 readySince>>

Caller == EnterWithoutChannel \/ Enter \/ Test \/ PollState \/ Wake

-----------------------------------------------------------------------------
\* External: time, which passes only while the caller sleeps, and the channel.
Tick ==
  /\ pc = "sleep" /\ now < wakeAt
  /\ now' = now + 1
  /\ UNCHANGED <<channel, timeout, deadline, state, polledAt, wakeAt, pc,
                 readySince>>

ChannelMoves ==
  /\ pc # "returned"
  /\ \E s \in ChannelStates :
       /\ <<channel, s>> \in {<<"CONNECTING", "READY">>,
                              <<"CONNECTING", "TRANSIENT_FAILURE">>,
                              <<"TRANSIENT_FAILURE", "CONNECTING">>,
                              <<"READY", "IDLE">>}
       /\ ChannelBecomes(s)
  /\ UNCHANGED <<now, timeout, deadline, state, polledAt, wakeAt, pc>>

Next == Caller \/ Tick \/ ChannelMoves

Spec == Init /\ [][Next]_vars /\ WF_vars(Caller) /\ WF_vars(Tick)

-----------------------------------------------------------------------------
Result == state = "READY"

\* A wait for a channel that exists fails only when its whole timeout is used,
\* through any number of failed attempts to connect.
FailsOnlyAtDeadline ==
  pc = "returned" /\ channel # "NULL" /\ ~Result => now >= timeout

\* The wait ends less than one poll after its deadline.
OvershootBounded == pc = "returned" => now < timeout + Poll

\* A success is at most one poll old: the channel was ready that recently.
\* The caller cannot count on more; it may have failed since.
SuccessIsRecent == pc = "returned" /\ Result => now - polledAt <= Poll

\* What the last sleep may hide is bounded too: a wait that fails although the
\* channel is ready missed it for one poll at most.
MissIsRecent ==
  pc = "returned" /\ channel = "READY" /\ ~Result => now - readySince <= Poll

\* interfaces_client.h:169, "True if channel became ready within timeout": in
\* particular, when it did so in time and is ready still as the wait returns.
ReadyWithinTimeoutIsReported ==
  pc = "returned" /\ channel = "READY" /\ readySince <= timeout => Result

\* The wait returns, whatever the channel does.
Returns == <>(pc = "returned")

-----------------------------------------------------------------------------
(***************************************************************************)
(* The inductive invariant.                                                *)
(***************************************************************************)
\* Nothing has happened before the call, and without a channel nothing does.
NotEntered ==
  pc = "enter" \/ channel = "NULL" =>
    now = 0 /\ polledAt = 0 /\ pc \in {"enter", "returned"}

Entered == pc # "enter" /\ channel # "NULL"

\* The loop is entered, and its body runs, only before the deadline; its state
\* is the one of the last poll, one sleep ago at most.
InLoop ==
  Entered =>
    /\ deadline = timeout
    /\ polledAt < timeout \/ polledAt = 0
    /\ pc = "poll" => now < timeout /\ state # "READY"
    /\ pc = "sleep" => /\ polledAt < timeout /\ wakeAt = polledAt + Poll
                       /\ polledAt <= now /\ now <= wakeAt
    /\ pc \in {"test", "poll", "returned"} =>
         polledAt <= now /\ now <= polledAt + Poll
    /\ pc \in {"test", "poll", "returned"} /\ polledAt = timeout =>
         now = polledAt

\* A channel that is ready although the last poll found it otherwise became so
\* after that poll.
ReadyIsNews ==
  channel = "READY" =>
    /\ readySince \in 0 .. now
    /\ state # "READY" => readySince >= polledAt

IInv == TypeOK /\ NotEntered /\ InLoop /\ FailsOnlyAtDeadline /\ ReadyIsNews
=============================================================================
