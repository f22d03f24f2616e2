-------------------------- MODULE ChannelReadyProofs --------------------------
(***************************************************************************)
(* Theorems of ChannelReady, for any length of a sleep and any timeouts.   *)
(***************************************************************************)
EXTENDS ChannelReady, TLAPS

USE PollAssumption, TimeoutsAssumption

LEMMA IInvInit == Init => IInv
  BY DEF Init, IInv, TypeOK, NotEntered, InLoop, Entered, FailsOnlyAtDeadline,
         ReadyIsNews, Result, ChannelStates

\* Every step keeps the types: the caller's statements, time, the channel.
LEMMA TypeStep == TypeOK /\ NotEntered /\ [Next]_vars => TypeOK'
<1> SUFFICES ASSUME TypeOK, NotEntered, [Next]_vars PROVE TypeOK'
  OBVIOUS
<1> USE DEF TypeOK, ChannelStates, ChannelBecomes
<1>1. CASE EnterWithoutChannel
  BY <1>1 DEF EnterWithoutChannel
<1>2. CASE Enter
  <2>1. channel' \in ChannelStates /\ readySince' \in {-1, now, readySince}
    BY <1>2 DEF Enter
  <2>2. deadline' \in Nat
    BY <1>2 DEF Enter, GetDeadline
  <2> QED BY <1>2, <2>1, <2>2 DEF Enter
<1>3. CASE Test
  BY <1>3 DEF Test, Loop
<1>4. CASE PollState \/ Wake
  BY <1>4 DEF PollState, Wake, NotEntered
<1>5. CASE Tick
  BY <1>5 DEF Tick
<1>6. CASE ChannelMoves
  <2>1. PICK s \in ChannelStates : ChannelBecomes(s)
    BY <1>6 DEF ChannelMoves
  <2>2. readySince' \in {-1, now, readySince}
    BY <2>1
  <2>3. channel' = s /\ readySince' \in Nat \cup {-1}
    BY <2>1, <2>2
  <2> QED BY <1>6, <2>3 DEF ChannelMoves
<1>7. CASE UNCHANGED vars
  BY <1>7 DEF vars
<1> QED BY <1>1, <1>2, <1>3, <1>4, <1>5, <1>6, <1>7 DEF Next, Caller

LEMMA IInvStep == IInv /\ [Next]_vars => IInv'
<1> SUFFICES ASSUME IInv, [Next]_vars PROVE IInv'
  OBVIOUS
<1>0. TypeOK'
  BY TypeStep DEF IInv
<1> USE <1>0 DEF IInv, TypeOK, NotEntered, InLoop, Entered,
                 FailsOnlyAtDeadline, ReadyIsNews, Result, ChannelStates
<1>1. CASE EnterWithoutChannel
  BY <1>1 DEF EnterWithoutChannel
<1>2. CASE Enter
  BY <1>2 DEF Enter, GetDeadline, ChannelBecomes
<1>3. CASE Test
  BY <1>3 DEF Test, Loop
<1>4. CASE PollState
  BY <1>4 DEF PollState
<1>5. CASE Wake
  BY <1>5 DEF Wake
<1>6. CASE Tick
  BY <1>6 DEF Tick
<1>7. CASE ChannelMoves
  BY <1>7 DEF ChannelMoves, ChannelBecomes
<1>8. CASE UNCHANGED vars
  BY <1>8 DEF vars
<1> QED BY <1>1, <1>2, <1>3, <1>4, <1>5, <1>6, <1>7, <1>8 DEF Next, Caller

\* The inductive invariant of the wait.
THEOREM InvariantHolds == Spec => []IInv
  BY IInvInit, IInvStep, PTL DEF Spec

\* Type correctness of the wait, for any timeouts.
THEOREM TypeCorrect == Spec => []TypeOK
<1>1. IInv => TypeOK
  BY DEF IInv
<1> QED BY <1>1, InvariantHolds, PTL

\* A wait that fails has used its whole timeout, whatever the channel did.
THEOREM NeverFailsEarly == Spec => []FailsOnlyAtDeadline
<1>1. IInv => FailsOnlyAtDeadline
  BY DEF IInv
<1> QED BY <1>1, InvariantHolds, PTL

\* The wait outlives its deadline by less than one sleep, whatever the timeout.
THEOREM OvershootIsBounded == Spec => []OvershootBounded
<1>1. IInv => OvershootBounded
  BY DEF IInv, TypeOK, NotEntered, InLoop, Entered, OvershootBounded
<1> QED BY <1>1, InvariantHolds, PTL

\* A success was read at most one sleep ago.
THEOREM SuccessIsFresh == Spec => []SuccessIsRecent
<1>1. IInv => SuccessIsRecent
  BY DEF IInv, TypeOK, NotEntered, InLoop, Entered, SuccessIsRecent
<1> QED BY <1>1, InvariantHolds, PTL

\* A ready channel that is missed became ready during the last sleep.
THEOREM MissIsBounded == Spec => []MissIsRecent
<1>1. IInv => MissIsRecent
  BY DEF IInv, TypeOK, InLoop, Entered, ReadyIsNews, MissIsRecent, Result
<1> QED BY <1>1, InvariantHolds, PTL

\* What remains of the header's promise (interfaces_client.h:169), for every
\* timeout: a channel that is ready from more than one sleep before the timeout
\* on is reported, whatever happened to it before.
THEOREM EarlyReadinessIsReported ==
  Spec => [](pc = "returned" /\ channel = "READY" /\ readySince < timeout - Poll
               => Result)
<1>1. IInv => (pc = "returned" /\ channel = "READY" /\ readySince < timeout - Poll
                 => Result)
  BY DEF IInv, TypeOK, InLoop, Entered, ReadyIsNews, FailsOnlyAtDeadline, Result
<1> QED BY <1>1, InvariantHolds, PTL

-----------------------------------------------------------------------------
(***************************************************************************)
(* The wait ends: the part of the argument that needs no fairness.         *)
(***************************************************************************)
\* Where the caller is between two ticks of the clock.
Rank ==
  CASE pc = "enter" -> 5
    [] pc = "sleep" /\ now >= wakeAt -> 4
    [] pc = "test" -> 3
    [] pc = "poll" -> 2
    [] pc = "sleep" /\ now < wakeAt -> 1
    [] OTHER -> 0

\* How much of the wait is left: ticks until the latest return, and the
\* statements before the next one.
Left == 6 * (timeout + Poll - now) + Rank

LEMMA RankType == TypeOK => Rank \in 0 .. 5
  BY DEF Rank, TypeOK

\* A statement comes before the next one of its tick, and a tick is worth more
\* than all the statements that follow it.
LEMMA TicksOutweighStatements ==
  ASSUME NEW d \in Int, NEW e \in Int, NEW r \in 0 .. 5, NEW s \in 0 .. 5,
         \/ e = d /\ s < r
         \/ e = d - 1 /\ s <= r + 3
  PROVE  6 * e + s < 6 * d + r
  OBVIOUS

LEMMA OneLater ==
  ASSUME NEW b \in Int, NEW c \in Int, NEW t \in Int
  PROVE  b + c - (t + 1) = (b + c - t) - 1
  OBVIOUS

LEMMA LeftIsUsed ==
  ASSUME IInv, IInv', UNCHANGED timeout,
         \/ now' = now /\ Rank' < Rank
         \/ now' = now + 1 /\ Rank' <= Rank + 3
  PROVE  Left' < Left
<1>1. /\ now \in Nat /\ timeout \in Nat /\ Rank \in 0 .. 5 /\ TypeOK'
      /\ now' \in Nat
  BY RankType DEF IInv, TypeOK
<1>2. Rank' \in 0 .. 5
  BY <1>1 DEF Rank, TypeOK
<1> DEFINE d == timeout + Poll - now
           e == timeout' + Poll - now'
<1>3. d \in Int /\ e \in Int
  BY <1>1
<1>4. (now' = now => e = d) /\ (now' = now + 1 => e = d - 1)
  <2>1. timeout' = timeout
    OBVIOUS
  <2>2. ASSUME now' = now PROVE e = d
    BY <2>1, <2>2
  <2>3. ASSUME now' = now + 1 PROVE e = d - 1
    <3>1. timeout + Poll - (now + 1) = d - 1
      BY <1>1, OneLater
    <3>2. e = timeout + Poll - (now + 1)
      BY <2>1, <2>3, Zenon
    <3> QED BY <3>1, <3>2, Zenon
  <2> QED BY <2>2, <2>3
<1>5. Left = 6 * d + Rank /\ Left' = 6 * e + Rank'
  BY DEF Left
<1> HIDE DEF d, e
<1>6. 6 * e + Rank' < 6 * d + Rank
  <2>1. CASE now' = now /\ Rank' < Rank
    BY <1>1, <1>2, <1>3, <1>4, <2>1, TicksOutweighStatements
  <2>2. CASE now' = now + 1 /\ Rank' <= Rank + 3
    BY <1>1, <1>2, <1>3, <1>4, <2>2, TicksOutweighStatements
  <2> QED BY <2>1, <2>2
<1> QED BY <1>5, <1>6

\* The caller's statements and the clock use up what is left; the channel
\* cannot put it off.
LEMMA StepUsesLeft ==
  ASSUME IInv, IInv', Next
  PROVE  Left' < Left \/ (ChannelMoves /\ Left' = Left)
<1>1. CASE EnterWithoutChannel \/ Enter
  <2>1. /\ pc = "enter" /\ pc' \in {"returned", "test"}
        /\ now' = now /\ timeout' = timeout
    BY <1>1 DEF EnterWithoutChannel, Enter
  <2>2. Rank = 5 /\ Rank' \in {0, 3}
    BY <2>1 DEF Rank
  <2> QED BY <2>1, <2>2, LeftIsUsed
<1>2. CASE Test
  <2>1. /\ pc = "test" /\ pc' \in {"returned", "poll"}
        /\ now' = now /\ timeout' = timeout
    BY <1>2 DEF Test, Loop
  <2>2. Rank = 3 /\ Rank' \in {0, 2}
    BY <2>1 DEF Rank
  <2> QED BY <2>1, <2>2, LeftIsUsed
<1>3. CASE PollState
  <2>1. /\ pc = "poll" /\ pc' = "sleep" /\ now' < wakeAt'
        /\ now' = now /\ timeout' = timeout
    BY <1>3 DEF PollState, IInv, TypeOK
  <2>2. Rank = 2 /\ Rank' = 1
    BY <2>1 DEF Rank, IInv, TypeOK
  <2> QED BY <2>1, <2>2, LeftIsUsed
<1>4. CASE Wake
  <2>1. /\ pc = "sleep" /\ now = wakeAt /\ pc' = "test"
        /\ now' = now /\ timeout' = timeout
    BY <1>4 DEF Wake
  <2>2. Rank = 4 /\ Rank' = 3
    BY <2>1 DEF Rank, IInv, TypeOK
  <2> QED BY <2>1, <2>2, LeftIsUsed
<1>5. CASE Tick
  <2>1. /\ pc = "sleep" /\ now < wakeAt /\ pc' = "sleep" /\ now' = now + 1
        /\ timeout' = timeout
    BY <1>5 DEF Tick
  <2>2. Rank = 1 /\ Rank' \in {1, 4}
    BY <2>1 DEF Rank, IInv, TypeOK
  <2> QED BY <2>1, <2>2, LeftIsUsed
<1>6. CASE ChannelMoves
  <2>1. UNCHANGED <<now, timeout, wakeAt, pc>>
    BY <1>6 DEF ChannelMoves
  <2>2. Rank' = Rank
    BY <2>1 DEF Rank
  <2>3. Left' = Left
    BY <2>1, <2>2 DEF Left
  <2> QED BY <1>6, <2>3
<1> QED BY <1>1, <1>2, <1>3, <1>4, <1>5, <1>6 DEF Next, Caller

\* A wait of timeout ticks takes at most 6 * (timeout + Poll) + 5 steps of the
\* caller and the clock, however often the channel changes: what is left is a
\* natural number that each of those steps reduces and no other step raises.
\* And a sleeping caller can always wake or wait one tick more.
THEOREM TheWaitRunsOut ==
  Spec => /\ [](Left \in Nat /\ (pc = "sleep" => now <= wakeAt))
          /\ [][Left' < Left \/ (ChannelMoves /\ Left' = Left)]_vars
<1>1. IInv => Left \in Nat /\ (pc = "sleep" => now <= wakeAt)
  <2> SUFFICES ASSUME IInv
               PROVE  Left \in Nat /\ (pc = "sleep" => now <= wakeAt)
    OBVIOUS
  <2>1. now <= timeout + Poll /\ (pc = "sleep" => now <= wakeAt)
    BY DEF IInv, TypeOK, NotEntered, InLoop, Entered
  <2>2. Rank \in 0 .. 5 /\ now \in Nat /\ timeout \in Nat
    BY RankType DEF IInv, TypeOK
  <2> DEFINE d == timeout + Poll - now
  <2>3. d \in Nat
    BY <2>1, <2>2
  <2>4. Left = 6 * d + Rank
    BY DEF Left
  <2> HIDE DEF d
  <2> QED BY <2>1, <2>2, <2>3, <2>4
<1>2. IInv /\ IInv' /\ [Next]_vars =>
        [Left' < Left \/ (ChannelMoves /\ Left' = Left)]_vars
  BY StepUsesLeft
<1> QED BY <1>1, <1>2, InvariantHolds, PTL DEF Spec
=============================================================================
