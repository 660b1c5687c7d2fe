--------------------------- MODULE DeadlinesProofs ---------------------------
(***************************************************************************)
(* Proofs about the progress-aware deadlines: what a window and the rate   *)
(* floor guarantee holds for any windows, rate, body and handler, and for  *)
(* any number of requests on a connection.                                 *)
(***************************************************************************)
EXTENDS Deadlines, TLAPS

\* How long a body may be open before a read that the rate floor accepts.
LongestBody == Max({ReadStall, MaxBody \div MinRate})

PcValues == {"idle", "handling", "reading", "done", "rejected", "responding", "writing",
             "flushing", "cut", "interimCut"}

TypeOK ==
    /\ now \in Nat /\ since \in Nat /\ busy \in Nat /\ read \in 0 .. MaxBody
    /\ pc \in PcValues
    /\ supported \in BOOLEAN
    /\ readDeadline \in Int /\ writeDeadline \in Int

\* A blocked read began a window ago at most, where the transport takes deadlines.
ReadWindow ==
    /\ ~supported => readDeadline = Never
    /\ pc = "reading" /\ supported =>
          readDeadline = since + ReadStall /\ since <= now /\ now <= readDeadline

\* A blocked write has a window of its own.
WriteWindow ==
    /\ ~supported => writeDeadline = Never
    /\ pc \in {"writing", "flushing"} /\ supported => writeDeadline = since + WriteStall

\* A deadline that an earlier response left behind is gone.
IntakeIsUntimed == pc \in {"handling", "reading"} => writeDeadline = Never

\* Between two reads the body has kept the rate, apart from the handler's own time.
RateIsKept ==
    supported /\ MinRate > 0 =>
        /\ pc = "handling" => now <= LongestBody + busy
        /\ pc = "reading" => since <= LongestBody + busy

\* The inductive invariant.
DeadlineInv ==
    /\ TypeOK /\ ReadWindow /\ WriteWindow /\ IntakeIsUntimed /\ RateIsKept
    /\ StallIsJustified /\ ResponseGetsItsWindow

-----------------------------------------------------------------------------
(* Arithmetic *)

\* What a body of that many bytes, at the minimum rate, can last.
LEMMA RateBounds ==
    ASSUME NEW t \in Nat, NEW bytes \in Nat, NEW rate \in Nat \ {0}, t * rate <= bytes
    PROVE  bytes \div rate \in Nat /\ t <= bytes \div rate
  OBVIOUS

\* The longer of two times.
LEMMA MaxOfTwo ==
    ASSUME NEW a \in Nat, NEW b \in Nat
    PROVE  Max({a, b}) \in Nat /\ a <= Max({a, b}) /\ b <= Max({a, b})
<1>1. \E x \in {a, b} : \A y \in {a, b} : x >= y
  OBVIOUS
<1>2. Max({a, b}) \in {a, b} /\ \A y \in {a, b} : Max({a, b}) >= y
  BY <1>1 DEF Max
<1> QED
  BY <1>2

-----------------------------------------------------------------------------
(* The invariant *)

\* Init satisfies the invariant.
LEMMA DeadlineInit == Init => DeadlineInv
<1> SUFFICES ASSUME Init PROVE DeadlineInv
  OBVIOUS
<1>1. TypeOK
  BY PolicyAssumption DEF Init, TypeOK, PcValues, Never
<1> QED
  BY <1>1 DEF Init, DeadlineInv, ReadWindow, WriteWindow, IntakeIsUntimed, RateIsKept,
              StallIsJustified, ResponseGetsItsWindow

\* The longest body lasts at least one window, and at least as long as its bytes allow.
LEMMA LongestBodyBounds ==
    ASSUME MinRate > 0
    PROVE  /\ LongestBody \in Nat /\ ReadStall <= LongestBody
           /\ \A t \in Nat, bytes \in 0 .. MaxBody : t * MinRate <= bytes => t <= LongestBody
<1>1. MinRate \in Nat \ {0} /\ MaxBody \in Nat /\ ReadStall \in Nat
  BY PolicyAssumption
<1>2. MaxBody \div MinRate \in Nat
  BY <1>1, RateBounds, 0 * MinRate <= MaxBody
<1>3. ASSUME NEW t \in Nat, NEW bytes \in 0 .. MaxBody, t * MinRate <= bytes
      PROVE  t <= MaxBody \div MinRate
  <2>1. t * MinRate <= MaxBody
    BY <1>1, <1>3
  <2> QED
    BY <1>1, <2>1, RateBounds
<1> QED
  BY <1>1, <1>2, <1>3, MaxOfTwo DEF LongestBody

\* A new request, and what the body goes through.
LEMMA BodySteps ==
    ASSUME DeadlineInv,
           \/ Accept \/ Continue \/ Read \/ EndOfBody \/ ReadTimeout
           \/ \E count \in 1 .. MaxBody : Deliver(count)
    PROVE  DeadlineInv'
<1> USE PolicyAssumption DEF DeadlineInv
<1>1. CASE Accept
  <2>1. LongestBody \in Nat \/ ~(MinRate > 0)
    BY LongestBodyBounds
  <2> QED
    BY <1>1, <2>1 DEF Accept, TypeOK, PcValues, Never, WriteDeadlineAtStart, ReadWindow, WriteWindow,
      IntakeIsUntimed, RateIsKept, StallIsJustified, ResponseGetsItsWindow
<1>2. CASE Continue
  BY <1>2 DEF Continue, Expired, TypeOK, PcValues, ReadWindow, WriteWindow,
      IntakeIsUntimed, RateIsKept, StallIsJustified, ResponseGetsItsWindow
<1>3. CASE Read
  BY <1>3 DEF Read, Armed, TypeOK, PcValues, ReadWindow, WriteWindow,
      IntakeIsUntimed, RateIsKept, StallIsJustified, ResponseGetsItsWindow
<1>4. CASE EndOfBody
  BY <1>4 DEF EndOfBody, TypeOK, PcValues, ReadWindow, WriteWindow,
      IntakeIsUntimed, RateIsKept, StallIsJustified, ResponseGetsItsWindow
<1>5. CASE ReadTimeout
  BY <1>5 DEF ReadTimeout, Expired, TypeOK, PcValues, ReadWindow, WriteWindow,
      IntakeIsUntimed, RateIsKept, StallIsJustified, ResponseGetsItsWindow
<1>6. ASSUME NEW count \in 1 .. MaxBody, Deliver(count) PROVE DeadlineInv'
  <2>1. TypeOK' /\ ReadWindow' /\ WriteWindow' /\ IntakeIsUntimed' /\ ResponseGetsItsWindow'
    BY <1>6 DEF Deliver, TypeOK, PcValues, ReadWindow, WriteWindow, IntakeIsUntimed,
                ResponseGetsItsWindow
  <2>2. StallIsJustified'
    BY <1>6 DEF Deliver, TooSlow, StallIsJustified
  <2>3. ASSUME supported, MinRate > 0, pc' = "handling" PROVE now' <= LongestBody + busy'
    <3>1. now <= ReadStall \/ read' >= now * MinRate
      <4>1. ~TooSlow(read')
        BY <1>6, <2>3, Zenon DEF Deliver
      <4> QED
        BY <2>1, <2>3, <4>1 DEF TooSlow, TypeOK
    <3>2. now <= LongestBody
      BY <2>1, <2>3, <3>1, LongestBodyBounds DEF TypeOK
    <3> QED
      BY <1>6, <2>3, <3>2, LongestBodyBounds DEF Deliver, TypeOK
  <2>4. RateIsKept'
    BY <1>6, <2>3 DEF Deliver, RateIsKept
  <2> QED
    BY <2>1, <2>2, <2>4
<1> QED
  BY <1>1, <1>2, <1>3, <1>4, <1>5, <1>6

\* What the response goes through.
LEMMA ResponseSteps ==
    ASSUME DeadlineInv, Write \/ Written \/ Finish \/ Flushed \/ WriteTimeout
    PROVE  DeadlineInv'
<1> USE PolicyAssumption DEF DeadlineInv, TypeOK, PcValues, ReadWindow, WriteWindow, IntakeIsUntimed,
      RateIsKept, StallIsJustified, ResponseGetsItsWindow
<1>1. CASE Write \/ Finish
  BY <1>1 DEF Write, Finish, Armed
<1>2. CASE Written \/ Flushed
  BY <1>2 DEF Written, Flushed
<1>3. CASE WriteTimeout
  BY <1>3 DEF WriteTimeout, Expired
<1> QED
  BY <1>1, <1>2, <1>3

\* Time passes: a blocked call stops at its deadline, and every second counts against
\* a stalled or dripping body.
LEMMA TimeSteps ==
    ASSUME DeadlineInv, Wait \/ Work
    PROVE  DeadlineInv'
<1> USE PolicyAssumption DEF DeadlineInv
<1>1. TypeOK'
  BY DEF Wait, Work, TypeOK
<1>2. ReadWindow' /\ WriteWindow' /\ IntakeIsUntimed'
  BY DEF Wait, Work, Blocked, Expired, TypeOK, ReadWindow, WriteWindow, IntakeIsUntimed, Never
<1>3. RateIsKept'
  <2>1. CASE MinRate > 0
    <3>1. LongestBody \in Nat /\ now \in Nat /\ busy \in Nat /\ since \in Nat
      BY <2>1, LongestBodyBounds DEF TypeOK
    <3>2. CASE Wait
      BY <3>1, <3>2 DEF Wait, Blocked, RateIsKept
    <3>3. CASE Work
      BY <3>1, <3>3 DEF Work, Blocked, RateIsKept
    <3> QED
      BY <3>2, <3>3
  <2> QED
    BY <2>1 DEF RateIsKept
<1>4. ResponseGetsItsWindow'
  BY DEF Wait, Work, Blocked, ResponseGetsItsWindow
<1>5. StallIsJustified'
  <2> SUFFICES ASSUME pc' = "rejected" PROVE StallIsJustified'
    BY DEF StallIsJustified
  <2>1. Work /\ pc = "rejected" /\ now' = now + 1 /\ since' = since /\ read' = read
    BY DEF Wait, Work, Blocked
  <2>2. (now + 1) * MinRate = now * MinRate + MinRate
    BY DEF TypeOK
  <2>3. now * MinRate \in Nat /\ now \in Nat /\ since \in Nat /\ read \in Nat
    BY DEF TypeOK
  <2> QED
    BY <2>1, <2>2, <2>3 DEF StallIsJustified
<1> QED
  BY <1>1, <1>2, <1>3, <1>4, <1>5

\* Every step keeps the invariant.
LEMMA DeadlineStep == DeadlineInv /\ [Next]_vars => DeadlineInv'
<1> SUFFICES ASSUME DeadlineInv, [Next]_vars PROVE DeadlineInv'
  OBVIOUS
<1>1. CASE Next
  BY <1>1, BodySteps, ResponseSteps, TimeSteps DEF Next
<1>2. CASE UNCHANGED vars
  BY <1>2 DEF vars, DeadlineInv, TypeOK, ReadWindow, WriteWindow, IntakeIsUntimed, RateIsKept,
              StallIsJustified, ResponseGetsItsWindow
<1> QED
  BY <1>1, <1>2

\* The inductive invariant holds in every reachable state.
THEOREM DeadlineInvariance == Spec => []DeadlineInv
BY DeadlineInit, DeadlineStep, PTL DEF Spec

-----------------------------------------------------------------------------
(* The results *)

\* Whatever the windows and the rate, a body is cut only when one read waited a whole
\* window for nothing or the body is below the rate floor (deadlineBody.Read, checkRate).
THEOREM CutsAreJustified == Spec => []StallIsJustified
<1>1. DeadlineInv => StallIsJustified
  BY DEF DeadlineInv
<1> QED
  BY <1>1, DeadlineInvariance, PTL

\* A client cannot hold a request open by dripping bytes: the bound follows from the
\* window of the last read and the rate kept before it.
THEOREM HoldsAreBounded == Spec => []HoldIsBounded
<1>1. DeadlineInv => HoldIsBounded
  <2> SUFFICES ASSUME DeadlineInv, pc = "reading", supported, MinRate > 0
               PROVE  now <= LongestBody + ReadStall + busy
    BY DEF HoldIsBounded, LongestBody
  <2> QED
    BY PolicyAssumption, LongestBodyBounds DEF DeadlineInv, TypeOK, ReadWindow, RateIsKept
<1> QED
  BY <1>1, DeadlineInvariance, PTL

\* Every write of a response waits a whole window before it is cut, also on a connection
\* that is kept alive (deadlineWriter, wrap).
THEOREM ResponsesGetTheirWindow == Spec => []ResponseGetsItsWindow
<1>1. DeadlineInv => ResponseGetsItsWindow
  BY DEF DeadlineInv
<1> QED
  BY <1>1, DeadlineInvariance, PTL
=============================================================================
