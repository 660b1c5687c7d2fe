----------------------- MODULE ConversionServiceProofs -----------------------
(***************************************************************************)
(* What a conversion tells its caller is true, and an output is never      *)
(* replaced, however many conversions aim at one path and whenever their   *)
(* contexts end or their commands hang.                                    *)
(***************************************************************************)
EXTENDS ConversionService, TLAPS

\* The command of a conversion: no child outlives it, and "canceled" has one cause only.
CommandInv(c) ==
    /\ run[c].pc \in {"idle", "check"} => run[c].child = "none"
    /\ run[c].waitCh # "none" => run[c].child \in {"ok", "exit", "wait", "killed"}
    /\ run[c].pc = "await" => run[c].child # "running"
    /\ run[c].pc = "returned" /\ run[c].child # "none" => run[c].waitCh # "none"
    /\ run[c].cause = "canceled" => ctx[c] = "canceled"
    /\ run[c].outcome = "canceled" => ctx[c] = "canceled"

Attempted == {"encode", "verify", "mediaCheck", "mediaLink"}

\* The attempts behind a conversion in state s.
AttemptsOK(s) ==
    CASE s.pc \in Attempted ->
           \/ s.attempts = 1 /\ s.first = "none"
           \/ s.attempts = 2 /\ s.first = "exit" /\ s.path = "cpu"
      [] s.pc = "attempt" ->
           \/ s.attempts = 0 /\ s.first = "none"
           \/ s.attempts = 1 /\ s.first = "exit" /\ s.path = "cpu"
      [] s.pc = "returned" ->
           s.attempts = 0 /\ s.first \in {"none", "exit"} /\ s.path = "cpu" /\ s.temps = {}
      [] OTHER -> s.attempts = 0 /\ s.first = "none"

\* What a conversion has told its caller, or is still able to tell.
ReportInv(c) ==
    /\ AttemptsOK(conv[c])
    /\ Returned(c) => (conv[c].result = "success" <=> target = c)
    /\ ~Returned(c) => target # c
    /\ Returned(c) /\ conv[c].result = "canceled" => ctx[c] = "canceled"
    /\ c \in early => ctx[c] # "live" /\ ~Publishing(conv[c])
    /\ c \in early /\ Returned(c) => conv[c].result # "success"

\* The inductive invariant.
ConversionInv ==
    /\ TypeOK
    /\ \A c \in Conversion : CommandInv(c) /\ ReportInv(c)

-----------------------------------------------------------------------------
(* Commands *)

\* A call of Run starts from a well-formed record.
LEMMA RunRecords ==
    /\ NoRun \in RunRecord
    /\ ctx \in [Conversion -> {"live", "canceled", "timeout"}] =>
          \A c \in Conversion : Called(c) \in RunRecord
  BY DEF NoRun, RunRecord, Called, Outcomes

\* Every step of a command, and everything that happens to it, keeps its invariant.
LEMMA CommandKeeps ==
    ASSUME RunTypes, NEW c \in Conversion, CommandInv(c),
           \/ RunStep(c) \/ ChildExit(c) \/ Timeout(c)
           \/ \E why \in {"canceled", "timeout"} : EndContext(c, why)
    PROVE /\ RunTypes' /\ CommandInv(c)'
          /\ \A d \in Conversion \ {c} : run'[d] = run[d] /\ ctx'[d] = ctx[d]
<1>1. run[c] \in RunRecord /\ run \in [Conversion -> RunRecord]
      /\ ctx \in [Conversion -> {"live", "canceled", "timeout"}]
  BY DEF RunTypes
<1>2. CASE RefuseStart(c) \/ StartChild(c)
  BY <1>1, <1>2 DEF RefuseStart, StartChild, ReturnOutcome, RunTypes, RunRecord, CommandInv, Outcomes
<1>3. CASE SelectExit(c) \/ SelectDone(c) \/ RecheckExit(c)
  BY <1>1, <1>3 DEF SelectExit, SelectDone, RecheckExit, ReturnOutcome, RunTypes, RunRecord, CommandInv,
     Outcomes
<1>4. CASE Terminate(c) \/ Await(c)
  BY <1>1, <1>4 DEF Terminate, Await, ReturnOutcome, RunTypes, RunRecord, CommandInv, Outcomes
<1>5. CASE Reap(c) \/ ChildExit(c)
  BY <1>1, <1>5 DEF Reap, ChildExit, RunTypes, RunRecord, CommandInv, Outcomes
<1>6. CASE Timeout(c)
  BY <1>1, <1>6 DEF Timeout, Active, RunTypes, RunRecord, CommandInv, Outcomes
<1>7. ASSUME NEW why \in {"canceled", "timeout"}, EndContext(c, why)
      PROVE /\ RunTypes' /\ CommandInv(c)'
            /\ \A d \in Conversion \ {c} : run'[d] = run[d] /\ ctx'[d] = ctx[d]
  BY <1>1, <1>7 DEF EndContext, Active, RunTypes, RunRecord, CommandInv, Outcomes
<1> QED
  BY <1>2, <1>3, <1>4, <1>5, <1>6, <1>7 DEF RunStep

-----------------------------------------------------------------------------
(* The shapes of a step of Convert *)

\* The conversion returns an error it can account for.
FailsHonestly(c) ==
    \E kind \in FailureKind :
        Return(c, kind) /\ (kind = "canceled" => ctx[c] = "canceled")

\* The conversion goes on in the state s, possibly with a new command.
Moves(c, s) ==
    /\ s \in ConversionRecord /\ s.pc # "returned" /\ AttemptsOK(s)
    /\ Publishing(s) => ctx[c] = "live"
    /\ conv' = [conv EXCEPT ![c] = s]
    /\ run' = run \/ run' = [run EXCEPT ![c] = Called(c)]
    /\ target' = target

\* The conversion publishes its output.
Publishes(c) ==
    Publishing(conv[c]) /\ target = NoOne /\ target' = c /\ Finished(c, "success")

Shaped(c) ==
    /\ conv[c].pc # "returned"
    /\ FailsHonestly(c) \/ Publishes(c) \/ \E s : Moves(c, s)

\* An error other than "canceled" needs no excuse.
LEMMA FailsShape ==
    ASSUME NEW c \in Conversion,
           Fails(c, {"rejection", "configuration", "probe", "conversion", "validation"})
    PROVE FailsHonestly(c)
  BY DEF Fails, FailsHonestly, FailureKind

\* Calls and jumps with nothing else changed.
LEMMA CallShape ==
    ASSUME NEW c \in Conversion, NEW s \in ConversionRecord, NEW pc \in CommandStage \ {"encode", "verify"},
           CallIn(c, s, pc), s.attempts = 0, s.first = "none"
    PROVE \E t : Moves(c, t)
<1> DEFINE t == [s EXCEPT !.pc = pc]
<1>1. t \in ConversionRecord /\ t.pc = pc /\ t.attempts = 0 /\ t.first = "none"
  BY DEF ConversionRecord
<1>2. pc \notin Attempted \cup {"attempt", "returned"} /\ ~Publishing(t)
  BY <1>1 DEF CommandStage, ProbeStage, ImageStage, VAAPIStage, MediaStage, Attempted, Publishing
<1>3. AttemptsOK(t)
  BY <1>1, <1>2 DEF AttemptsOK
<1>4. Moves(c, t)
  BY <1>1, <1>2, <1>3 DEF Moves, CallIn
<1> QED
  BY <1>4

\* Detection and the choice of the operation.
LEMMA DetectionShape ==
    ASSUME ConversionInv, NEW c \in Conversion,
           Begin(c) \/ Stopped(c) \/ ImageProbed(c) \/ MediaProbed(c) \/ Select(c)
             \/ ResolveOutput(c)
    PROVE Shaped(c)
<1>1. conv[c] \in ConversionRecord /\ conv \in [Conversion -> ConversionRecord] /\ AttemptsOK(conv[c])
  BY DEF ConversionInv, TypeOK, ReportInv
<1>2. conv[c].pc # "returned"
  BY DEF Begin, Stopped, ImageProbed, MediaProbed, Select, ResolveOutput, Ran, CommandStage,
     ProbeStage, ImageStage, VAAPIStage, MediaStage
<1>3. CASE Stopped(c)
  <2>1. PICK kind \in FailureKind : Return(c, kind) /\ (kind = "canceled" => run[c].outcome = "canceled")
    BY <1>3 DEF Stopped, ContextFailure, FailureKind
  <2> QED
    BY <1>2, <2>1 DEF ConversionInv, CommandInv, FailsHonestly, Shaped
<1>4. ASSUME NEW kinds \in SUBSET {"rejection", "configuration", "probe", "conversion", "validation"},
             Fails(c, kinds)
      PROVE Shaped(c)
  BY <1>2, <1>4, FailsShape DEF Shaped, Fails
<1>5. ASSUME conv[c].pc \in {"idle", "imageProbe", "mediaProbe", "select", "resolve"}
      PROVE conv[c].attempts = 0 /\ conv[c].first = "none"
  BY <1>1, <1>5 DEF AttemptsOK, Attempted
<1>6. CASE Begin(c)
  <2>1. CASE Return(c, "configuration")
    BY <1>2, <2>1 DEF Shaped, FailsHonestly, FailureKind
  <2>2. CASE Call(c, "imageProbe")
    BY <1>1, <1>2, <1>5, <1>6, <2>2, CallShape DEF Call, Begin, Shaped, CommandStage, ProbeStage
  <2> QED
    BY <1>6, <2>1, <2>2 DEF Begin
<1>7. ASSUME NEW kind \in {"image", "media"}, conv[c].pc \in ProbeStage,
             conv' = [conv EXCEPT ![c].pc = "select", ![c].kind = kind], Local
      PROVE Shaped(c)
  <2> DEFINE s == [conv[c] EXCEPT !.pc = "select", !.kind = kind]
  <2>1. s \in ConversionRecord /\ s.pc = "select" /\ s.attempts = 0 /\ s.first = "none"
    BY <1>1, <1>5, <1>7 DEF ConversionRecord, ProbeStage
  <2>2. Moves(c, s)
    BY <1>7, <2>1 DEF Moves, Local, AttemptsOK, Attempted, Publishing
  <2> QED
    BY <1>2, <2>2 DEF Shaped
<1>8. CASE ImageProbed(c)
  <2>1. conv[c].pc = "imageProbe"
    BY <1>8 DEF ImageProbed, Ran
  <2>2. CASE Call(c, "mediaProbe")
    BY <1>1, <1>2, <1>5, <2>1, <2>2, CallShape DEF Call, Shaped, CommandStage, ProbeStage
  <2> QED
    BY <1>7, <1>8, <2>1, <2>2 DEF ImageProbed, ProbeStage
<1>9. CASE MediaProbed(c)
  <2>1. conv[c].pc = "mediaProbe"
    BY <1>9 DEF MediaProbed, Ran
  <2> QED
    BY <1>4, <1>7, <1>9, <2>1 DEF MediaProbed, ProbeStage
<1>10. CASE Select(c)
  <2> DEFINE s == [conv[c] EXCEPT !.pc = "resolve"]
  <2>1. CASE Goto(c, "resolve") /\ Local
    <3>1. s \in ConversionRecord /\ s.pc = "resolve" /\ s.attempts = 0 /\ s.first = "none"
      BY <1>1, <1>5, <1>10 DEF ConversionRecord, Select
    <3>2. Moves(c, s)
      BY <2>1, <3>1 DEF Moves, Local, Goto, AttemptsOK, Attempted, Publishing
    <3> QED
      BY <1>2, <3>2 DEF Shaped
  <2> QED
    BY <1>4, <1>10, <2>1 DEF Select
<1>11. CASE ResolveOutput(c)
  <2>1. ASSUME NEW isDirectory \in BOOLEAN,
               conv' = [conv EXCEPT ![c].outputIsDirectory = isDirectory,
                            ![c].pc = IF conv[c].kind = "image" THEN "stage" ELSE "accelerate"],
               Local
        PROVE Shaped(c)
    <3> DEFINE pc == IF conv[c].kind = "image" THEN "stage" ELSE "accelerate"
    <3> DEFINE s == [conv[c] EXCEPT !.outputIsDirectory = isDirectory, !.pc = pc]
    <3>1. s \in ConversionRecord /\ s.pc \in {"stage", "accelerate"} /\ s.attempts = 0
          /\ s.first = "none"
      BY <1>1, <1>5, <1>11, <2>1 DEF ConversionRecord, ResolveOutput
    <3>2. Moves(c, s)
      BY <2>1, <3>1 DEF Moves, Local, AttemptsOK, Attempted, Publishing
    <3> QED
      BY <1>2, <3>2 DEF Shaped
  <2> QED
    BY <1>4, <1>11, <2>1 DEF ResolveOutput
<1> QED
  BY <1>3, <1>6, <1>8, <1>9, <1>10, <1>11

\* The last look at the context: a conversion gets past it only while its context is live.
LEMMA LookShape ==
    ASSUME ConversionInv, NEW c \in Conversion, NEW next \in {"imageLink", "stageLink", "mediaLink"},
           LookAtContext(c, next), conv[c].pc # "returned",
           next = "mediaLink" => conv[c].pc \in Attempted,
           next # "mediaLink" => conv[c].attempts = 0 /\ conv[c].first = "none"
    PROVE Shaped(c)
<1>1. conv[c] \in ConversionRecord /\ AttemptsOK(conv[c])
      /\ ctx[c] \in {"live", "canceled", "timeout"}
  BY DEF ConversionInv, TypeOK, RunTypes, ReportInv
<1>2. CASE ctx[c] # "live"
  <2>1. FailsHonestly(c)
    BY <1>2 DEF LookAtContext, FailsHonestly, FailureKind
  <2> QED
    BY <2>1 DEF Shaped
<1>3. CASE ctx[c] = "live"
  <2> DEFINE s == [conv[c] EXCEPT !.pc = next]
  <2>1. s \in ConversionRecord /\ s.pc = next /\ s.attempts = conv[c].attempts
        /\ s.first = conv[c].first /\ s.path = conv[c].path
    BY <1>1 DEF ConversionRecord
  <2>2. AttemptsOK(s)
    BY <1>1, <2>1 DEF AttemptsOK, Attempted
  <2>3. Moves(c, s)
    BY <1>3, <2>1, <2>2 DEF Moves, LookAtContext, Goto, Local
  <2> QED
    BY <2>3 DEF Shaped
<1> QED
  BY <1>2, <1>3

\* The link publishes or fails.
LEMMA LinkShape ==
    ASSUME NEW c \in Conversion, Link(c), Publishing(conv[c])
    PROVE Shaped(c)
<1>1. conv[c].pc # "returned"
  BY DEF Publishing
<1>2. CASE \E kinds \in SUBSET {"rejection", "conversion"} : Fails(c, kinds)
  BY <1>1, <1>2, FailsShape DEF Shaped, Fails
<1>3. CASE target = NoOne /\ target' = c /\ Finished(c, "success")
  BY <1>1, <1>3 DEF Shaped, Publishes
<1> QED
  BY <1>2, <1>3 DEF Link

\* Images.
LEMMA ImageShape ==
    ASSUME ConversionInv, NEW c \in Conversion,
           \/ StageImage(c) \/ DecodeProbed(c) \/ PrepareImage(c) \/ TransparencyProbed(c)
           \/ ImageConverted(c) \/ ImageVerified(c)
           \/ ImageCheck(c) \/ ImageLink(c) \/ StageCheck(c) \/ StageLink(c)
    PROVE Shaped(c)
<1>1. conv[c] \in ConversionRecord /\ conv \in [Conversion -> ConversionRecord] /\ AttemptsOK(conv[c])
  BY DEF ConversionInv, TypeOK, ReportInv
<1>2. conv[c].pc \in ImageStage \cup {"stage", "imagePrepare", "imageCheck", "imageLink", "stageCheck",
                                     "stageLink"}
  BY DEF StageImage, DecodeProbed, PrepareImage, TransparencyProbed, ImageConverted, ImageVerified,
     ImageCheck, ImageLink, StageCheck, StageLink, Ran, ImageStage
<1>3. conv[c].pc # "returned" /\ conv[c].attempts = 0 /\ conv[c].first = "none"
  BY <1>1, <1>2 DEF AttemptsOK, Attempted, ImageStage
<1>4. ASSUME NEW kinds \in SUBSET {"rejection", "configuration", "probe", "conversion", "validation"},
             Fails(c, kinds)
      PROVE Shaped(c)
  BY <1>3, <1>4, FailsShape DEF Shaped, Fails
<1>5. ASSUME NEW s \in ConversionRecord, s.pc \in {"imagePrepare", "imageCheck", "stageCheck"},
             s.attempts = 0, s.first = "none", conv' = [conv EXCEPT ![c] = s], Local
      PROVE Shaped(c)
  <2>1. Moves(c, s)
    BY <1>5 DEF Moves, Local, AttemptsOK, Attempted, Publishing
  <2> QED
    BY <1>3, <2>1 DEF Shaped
<1>6. ASSUME NEW s \in ConversionRecord, NEW stage \in ImageStage,
             s.attempts = 0, s.first = "none", CallIn(c, s, stage)
      PROVE Shaped(c)
  BY <1>3, <1>6, CallShape DEF Shaped, CommandStage, ImageStage
<1>8. CASE StageImage(c)
  <2> DEFINE staged == [conv[c] EXCEPT !.temps = IF conv[c].outputIsDirectory THEN {} ELSE {"staging"}]
  <2>1. staged \in ConversionRecord /\ staged.attempts = 0 /\ staged.first = "none"
    BY <1>1, <1>3 DEF ConversionRecord
  <2>2. CASE CallIn(c, [staged EXCEPT !.temps = @ \cup {"probeDir"}], "decodeProbe")
    <3>1. [staged EXCEPT !.temps = @ \cup {"probeDir"}] \in ConversionRecord
          /\ [staged EXCEPT !.temps = @ \cup {"probeDir"}].attempts = 0
          /\ [staged EXCEPT !.temps = @ \cup {"probeDir"}].first = "none"
      BY <2>1 DEF ConversionRecord
    <3> QED
      BY <1>6, <2>2, <3>1 DEF ImageStage
  <2>3. CASE conv' = [conv EXCEPT ![c] = [staged EXCEPT !.pc = "imagePrepare"]] /\ Local
    <3> DEFINE s == [staged EXCEPT !.pc = "imagePrepare"]
    <3> HIDE DEF staged
    <3>1. s \in ConversionRecord
      BY <2>1 DEF ConversionRecord
    <3>2. s.pc = "imagePrepare" /\ s.attempts = 0 /\ s.first = "none"
      BY <2>1 DEF ConversionRecord
    <3> QED
      BY <1>5, <2>3, <3>1, <3>2
  <2> QED
    BY <1>4, <1>8, <2>2, <2>3 DEF StageImage
<1>9. ASSUME NEW pc \in {"imagePrepare", "imageCheck", "stageCheck"},
             NEW temps \in SUBSET {"staging", "work", "probeDir", "temp"},
             conv' = [conv EXCEPT ![c] = [conv[c] EXCEPT !.pc = pc, !.temps = temps]], Local
      PROVE Shaped(c)
  <2> DEFINE s == [conv[c] EXCEPT !.pc = pc, !.temps = temps]
  <2>1. s \in ConversionRecord /\ s.pc = pc /\ s.attempts = 0 /\ s.first = "none"
    BY <1>1, <1>3 DEF ConversionRecord
  <2> QED
    BY <1>5, <1>9, <2>1
<1>10. conv[c].temps \in SUBSET {"staging", "work", "probeDir", "temp"}
  BY <1>1 DEF ConversionRecord
<1>11. CASE DecodeProbed(c)
  <2>1. CASE conv' = [conv EXCEPT ![c].pc = "imagePrepare", ![c].temps = @ \ {"probeDir"}] /\ Local
    <3>1. conv' = [conv EXCEPT ![c] = [conv[c] EXCEPT !.pc = "imagePrepare",
                                          !.temps = conv[c].temps \ {"probeDir"}]]
      BY <1>1, <2>1 DEF ConversionRecord
    <3>2. conv[c].temps \ {"probeDir"} \in SUBSET {"staging", "work", "probeDir", "temp"}
      BY <1>10
    <3> QED
      BY <1>9, <2>1, <3>1, <3>2
  <2> QED
    BY <1>4, <1>11, <2>1 DEF DecodeProbed
<1>12. ASSUME NEW s \in ConversionRecord, NEW stage \in ImageStage, NEW left \in 0 .. 4,
              s.attempts = 0, s.first = "none", CallIn(c, [s EXCEPT !.left = left], stage)
       PROVE Shaped(c)
  <2>1. /\ [s EXCEPT !.left = left] \in ConversionRecord
        /\ [s EXCEPT !.left = left].attempts = 0 /\ [s EXCEPT !.left = left].first = "none"
    BY <1>12 DEF ConversionRecord
  <2> QED
    BY <1>6, <1>12, <2>1
<1>13. ASSUME NEW s \in ConversionRecord, NEW stage \in ImageStage, s.attempts = 0, s.first = "none",
              NEW counts \in {TransparencyCommands, PlanCommands}, CallFirst(c, s, stage, counts)
       PROVE Shaped(c)
  <2>1. PICK n \in counts : CallIn(c, [s EXCEPT !.left = n - 1], stage)
    BY <1>13 DEF CallFirst
  <2>2. n - 1 \in 0 .. 4
    BY DEF TransparencyCommands, PlanCommands
  <2> QED
    BY <1>12, <1>13, <2>1, <2>2
<1>14. CASE PrepareImage(c)
  <2> DEFINE s == [conv[c] EXCEPT !.temps = @ \cup {"work"}]
  <2>1. s \in ConversionRecord /\ s.attempts = 0 /\ s.first = "none"
    BY <1>1, <1>3 DEF ConversionRecord
  <2> QED
    BY <1>4, <1>13, <1>14, <2>1 DEF PrepareImage, ImageStage
<1>15. CASE TransparencyProbed(c) \/ ImageConverted(c)
  <2>1. conv[c].pc \in ImageStage /\ conv[c].left \in 0 .. 4
    BY <1>1, <1>15 DEF TransparencyProbed, ImageConverted, Ran, ImageStage, ConversionRecord
  <2>2. CASE CallNext(c)
    <3>1. conv[c].left - 1 \in 0 .. 4
          /\ CallIn(c, [conv[c] EXCEPT !.left = conv[c].left - 1], conv[c].pc)
      BY <1>1, <2>1, <2>2 DEF CallNext, ConversionRecord
    <3> QED
      BY <1>1, <1>3, <1>12, <2>1, <3>1
  <2> QED
    BY <1>1, <1>3, <1>4, <1>6, <1>13, <1>15, <2>2
    DEF TransparencyProbed, ImageConverted, Call, ImageStage
<1>16. CASE ImageVerified(c)
  <2>1. CASE Goto(c, "imageCheck") /\ Local
    <3> DEFINE s == [conv[c] EXCEPT !.pc = "imageCheck"]
    <3>1. s \in ConversionRecord /\ s.pc = "imageCheck" /\ s.attempts = 0 /\ s.first = "none"
      BY <1>1, <1>3 DEF ConversionRecord
    <3> QED
      BY <1>5, <2>1, <3>1 DEF Goto
  <2> QED
    BY <1>4, <1>16, <2>1 DEF ImageVerified
<1>17. CASE ImageCheck(c) \/ StageCheck(c)
  BY <1>3, <1>17, LookShape DEF ImageCheck, StageCheck
<1>18. CASE ImageLink(c)
  <2>1. CASE conv[c].outputIsDirectory
    BY <1>18, <2>1, LinkShape DEF ImageLink, Publishing
  <2>2. CASE conv' = [conv EXCEPT ![c].pc = "stageCheck", ![c].temps = @ \ {"work"}] /\ Local
    <3>1. conv' = [conv EXCEPT ![c] = [conv[c] EXCEPT !.pc = "stageCheck",
                                          !.temps = conv[c].temps \ {"work"}]]
      BY <1>1, <2>2 DEF ConversionRecord
    <3>2. conv[c].temps \ {"work"} \in SUBSET {"staging", "work", "probeDir", "temp"}
      BY <1>10
    <3> QED
      BY <1>9, <2>2, <3>1, <3>2
  <2> QED
    BY <1>4, <1>18, <2>1, <2>2 DEF ImageLink
<1>19. CASE StageLink(c)
  BY <1>19, LinkShape DEF StageLink, Publishing
<1> QED
  BY <1>8, <1>11, <1>14, <1>15, <1>16, <1>17, <1>18, <1>19

\* The hardware is asked for, and the plan is made, before the first attempt.
LEMMA AccelerateShape ==
    ASSUME ConversionInv, NEW c \in Conversion, Accelerate(c) \/ VAAPIProbed(c) \/ Plan(c) \/ FiltersListed(c)
    PROVE Shaped(c)
<1>1. conv[c] \in ConversionRecord /\ conv \in [Conversion -> ConversionRecord] /\ AttemptsOK(conv[c])
  BY DEF ConversionInv, TypeOK, ReportInv
<1>2. conv[c].pc \in VAAPIStage \cup {"accelerate", "plan", "filters"}
  BY DEF Accelerate, VAAPIProbed, Plan, FiltersListed, Ran, VAAPIStage
<1>3. conv[c].pc # "returned" /\ conv[c].attempts = 0 /\ conv[c].first = "none"
  BY <1>1, <1>2 DEF AttemptsOK, Attempted, VAAPIStage
<1>4. ASSUME NEW kinds \in SUBSET {"rejection", "configuration", "probe", "conversion", "validation"},
             Fails(c, kinds)
      PROVE Shaped(c)
  BY <1>3, <1>4, FailsShape DEF Shaped, Fails
<1>5. ASSUME NEW s \in ConversionRecord, s.pc \in {"plan", "attempt"}, s.attempts = 0, s.first = "none",
             conv' = [conv EXCEPT ![c] = s], Local
      PROVE Shaped(c)
  <2>1. Moves(c, s)
    BY <1>5 DEF Moves, Local, AttemptsOK, Attempted, Publishing
  <2> QED
    BY <1>3, <2>1 DEF Shaped
<1>6. ASSUME NEW s \in ConversionRecord, NEW stage \in VAAPIStage \cup {"filters"},
             s.attempts = 0, s.first = "none", CallIn(c, s, stage)
      PROVE Shaped(c)
  BY <1>3, <1>6, CallShape DEF Shaped, CommandStage, VAAPIStage, MediaStage
<1>7. ASSUME NEW pc \in {"plan", "attempt"}, Goto(c, pc), Local
      PROVE Shaped(c)
  <2> DEFINE s == [conv[c] EXCEPT !.pc = pc]
  <2>1. s \in ConversionRecord /\ s.pc = pc /\ s.attempts = 0 /\ s.first = "none"
    BY <1>1, <1>3 DEF ConversionRecord
  <2> QED
    BY <1>5, <1>7, <2>1 DEF Goto
<1>8. ASSUME NEW mode, Unaccelerated(c, mode) PROVE Shaped(c)
  <2>1. CASE conv' = [conv EXCEPT ![c].pc = "plan", ![c].temps = {}] /\ Local
    <3> DEFINE s == [conv[c] EXCEPT !.pc = "plan", !.temps = {}]
    <3>1. s \in ConversionRecord /\ s.pc = "plan" /\ s.attempts = 0 /\ s.first = "none"
      BY <1>1, <1>3 DEF ConversionRecord
    <3> QED
      BY <1>5, <2>1, <3>1
  <2> QED
    BY <1>4, <1>8, <2>1 DEF Unaccelerated
<1>9. CASE Accelerate(c)
  <2>1. CASE conv' = [conv EXCEPT ![c].pc = "plan", ![c].path = "vaapi"] /\ Local
    <3> DEFINE s == [conv[c] EXCEPT !.pc = "plan", !.path = "vaapi"]
    <3>1. s \in ConversionRecord /\ s.pc = "plan" /\ s.attempts = 0 /\ s.first = "none"
      BY <1>1, <1>3 DEF ConversionRecord
    <3> QED
      BY <1>5, <2>1, <3>1
  <2>2. ASSUME NEW mode \in {"auto", "vaapi"},
               CallIn(c, [conv[c] EXCEPT !.mode = mode, !.temps = {"probeDir"}], "vaapiEncode")
        PROVE Shaped(c)
    <3> DEFINE s == [conv[c] EXCEPT !.mode = mode, !.temps = {"probeDir"}]
    <3>1. s \in ConversionRecord /\ s.attempts = 0 /\ s.first = "none"
      BY <1>1, <1>3 DEF ConversionRecord
    <3> QED
      BY <1>6, <2>2, <3>1 DEF VAAPIStage
  <2> QED
    BY <1>7, <1>8, <1>9, <2>1, <2>2 DEF Accelerate
<1>10. CASE VAAPIProbed(c)
  <2>1. CASE conv' = [conv EXCEPT ![c].pc = "plan", ![c].path = "vaapi", ![c].temps = {}] /\ Local
    <3> DEFINE s == [conv[c] EXCEPT !.pc = "plan", !.path = "vaapi", !.temps = {}]
    <3>1. s \in ConversionRecord /\ s.pc = "plan" /\ s.attempts = 0 /\ s.first = "none"
      BY <1>1, <1>3 DEF ConversionRecord
    <3> QED
      BY <1>5, <2>1, <3>1
  <2> QED
    BY <1>1, <1>3, <1>6, <1>8, <1>10, <2>1 DEF VAAPIProbed, Call, VAAPIStage
<1>11. CASE Plan(c)
  BY <1>1, <1>3, <1>4, <1>6, <1>7, <1>11 DEF Plan, Call
<1>12. CASE FiltersListed(c)
  BY <1>4, <1>7, <1>12 DEF FiltersListed
<1> QED
  BY <1>9, <1>10, <1>11, <1>12

\* The attempts: the second one follows an encoder that exited by itself.
LEMMA AttemptShape ==
    ASSUME ConversionInv, NEW c \in Conversion,
           Attempt(c) \/ Encoded(c) \/ Verified(c) \/ MediaCheck(c) \/ MediaLink(c)
    PROVE Shaped(c)
<1>1. conv[c] \in ConversionRecord /\ conv \in [Conversion -> ConversionRecord] /\ AttemptsOK(conv[c])
  BY DEF ConversionInv, TypeOK, ReportInv
<1>2. conv[c].pc \in Attempted \cup {"attempt"} /\ conv[c].pc # "returned"
  BY DEF Attempt, Encoded, Verified, MediaCheck, MediaLink, Ran, Attempted
<1>3. ASSUME NEW kinds \in SUBSET {"rejection", "configuration", "probe", "conversion", "validation"},
             Fails(c, kinds)
      PROVE Shaped(c)
  BY <1>2, <1>3, FailsShape DEF Shaped, Fails
<1>4. ASSUME NEW pc \in {"verify", "mediaCheck"}, conv[c].pc \in Attempted,
             conv' = [conv EXCEPT ![c] = [conv[c] EXCEPT !.pc = pc]],
             run' = run \/ run' = [run EXCEPT ![c] = Called(c)], target' = target
      PROVE Shaped(c)
  <2> DEFINE s == [conv[c] EXCEPT !.pc = pc]
  <2>1. s \in ConversionRecord /\ s.pc = pc /\ s.attempts = conv[c].attempts
        /\ s.first = conv[c].first /\ s.path = conv[c].path
    BY <1>1 DEF ConversionRecord, CommandStage, MediaStage
  <2>2. AttemptsOK(s) /\ ~Publishing(s)
    BY <1>1, <1>4, <2>1 DEF AttemptsOK, Attempted, Publishing
  <2>3. Moves(c, s)
    BY <1>4, <2>1, <2>2 DEF Moves
  <2> QED
    BY <1>2, <2>3 DEF Shaped
<1>5. CASE Attempt(c)
  <2>1. CASE CallIn(c, [conv[c] EXCEPT !.attempts = @ + 1, !.temps = {"temp"}], "encode")
    <3> DEFINE s == [[conv[c] EXCEPT !.attempts = @ + 1, !.temps = {"temp"}] EXCEPT !.pc = "encode"]
    <3>1. \/ conv[c].attempts = 0 /\ conv[c].first = "none"
          \/ conv[c].attempts = 1 /\ conv[c].first = "exit" /\ conv[c].path = "cpu"
      BY <1>1, <1>5 DEF Attempt, AttemptsOK, Attempted
    <3>2. conv[c].attempts + 1 \in 0 .. 2
      BY <3>1
    <3>3. s \in ConversionRecord
      BY <1>1, <3>2 DEF ConversionRecord, CommandStage, MediaStage
    <3>4. s.pc = "encode" /\ s.attempts = conv[c].attempts + 1 /\ s.first = conv[c].first
          /\ s.path = conv[c].path
      BY <1>1 DEF ConversionRecord
    <3>5. AttemptsOK(s) /\ ~Publishing(s)
      BY <3>1, <3>4 DEF AttemptsOK, Attempted, Publishing
    <3>6. Moves(c, s)
      BY <2>1, <3>3, <3>4, <3>5 DEF Moves, CallIn
    <3> QED
      BY <1>2, <3>6 DEF Shaped
  <2> QED
    BY <1>3, <1>5, <2>1 DEF Attempt
<1>6. CASE Encoded(c)
  <2>1. conv[c].pc = "encode"
    BY <1>6 DEF Encoded, Ran
  <2>2. CASE /\ RetriesOnCPU(c)
             /\ conv' = [conv EXCEPT ![c].pc = "attempt", ![c].path = "cpu", ![c].temps = {},
                                     ![c].first = run[c].outcome]
             /\ Local
    <3> DEFINE s == [conv[c] EXCEPT !.pc = "attempt", !.path = "cpu", !.temps = {}, !.first = "exit"]
    <3>1. conv[c].attempts = 1
      BY <1>1, <2>1, <2>2 DEF RetriesOnCPU, AttemptsOK, Attempted
    <3>2. s \in ConversionRecord /\ s.pc = "attempt" /\ s.path = "cpu" /\ s.first = "exit"
          /\ s.attempts = 1
      BY <1>1, <3>1 DEF ConversionRecord, Outcomes
    <3>3. AttemptsOK(s) /\ ~Publishing(s)
      BY <3>2 DEF AttemptsOK, Attempted, Publishing
    <3>4. conv' = [conv EXCEPT ![c] = s]
      BY <2>2 DEF RetriesOnCPU
    <3>5. Moves(c, s)
      BY <2>2, <3>2, <3>3, <3>4 DEF Moves, Local
    <3> QED
      BY <1>2, <3>5 DEF Shaped
  <2>3. CASE Call(c, "verify")
    BY <1>4, <2>1, <2>3 DEF Call, CallIn, Attempted
  <2> QED
    BY <1>3, <1>6, <2>2, <2>3 DEF Encoded
<1>7. CASE Verified(c)
  <2>1. CASE Goto(c, "mediaCheck") /\ Local
    <3>1. conv[c].pc = "verify"
      BY <1>7 DEF Verified, Ran
    <3> QED
      BY <1>4, <2>1, <3>1 DEF Goto, Local, Attempted
  <2> QED
    BY <1>3, <1>7, <2>1 DEF Verified
<1>8. CASE MediaCheck(c)
  BY <1>2, <1>8, LookShape DEF MediaCheck, Attempted
<1>9. CASE MediaLink(c)
  BY <1>9, LinkShape DEF MediaLink, Publishing
<1> QED
  BY <1>5, <1>6, <1>7, <1>8, <1>9

\* Every step of Convert has one of the shapes.
LEMMA ConvertShape ==
    ASSUME ConversionInv, NEW c \in Conversion, Convert(c)
    PROVE Shaped(c)
  BY DetectionShape, ImageShape, AccelerateShape, AttemptShape DEF Convert

-----------------------------------------------------------------------------
(* The induction *)

\* Before any call, nothing is published and no command runs.
LEMMA ConversionInit == Init => ConversionInv
<1> SUFFICES ASSUME Init PROVE ConversionInv
  OBVIOUS
<1>1. NotCalled \in ConversionRecord /\ NotCalled.pc = "idle" /\ AttemptsOK(NotCalled)
      /\ ~Publishing(NotCalled)
  BY DEF NotCalled, ConversionRecord, AttemptsOK, Attempted, Publishing
<1>2. TypeOK
  BY <1>1, RunRecords DEF Init, RunInit, TypeOK, RunTypes
<1>3. ASSUME NEW c \in Conversion PROVE CommandInv(c)
  BY <1>3 DEF Init, RunInit, CommandInv, NoRun
<1>4. ASSUME NEW c \in Conversion PROVE ReportInv(c)
  BY <1>1, <1>4, ConversionAssumption DEF Init, ReportInv, Returned, NoOne
<1> QED
  BY <1>2, <1>3, <1>4 DEF ConversionInv

\* What Return and Finished leave behind.
LEMMA FinishedKeeps ==
    ASSUME ConversionInv, NEW c \in Conversion, conv[c].pc # "returned",
           NEW result \in FailureKind \cup {"success"}, Finished(c, result)
    PROVE /\ conv' \in [Conversion -> ConversionRecord] /\ run' \in [Conversion -> RunRecord]
          /\ \A d \in Conversion \ {c} : conv'[d] = conv[d] /\ run'[d] = run[d]
          /\ run'[c] = NoRun /\ conv'[c].pc = "returned" /\ conv'[c].result = result
          /\ AttemptsOK(conv'[c])
<1>1. conv[c] \in ConversionRecord /\ conv \in [Conversion -> ConversionRecord] /\ AttemptsOK(conv[c])
      /\ run \in [Conversion -> RunRecord]
  BY DEF ConversionInv, TypeOK, RunTypes, ReportInv
<1>2. conv[c].first \in {"none", "exit"}
  BY <1>1 DEF AttemptsOK
<1> DEFINE s == [NotCalled EXCEPT !.pc = "returned", !.result = result, !.first = conv[c].first]
<1>3. s \in ConversionRecord
  <2>1. NotCalled \in ConversionRecord
    BY DEF NotCalled, ConversionRecord
  <2> QED
    BY <1>2, <2>1 DEF ConversionRecord, Outcomes
<1>4. s.pc = "returned" /\ s.result = result /\ s.attempts = 0 /\ s.first \in {"none", "exit"}
      /\ s.path = "cpu" /\ s.temps = {}
  BY <1>2 DEF NotCalled
<1>5. AttemptsOK(s)
  BY <1>4 DEF AttemptsOK, Attempted
<1>6. conv' = [conv EXCEPT ![c] = s] /\ run' = [run EXCEPT ![c] = NoRun]
  BY DEF Finished
<1> QED
  BY <1>1, <1>3, <1>4, <1>5, <1>6, RunRecords

\* A step of one conversion keeps the invariant of all: the others see only the target.
LEMMA ConvertKeeps ==
    ASSUME ConversionInv, NEW c \in Conversion, Convert(c)
    PROVE ConversionInv'
<1>1. Shaped(c) /\ UNCHANGED <<ctx, early>>
  BY ConvertShape DEF Convert
<1>2. /\ conv \in [Conversion -> ConversionRecord] /\ run \in [Conversion -> RunRecord]
      /\ ctx \in [Conversion -> {"live", "canceled", "timeout"}]
      /\ target \in Conversion \cup {NoOne, Foreign} /\ early \subseteq Conversion
      /\ CommandInv(c) /\ ReportInv(c) /\ conv[c].pc # "returned" /\ c # NoOne
  BY <1>1, ConversionAssumption DEF ConversionInv, TypeOK, RunTypes, Shaped, NoOne
<1>3. ASSUME conv' \in [Conversion -> ConversionRecord], run' \in [Conversion -> RunRecord],
             target' \in Conversion \cup {NoOne, Foreign}, target' = target \/ (target = NoOne /\ target' = c),
             \A d \in Conversion \ {c} : conv'[d] = conv[d] /\ run'[d] = run[d],
             CommandInv(c)', ReportInv(c)'
      PROVE ConversionInv'
  <2>1. TypeOK'
    BY <1>1, <1>2, <1>3 DEF TypeOK, RunTypes
  <2>2. ASSUME NEW d \in Conversion \ {c} PROVE CommandInv(d)'
    BY <1>1, <1>3, <2>2 DEF ConversionInv, CommandInv
  <2>3. ASSUME NEW d \in Conversion \ {c} PROVE ReportInv(d)'
    <3>1. d # NoOne /\ d # c /\ ReportInv(d) /\ conv'[d] = conv[d]
      BY <1>3, <2>3, ConversionAssumption DEF ConversionInv, NoOne
    <3> QED
      BY <1>1, <1>3, <3>1 DEF ReportInv, Returned
  <2> QED
    BY <1>3, <2>1, <2>2, <2>3 DEF ConversionInv
<1>4. CASE FailsHonestly(c)
  <2>1. PICK kind \in FailureKind : Return(c, kind) /\ (kind = "canceled" => ctx[c] = "canceled")
    BY <1>4 DEF FailsHonestly
  <2>2. kind # "success"
    BY DEF FailureKind
  <2>3. Finished(c, kind) /\ target' = target
    BY <2>1 DEF Return
  <2>4. CommandInv(c)'
    BY <1>2, <2>3, FinishedKeeps DEF CommandInv, NoRun
  <2>5. ReportInv(c)'
    BY <1>1, <1>2, <2>1, <2>2, <2>3, FinishedKeeps DEF ReportInv, Returned, Publishing
  <2>6. /\ conv' \in [Conversion -> ConversionRecord] /\ run' \in [Conversion -> RunRecord]
        /\ \A d \in Conversion \ {c} : conv'[d] = conv[d] /\ run'[d] = run[d]
    BY <1>2, <2>3, FinishedKeeps
  <2>7. /\ target' \in Conversion \cup {NoOne, Foreign}
        /\ target' = target \/ (target = NoOne /\ target' = c)
    BY <1>2, <2>3
  <2> QED
    BY <1>3, <2>4, <2>5, <2>6, <2>7
<1>5. CASE Publishes(c)
  <2>1. Finished(c, "success") /\ target = NoOne /\ target' = c /\ c \notin early
    BY <1>2, <1>5 DEF Publishes, ReportInv
  <2>2. CommandInv(c)'
    BY <1>2, <2>1, FinishedKeeps DEF CommandInv, NoRun
  <2>3. ReportInv(c)'
    BY <1>1, <1>2, <2>1, FinishedKeeps DEF ReportInv, Returned
  <2> QED
    BY <1>2, <1>3, <2>1, <2>2, <2>3, FinishedKeeps
<1>6. ASSUME NEW s, Moves(c, s) PROVE ConversionInv'
  <2>1. /\ s \in ConversionRecord /\ s.pc # "returned" /\ AttemptsOK(s)
        /\ Publishing(s) => ctx[c] = "live"
        /\ conv' = [conv EXCEPT ![c] = s] /\ target' = target
        /\ run' = run \/ run' = [run EXCEPT ![c] = Called(c)]
    BY <1>6 DEF Moves
  <2>2. /\ conv' \in [Conversion -> ConversionRecord] /\ conv'[c] = s
        /\ \A d \in Conversion \ {c} : conv'[d] = conv[d]
    BY <1>2, <2>1
  <2>3. /\ run' \in [Conversion -> RunRecord] /\ run'[c] \in {run[c], Called(c)}
        /\ \A d \in Conversion \ {c} : run'[d] = run[d]
    BY <1>2, <2>1, RunRecords
  <2>4. CommandInv(c)'
    BY <1>1, <1>2, <2>3 DEF CommandInv, Called, NoRun
  <2>5. ReportInv(c)'
    BY <1>1, <1>2, <2>1, <2>2 DEF ReportInv, Returned
  <2>6. /\ target' \in Conversion \cup {NoOne, Foreign}
        /\ target' = target \/ (target = NoOne /\ target' = c)
    BY <1>2, <2>1
  <2> QED
    BY <1>3, <2>2, <2>3, <2>4, <2>5, <2>6
<1> QED
  BY <1>1, <1>4, <1>5, <1>6 DEF Shaped

\* The command, the child, the clock and the caller change nothing the conversion has told.
LEMMA OutsideKeeps ==
    ASSUME ConversionInv, NEW c \in Conversion, Command(c) \/ Surroundings(c)
    PROVE ConversionInv'
<1>1. /\ RunTypes /\ CommandInv(c) /\ ctx \in [Conversion -> {"live", "canceled", "timeout"}]
      /\ \A d \in Conversion : CommandInv(d) /\ ReportInv(d)
  BY DEF ConversionInv, TypeOK, RunTypes
<1>2. UNCHANGED <<conv, target>>
  BY DEF Command, Surroundings
<1>3. /\ RunTypes' /\ CommandInv(c)'
      /\ \A d \in Conversion \ {c} : run'[d] = run[d] /\ ctx'[d] = ctx[d]
  BY <1>1, CommandKeeps DEF Command, Surroundings
<1>4. \A d \in Conversion : CommandInv(d)'
  BY <1>1, <1>3 DEF CommandInv
<1>5. \/ UNCHANGED <<ctx, early>>
      \/ /\ ctx[c] = "live" /\ ctx'[c] \in {"canceled", "timeout"} /\ conv[c].pc # "returned"
         /\ early' = IF Publishing(conv[c]) THEN early ELSE early \cup {c}
  BY <1>1 DEF Command, Surroundings, RunStep, RefuseStart, StartChild, SelectExit, SelectDone,
     RecheckExit, Terminate, Await, Reap, ChildExit, Timeout, EndContext
<1>6. TypeOK'
  BY <1>2, <1>3, <1>5 DEF ConversionInv, TypeOK
<1>7. ASSUME NEW d \in Conversion PROVE ReportInv(d)'
  <2>1. CASE UNCHANGED <<ctx, early>>
    BY <1>1, <1>2, <1>7, <2>1 DEF ReportInv, Returned
  <2>2. CASE ~UNCHANGED <<ctx, early>> /\ d = c
    BY <1>1, <1>2, <1>5, <2>2 DEF ReportInv, Returned
  <2>3. CASE ~UNCHANGED <<ctx, early>> /\ d # c
    <3>1. ctx'[d] = ctx[d] /\ (d \in early' <=> d \in early)
      BY <1>3, <1>5, <1>7, <2>3
    <3> QED
      BY <1>1, <1>2, <1>7, <3>1 DEF ReportInv, Returned
  <2> QED
    BY <2>1, <2>2, <2>3
<1> QED
  BY <1>4, <1>6, <1>7 DEF ConversionInv

\* A foreign file at the output path, and stuttering.
LEMMA ForeignKeeps == ConversionInv /\ (ForeignWrite \/ UNCHANGED vars) => ConversionInv'
<1> SUFFICES ASSUME ConversionInv, ForeignWrite \/ UNCHANGED vars PROVE ConversionInv'
  OBVIOUS
<1>1. UNCHANGED <<ctx, run, conv, early>> /\ (target' = target \/ (target = NoOne /\ target' = Foreign))
  BY DEF ForeignWrite, vars
<1>2. TypeOK'
  BY <1>1 DEF ConversionInv, TypeOK, RunTypes
<1>3. ASSUME NEW c \in Conversion PROVE CommandInv(c)' /\ ReportInv(c)'
  <2>1. c # NoOne /\ c # Foreign /\ CommandInv(c) /\ ReportInv(c)
    BY ConversionAssumption DEF ConversionInv, NoOne, Foreign
  <2>2. CommandInv(c)'
    BY <1>1, <2>1 DEF CommandInv
  <2>3. ReportInv(c)'
    BY <1>1, <2>1 DEF ReportInv, Returned
  <2> QED
    BY <2>2, <2>3
<1> QED
  BY <1>2, <1>3 DEF ConversionInv

\* The invariant is inductive.
LEMMA ConversionStep == ConversionInv /\ [Next]_vars => ConversionInv'
  BY ConvertKeeps, OutsideKeeps, ForeignKeeps DEF Next

\* It holds in every reachable state.
LEMMA ConversionInvariant == Spec => []ConversionInv
  BY ConversionInit, ConversionStep, PTL DEF Spec

-----------------------------------------------------------------------------
(* The results *)

\* Conversions, commands, contexts and the output path keep their types.
THEOREM ConversionTypeCorrect == Spec => []TypeOK
<1>1. ConversionInv => TypeOK
  BY DEF ConversionInv
<1> QED
  BY <1>1, ConversionInvariant, PTL

\* However many conversions and programs want the path, success means that the file there
\* is the caller's, and an error that it is not (convert.go:308-331, service.go:433-447).
THEOREM AnswersMatchOutputs == Spec => []AnswerMatchesOutput
<1>1. ConversionInv => AnswerMatchesOutput
  BY DEF ConversionInv, ReportInv, AnswerMatchesOutput
<1> QED
  BY <1>1, ConversionInvariant, PTL

\* No step of any conversion replaces a file at the output path.
THEOREM OutputsAreKept == Spec => NeverReplaced
<1>1. ConversionInv /\ [Next]_vars => [target # NoOne => target' = target]_vars
  <2> SUFFICES ASSUME ConversionInv, Next, target # NoOne PROVE target' = target
    BY DEF vars
  <2>1. ASSUME NEW c \in Conversion, Convert(c) PROVE target' = target
    <3>1. Shaped(c)
      BY <2>1, ConvertShape
    <3> QED
      BY <3>1 DEF Shaped, FailsHonestly, Publishes, Moves, Return
  <2>2. ASSUME NEW c \in Conversion, Command(c) \/ Surroundings(c) PROVE target' = target
    BY <2>2 DEF Command, Surroundings
  <2> QED
    BY <2>1, <2>2 DEF Next, ForeignWrite
<1> QED
  BY <1>1, ConversionInvariant, PTL DEF Spec, NeverReplaced

\* When a conversion returns nothing of it is left: no temporary file, no running child, no
\* child that was not reaped (runner.go:144-168).
THEOREM NothingIsLeft == Spec => []NothingLeftBehind
<1>1. ASSUME ConversionInv, NEW c \in Conversion
      PROVE /\ Returned(c) => conv[c].temps = {}
            /\ ~Active(c) => run[c].child # "running"
            /\ run[c].pc = "returned" /\ run[c].child # "none" => run[c].waitCh # "none"
  <2>1. AttemptsOK(conv[c]) /\ CommandInv(c)
    BY <1>1 DEF ConversionInv, ReportInv
  <2>2. Returned(c) => conv[c].temps = {}
    BY <2>1 DEF AttemptsOK, Attempted, Returned
  <2> QED
    BY <2>1, <2>2 DEF CommandInv, Active
<1>2. ConversionInv => NothingLeftBehind
  BY <1>1 DEF NothingLeftBehind
<1> QED
  BY <1>2, ConversionInvariant, PTL

\* "canceled" is never made up, and a context that ended in time prevents success
\* (service.go:698-707, convert.go:294-296).
THEOREM CancellationsAreHonest == Spec => []CancelIsHonest
<1>1. ConversionInv => CancelIsHonest
  BY DEF ConversionInv, ReportInv, CancelIsHonest
<1> QED
  BY <1>1, ConversionInvariant, PTL

\* One retry at most, after a hardware encoder that exited by itself (convert.go:201-214).
THEOREM RetriesAreJustified == Spec => []RetryIsJustified
<1>1. ASSUME ConversionInv, NEW c \in Conversion
      PROVE /\ conv[c].attempts <= 2
            /\ conv[c].attempts = 2 \/ conv[c].first # "none"
                   => conv[c].first = "exit" /\ conv[c].path = "cpu"
  <2>1. AttemptsOK(conv[c])
    BY <1>1 DEF ConversionInv, ReportInv
  <2> QED
    BY <2>1 DEF AttemptsOK, Attempted
<1>2. ConversionInv => RetryIsJustified
  BY <1>1 DEF RetryIsJustified
<1> QED
  BY <1>2, ConversionInvariant, PTL

=============================================================================
