-------------------------- MODULE AccountHealthProofs --------------------------
(***************************************************************************)
(* Type correctness and the safety of AccountHealth, for any deadlines,    *)
(* limits and windows.                                                     *)
(***************************************************************************)
EXTENDS AccountHealth, SequenceTheorems, TLAPS

(* Why a setback outlives the answer of a probe under way: it has touched    *)
(* the account, and the probe will see that.                                 *)
SetbackIsSeen == probe.at # "idle" /\ setback => touched # {}

(* Nor does a probe miss an execution: who runs now, or ran meanwhile,       *)
(* claimed his row after the snapshot.                                       *)
StartIsSeen == probe.at # "idle" /\ (overlap \/ Running) => "started" \in touched

HealthInvariant == TypeOK /\ SetbackHolds /\ SetbackIsSeen

USE DEF Health, Runnable, Pauses, Editing, ProbePlaces, JobPlaces

(* The window of recent posts takes a new post and stays a window.           *)
LEMMA WindowSlides ==
    ASSUME AccountHealthAssumption, NEW r \in Seq(BOOLEAN), Len(r) <= BanRun
    PROVE  LET s == SubSeq(<<FALSE>> \o r, 1, Lower(Len(r) + 1, BanRun))
           IN  s \in Seq(BOOLEAN) /\ Len(s) <= BanRun
<1> DEFINE longer == <<FALSE>> \o r
           n == Lower(Len(r) + 1, BanRun)
<1>1. longer \in Seq(BOOLEAN) /\ Len(longer) = Len(r) + 1
  OBVIOUS
<1>2. n \in Nat /\ n <= BanRun /\ n <= Len(longer)
  BY <1>1 DEF AccountHealthAssumption, Lower
<1> HIDE DEF longer, n
<1>3. SubSeq(longer, 1, n) \in Seq(BOOLEAN) /\ Len(SubSeq(longer, 1, n)) = n
  BY <1>1, <1>2, SubSeqProperties
<1> QED
  BY <1>2, <1>3 DEF longer, n

(* Measuring one post keeps the window what it is.                           *)
LEMMA WindowIsMeasured ==
    ASSUME NEW r \in Seq(BOOLEAN), NEW k \in 1..Len(r)
    PROVE  /\ [r EXCEPT ![k] = TRUE] \in Seq(BOOLEAN)
           /\ Len([r EXCEPT ![k] = TRUE]) = Len(r)
  BY ExceptSeq

(* What the proofs use of the assumption on the constants.                   *)
LEMMA Bounds ==
    ASSUME AccountHealthAssumption
    PROVE  /\ BanDays \in Nat /\ DegradeDays \in 0..BanDays
           /\ DeadLimit \in Nat /\ DeadLimit >= 1
           /\ BanRun \in Nat /\ Backlog \in Nat
           /\ Credentials \in Nat /\ Credentials >= 1
           /\ None \notin Int
  BY DEF AccountHealthAssumption

(* The initial account satisfies the invariant.                              *)
LEMMA InitHolds == ASSUME AccountHealthAssumption, Init PROVE HealthInvariant
<1> USE Bounds DEF Init
<1>1. health \in Health /\ pause \in Pauses /\ age \in 0..BanDays
  OBVIOUS
<1>2. credential \in 1..Credentials /\ deaths \in 0..DeadLimit /\ older \in 0..Backlog
  OBVIOUS
<1>3. recent \in Seq(BOOLEAN) /\ Len(recent) <= BanRun
  OBVIOUS
<1>4. job \in [Jobs -> JobPlaces] /\ lease \in {"free", "probe"} \cup Jobs
  OBVIOUS
<1>5. probe \in [at : ProbePlaces, health : Health, credential : 1..Credentials,
                 answer : Health]
  BY DEF NoProbe
<1>6. touched \subseteq {"checked", "started", "published"} /\ edit \in Editing
  OBVIOUS
<1>7. overlap \in BOOLEAN /\ setback \in BOOLEAN
  BY Zenon
<1> HIDE DEF Init
<1>8. TypeOK
  BY <1>1, <1>2, <1>3, <1>4, <1>5, <1>6, <1>7 DEF TypeOK
<1>9. SetbackHolds /\ SetbackIsSeen
  BY DEF Init, SetbackHolds, SetbackIsSeen
<1> QED
  BY <1>8, <1>9 DEF HealthInvariant

-----------------------------------------------------------------------------
(* What a standing may become: the parts of TypeOK that a write of the       *)
(* health touches.                                                           *)
StandingOK ==
    /\ health \in Health /\ pause \in Pauses /\ age \in 0..BanDays
    /\ touched \subseteq {"checked", "started", "published"}

(* A setback writes an unfit health, and a probe under way sees it.          *)
LEMMA SetbackWrites ==
    ASSUME AccountHealthAssumption, NEW days \in 0..BanDays,
           NEW h \in {"banned", "degraded"}, TypeOK,
           UpdateHealth(h), pause' = days \/ pause' = pause
    PROVE  StandingOK' /\ health' = h /\ (probe.at # "idle" => "checked" \in touched')
<1> USE Bounds DEF TypeOK, UpdateHealth
<1>1. health' \in Health /\ health' = h
  OBVIOUS
<1>2. pause' \in Pauses /\ age' \in 0..BanDays
  OBVIOUS
<1>3. touched' \subseteq {"checked", "started", "published"}
  BY DEF Touches
<1>4. probe.at # "idle" => "checked" \in touched'
  BY DEF Touches
<1> QED
  BY <1>1, <1>2, <1>3, <1>4 DEF StandingOK

(* Days pass.                                                                *)
LEMMA DayPassesPreserves ==
    ASSUME AccountHealthAssumption, HealthInvariant, DayPasses
    PROVE  HealthInvariant'
<1> USE Bounds DEF HealthInvariant, DayPasses, output
<1>1. \A d \in Pauses : Passes(d) \in Pauses
  BY DEF Passes
<1>2. pause' \in Pauses /\ edit' \in Editing
  BY <1>1 DEF TypeOK
<1>3. age' \in 0..BanDays
  BY DEF TypeOK, Lower
<1>4. TypeOK'
  BY <1>2, <1>3 DEF TypeOK
<1> QED
  BY <1>4 DEF SetbackHolds, SetbackIsSeen

(* A DEAD row leaves its window.                                             *)
LEMMA DeathAgesPreserves ==
    ASSUME AccountHealthAssumption, HealthInvariant, DeathAges
    PROVE  HealthInvariant'
<1>1. deaths' \in 0..DeadLimit
  BY Bounds DEF HealthInvariant, DeathAges, TypeOK
<1>2. TypeOK'
  BY <1>1 DEF HealthInvariant, DeathAges, TypeOK, standing, history
<1> QED
  BY <1>2 DEF HealthInvariant, DeathAges, standing, history, SetbackHolds, SetbackIsSeen

(* A refused claim only marks that a row was started.                        *)
LEMMA ClaimRefusedPreserves ==
    ASSUME AccountHealthAssumption, HealthInvariant, ClaimRefused
    PROVE  HealthInvariant'
<1> USE DEF HealthInvariant
<1>1. touched' \subseteq {"checked", "started", "published"}
  BY DEF ClaimRefused, TypeOK, Touches
<1>2. TypeOK'
  BY <1>1 DEF ClaimRefused, TypeOK, output, history
<1> QED
  BY <1>2 DEF ClaimRefused, Touches, history, SetbackHolds, SetbackIsSeen

(* The steps of an execution, except its DEAD end, leave the health alone.   *)
LEMMA ExecutionPreserves ==
    ASSUME AccountHealthAssumption, HealthInvariant, NEW j \in Jobs,
           \/ Claim(j) \/ EnterPublisher(j) \/ LeavePublisher(j)
           \/ EndsQuietly(j) \/ EndsPublished(j)
    PROVE  HealthInvariant'
<1> USE Bounds DEF HealthInvariant, SetbackHolds, SetbackIsSeen
<1>1. CASE Claim(j)
  <2>1. touched' \subseteq {"checked", "started", "published"}
    BY <1>1 DEF Claim, TypeOK, Touches
  <2>2. job' \in [Jobs -> JobPlaces]
    BY <1>1 DEF Claim, TypeOK
  <2>3. TypeOK'
    BY <1>1, <2>1, <2>2 DEF Claim, TypeOK, output, history
  <2> QED
    BY <1>1, <2>3 DEF Claim, Touches, history
<1>2. CASE EnterPublisher(j)
  BY <1>2 DEF EnterPublisher, TypeOK, standing, output, history
<1>3. CASE LeavePublisher(j)
  BY <1>3 DEF LeavePublisher, TypeOK, standing, output, history
<1>4. CASE EndsQuietly(j)
  BY <1>4 DEF EndsQuietly, Finishes, TypeOK, standing, output, history
<1>5. CASE EndsPublished(j)
  <2>1. recent' \in Seq(BOOLEAN) /\ Len(recent') <= BanRun
    BY <1>5, WindowSlides DEF EndsPublished, TypeOK
  <2>2. older' \in 0..Backlog
    BY <1>5 DEF EndsPublished, TypeOK
  <2>3. TypeOK'
    <3>1. touched' \subseteq {"checked", "started", "published"}
      BY <1>5 DEF EndsPublished, TypeOK, Touches
    <3>2. job' \in [Jobs -> JobPlaces]
      BY <1>5 DEF EndsPublished, TypeOK, Finishes
    <3>3. UNCHANGED <<health, pause, age, credential, deaths, lease, probe, edit,
                      overlap, setback>>
      BY <1>5 DEF EndsPublished, history
    <3> QED
      BY <2>1, <2>2, <3>1, <3>2, <3>3 DEF TypeOK
  <2> QED
    BY <1>5, <2>3 DEF EndsPublished, Touches, history
<1> QED
  BY <1>1, <1>2, <1>3, <1>4, <1>5

(* The DEAD end of an execution bans or degrades.                            *)
LEMMA EndsDeadPreserves ==
    ASSUME AccountHealthAssumption, HealthInvariant, NEW j \in Jobs, EndsDead(j)
    PROVE  HealthInvariant'
<1> USE Bounds DEF HealthInvariant
<1>1. PICK h \in {"banned", "degraded"} :
        UpdateHealth(h) /\ (pause' = BanDays \/ pause' = pause)
  BY DEF EndsDead, Escalate, PauseAccount
<1>2. StandingOK' /\ health' = h /\ (probe.at # "idle" => "checked" \in touched')
  BY <1>1, SetbackWrites
<1>3. deaths' \in 0..DeadLimit /\ job' \in [Jobs -> JobPlaces]
  BY DEF EndsDead, TypeOK, Lower, Finishes
<1>4. TypeOK'
  BY <1>2, <1>3 DEF EndsDead, TypeOK, StandingOK
<1> QED
  BY <1>2, <1>4 DEF EndsDead, SetbackHolds, SetbackIsSeen

(* A verdict on the views does nothing, or is a setback.                     *)
LEMMA EvaluatePreserves ==
    ASSUME AccountHealthAssumption, HealthInvariant,
           NEW place \in 0..Len(recent), Evaluate(place)
    PROVE  HealthInvariant'
<1> USE Bounds DEF HealthInvariant
<1>0. UNCHANGED <<credential, deaths, job, lease, probe, overlap, edit>>
  BY DEF Evaluate
<1>1. recent' \in Seq(BOOLEAN) /\ Len(recent') <= BanRun
  <2>1. CASE place = 0
    BY <2>1 DEF Evaluate, TypeOK
  <2>2. CASE place # 0
    <3>1. recent \in Seq(BOOLEAN) /\ place \in 1..Len(recent)
      BY <2>2 DEF TypeOK
    <3> QED
      BY <2>2, <3>1, WindowIsMeasured DEF Evaluate, TypeOK
  <2> QED
    BY <2>1, <2>2
<1>2. older' \in 0..Backlog
  BY DEF Evaluate, TypeOK
<1>3. PICK verdict \in {"ban", "degrade", "none"} :
        Acts(verdict) /\ setback' = (setback \/ verdict # "none")
  BY DEF Evaluate, Verdict
<1>4. CASE verdict = "none"
  <2>1. UNCHANGED standing /\ setback' = setback
    BY <1>3, <1>4 DEF Acts, SetbackHolds, TypeOK
  <2>2. TypeOK'
    BY <1>0, <1>1, <1>2, <2>1 DEF TypeOK, standing
  <2> QED
    BY <1>0, <2>1, <2>2 DEF standing, SetbackHolds, SetbackIsSeen
<1>5. CASE verdict # "none"
  <2>1. PICK h \in {"banned", "degraded"}, days \in 0..BanDays :
          UpdateHealth(h) /\ pause' = days
    <3>1. CASE verdict = "ban"
      BY <1>3, <3>1 DEF Acts, PauseAccount
    <3>2. CASE verdict = "degrade"
      BY <1>3, <3>2 DEF Acts, PauseAccount
    <3> QED
      BY <1>5, <3>1, <3>2
  <2>2. StandingOK' /\ health' = h /\ (probe.at # "idle" => "checked" \in touched')
    BY <2>1, SetbackWrites
  <2>3. TypeOK'
    BY <1>0, <1>1, <1>2, <1>3, <1>5, <2>2 DEF TypeOK, StandingOK
  <2> QED
    BY <1>0, <2>2, <2>3 DEF SetbackHolds, SetbackIsSeen
<1> QED
  BY <1>4, <1>5

(* A probe that ends leaves nothing behind.                                  *)
LEMMA ProbeEndsClean ==
    ASSUME AccountHealthAssumption, ProbeEnds
    PROVE  /\ probe' \in [at : ProbePlaces, health : Health, credential : 1..Credentials,
                          answer : Health]
           /\ touched' \subseteq {"checked", "started", "published"}
           /\ overlap' \in BOOLEAN
           /\ probe'.at = "idle"
<1>1. overlap' \in BOOLEAN
  BY Zenon DEF ProbeEnds
<1> QED
  BY <1>1, Bounds DEF ProbeEnds, NoProbe

(* The probe starts with a clean sheet, and writes only when it stayed so.   *)
LEMMA ProbePreserves ==
    ASSUME AccountHealthAssumption, HealthInvariant, DailyProbe
    PROVE  HealthInvariant'
<1> USE Bounds DEF HealthInvariant, SetbackHolds, SetbackIsSeen
<1>1. CASE Prepare
  BY <1>1 DEF Prepare, TypeOK, output
<1>2. CASE TakeLease
  BY <1>2 DEF TakeLease, TypeOK, standing, output, history
<1>3. ASSUME NEW h \in Health, Answer(h) PROVE HealthInvariant'
  BY <1>3 DEF Answer, TypeOK, standing, output, history
<1>4. CASE GiveUp
  <2>1. TypeOK'
    BY <1>4, ProbeEndsClean DEF GiveUp, TypeOK, output
  <2> QED
    BY <1>4, <2>1, ProbeEndsClean DEF GiveUp
<1>5. CASE Discard
  <2>1. TypeOK'
    BY <1>5, ProbeEndsClean DEF Discard, TypeOK, output
  <2> QED
    BY <1>5, <2>1, ProbeEndsClean DEF Discard
<1>6. CASE Settle
  <2>1. touched = {} /\ ~setback
    BY <1>6 DEF Settle, Stale
  <2>2. ProbeDueIn \in 0..BanDays
    BY DEF ProbeDueIn, TypeOK
  <2>3. health' \in Health /\ pause' \in Pauses
    BY <1>6, <2>2 DEF Settle, TypeOK
  <2>4. age' \in 0..BanDays
    BY <1>6 DEF Settle, TypeOK
  <2>5. TypeOK'
    BY <1>6, <2>3, <2>4, ProbeEndsClean DEF Settle, TypeOK, output
  <2> QED
    BY <1>6, <2>1, <2>5 DEF Settle, ProbeEnds, NoProbe
<1> QED
  BY <1>1, <1>2, <1>3, <1>4, <1>5, <1>6 DEF DailyProbe

(* Operators write neither health nor history.                               *)
LEMMA OperatorPreserves ==
    ASSUME AccountHealthAssumption, HealthInvariant, Operator
    PROVE  HealthInvariant'
<1> USE Bounds DEF HealthInvariant, SetbackHolds, SetbackIsSeen
<1>1. CASE RotateCredential
  BY <1>1 DEF RotateCredential, TypeOK, standing, output, history
<1>2. CASE OpenProfile
  BY <1>2 DEF OpenProfile, TypeOK, standing, output, history
<1>3. CASE SaveProfile
  <2>1. pause' \in Pauses
    BY <1>3 DEF SaveProfile, TypeOK
  <2> QED
    BY <1>3, <2>1 DEF SaveProfile, TypeOK, output, history
<1> QED
  BY <1>1, <1>2, <1>3 DEF Operator

(* Every step preserves the invariant.                                       *)
LEMMA StepPreserves ==
    ASSUME AccountHealthAssumption, HealthInvariant, [Next]_vars
    PROVE  HealthInvariant'
<1>1. CASE UNCHANGED vars
  BY <1>1 DEF vars, HealthInvariant, TypeOK, SetbackHolds, SetbackIsSeen
<1>2. CASE \E j \in Jobs : Execution(j)
  <2>1. PICK j \in Jobs : Execution(j)
    BY <1>2
  <2>2. CASE EndsDead(j)
    BY <2>2, EndsDeadPreserves
  <2>3. CASE ~EndsDead(j)
    BY <2>1, <2>3, ExecutionPreserves DEF Execution, Ends
  <2> QED
    BY <2>2, <2>3
<1>3. CASE \E place \in 0..Len(recent) : Evaluate(place)
  BY <1>3, EvaluatePreserves
<1> QED
  BY <1>1, <1>2, <1>3, DayPassesPreserves, DeathAgesPreserves, ClaimRefusedPreserves,
     ProbePreserves, OperatorPreserves DEF Next

(* The invariant holds for ever.                                             *)
THEOREM HealthIsSound == Spec => []HealthInvariant
<1> SUFFICES ASSUME AccountHealthAssumption PROVE Spec => []HealthInvariant
  BY AccountHealthAssumption
<1>1. Init => HealthInvariant
  BY InitHolds
<1>2. HealthInvariant /\ [Next]_vars => HealthInvariant'
  BY StepPreserves
<1> QED
  BY <1>1, <1>2, PTL DEF Spec

(* Type correctness.                                                         *)
COROLLARY HealthTypes == Spec => []TypeOK
<1>1. HealthInvariant => TypeOK
  BY DEF HealthInvariant
<1> QED
  BY <1>1, HealthIsSound, PTL

(* A setback keeps the account out of service until a probe that began after *)
(* it.                                                                       *)
COROLLARY SetbacksHold == Spec => []SetbackHolds
<1>1. HealthInvariant => SetbackHolds
  BY DEF HealthInvariant
<1> QED
  BY <1>1, HealthIsSound, PTL

-----------------------------------------------------------------------------
(* Only a probe restores the right to publish, and only when it settles.     *)
LEMMA OnlyProbesRestore ==
    ASSUME AccountHealthAssumption, TypeOK, [Next]_vars,
           health \notin Runnable, health' \in Runnable
    PROVE  Settle
<1>1. ~UNCHANGED health
  OBVIOUS
<1>2. ASSUME NEW j \in Jobs, Execution(j) PROVE FALSE
  <2>1. CASE EndsDead(j)
    BY <2>1 DEF EndsDead, Escalate, PauseAccount, UpdateHealth
  <2> QED
    BY <1>1, <1>2, <2>1 DEF Execution, Ends, Claim, EnterPublisher, LeavePublisher,
       EndsQuietly, EndsPublished, standing
<1>3. ASSUME NEW place \in 0..Len(recent), Evaluate(place) PROVE FALSE
  <2>1. PICK verdict \in {"ban", "degrade", "none"} : Acts(verdict)
    BY <1>3 DEF Evaluate, Verdict
  <2>2. CASE verdict = "ban"
    BY <2>1, <2>2 DEF Acts, PauseAccount, UpdateHealth
  <2>3. CASE verdict = "degrade"
    BY <2>1, <2>3 DEF Acts, PauseAccount, UpdateHealth
  <2>4. CASE verdict = "none"
    BY <1>1, <2>1, <2>4 DEF Acts, standing
  <2> QED
    BY <2>2, <2>3, <2>4
<1>4. DailyProbe => Settle
  BY <1>1 DEF DailyProbe, Prepare, TakeLease, GiveUp, Discard, Answer, standing
<1>5. ~Operator /\ ~DayPasses /\ ~DeathAges /\ ~ClaimRefused
  BY <1>1 DEF Operator, RotateCredential, OpenProfile, SaveProfile, DayPasses, DeathAges,
     ClaimRefused, standing
<1> QED
  BY <1>1, <1>2, <1>3, <1>4, <1>5 DEF Next, vars

(* A banned account returns to service only by a probe that was answered     *)
(* HEALTHY when the ban was due.                                             *)
THEOREM RecoveriesAreEarned == Spec => RecoveryIsEarned
<1> SUFFICES ASSUME AccountHealthAssumption PROVE Spec => RecoveryIsEarned
  BY AccountHealthAssumption
<1> DEFINE Earned == health = "banned" /\ health' \in Runnable =>
                       /\ probe.at = "answered" /\ probe.answer = "healthy"
                       /\ probe.health = "banned"
                       /\ ProbeDueIn = 0
<1>1. TypeOK /\ [Next]_vars => [Earned]_vars
  <2> SUFFICES ASSUME TypeOK, [Next]_vars, health = "banned", health' \in Runnable
               PROVE  Earned
    OBVIOUS
  <2>1. Settle
    BY OnlyProbesRestore
  <2> QED
    BY <2>1 DEF Settle, Stale, Recovers, BanProbeDue
<1>2. [][Earned]_vars => RecoveryIsEarned
  BY DEF RecoveryIsEarned
<1> QED
  BY <1>1, <1>2, HealthTypes, PTL DEF Spec

(* Who runs while a probe is under way claimed his row after its snapshot.   *)
LEMMA StartsAreSeen == Spec => []StartIsSeen
<1> SUFFICES ASSUME AccountHealthAssumption PROVE Spec => []StartIsSeen
  BY AccountHealthAssumption
<1>1. Init => StartIsSeen
  BY DEF Init, NoProbe, StartIsSeen
<1>2. TypeOK /\ StartIsSeen /\ [Next]_vars => StartIsSeen'
  <2> SUFFICES ASSUME TypeOK, StartIsSeen, [Next]_vars PROVE StartIsSeen'
    OBVIOUS
  <2> USE DEF StartIsSeen, Running
  <2>1. CASE UNCHANGED <<job, probe, touched, overlap>>
    BY <2>1
  <2>2. ASSUME NEW j \in Jobs, Execution(j) PROVE StartIsSeen'
    <3>1. CASE Claim(j) \/ EndsPublished(j) \/ EndsDead(j)
      <4>1. UNCHANGED <<probe, overlap>>
        BY <3>1 DEF Claim, EndsPublished, EndsDead, history
      <4>2. CASE Claim(j)
        BY <4>1, <4>2 DEF Claim, Touches
      <4>3. CASE EndsPublished(j) \/ EndsDead(j)
        <5>1. touched \subseteq touched' \/ probe.at = "idle"
          BY <4>3 DEF EndsPublished, EndsDead, Escalate, PauseAccount, UpdateHealth, Touches
        <5>2. Running
          BY <4>3 DEF EndsPublished, EndsDead
        <5> QED
          BY <4>1, <5>1, <5>2
      <4> QED
        BY <3>1, <4>2, <4>3
    <3>2. CASE EnterPublisher(j) \/ LeavePublisher(j) \/ EndsQuietly(j)
      <4>1. Running
        BY <3>2 DEF EnterPublisher, LeavePublisher, EndsQuietly
      <4>2. UNCHANGED <<probe, touched>>
        BY <3>2 DEF EnterPublisher, LeavePublisher, EndsQuietly, standing
      <4> QED
        BY <4>1, <4>2
    <3> QED
      BY <2>2, <3>1, <3>2 DEF Execution, Ends
  <2>3. ASSUME NEW place \in 0..Len(recent), Evaluate(place) PROVE StartIsSeen'
    <3>1. UNCHANGED <<job, probe, overlap>>
      BY <2>3 DEF Evaluate
    <3>2. PICK verdict \in {"ban", "degrade", "none"} : Acts(verdict)
      BY <2>3 DEF Evaluate, Verdict
    <3>3. touched \subseteq touched' \/ probe.at = "idle"
      <4>1. CASE verdict = "ban"
        BY <3>2, <4>1 DEF Acts, PauseAccount, UpdateHealth, Touches
      <4>2. CASE verdict = "degrade"
        BY <3>2, <4>2 DEF Acts, PauseAccount, UpdateHealth, Touches
      <4>3. CASE verdict = "none"
        BY <3>2, <4>3 DEF Acts, standing
      <4> QED
        BY <4>1, <4>2, <4>3
    <3> QED
      BY <3>1, <3>3
  <2>4. CASE DailyProbe
    <3>1. CASE Prepare
      BY <3>1 DEF Prepare
    <3>2. CASE GiveUp \/ Discard \/ Settle
      BY <3>2, ProbeEndsClean DEF GiveUp, Discard, Settle
    <3>3. CASE TakeLease \/ (\E h \in Health : Answer(h))
      <4>1. UNCHANGED <<job, touched, overlap>> /\ probe.at # "idle"
        BY <3>3 DEF TakeLease, Answer, standing, history
      <4> QED
        BY <4>1
    <3> QED
      BY <2>4, <3>1, <3>2, <3>3 DEF DailyProbe
  <2>5. CASE Operator \/ DayPasses \/ DeathAges
    BY <2>1, <2>5 DEF Operator, RotateCredential, OpenProfile, SaveProfile, DayPasses,
       DeathAges, standing, history
  <2>6. CASE ClaimRefused
    <3>1. UNCHANGED <<job, probe, overlap>> /\ (touched \subseteq touched' \/ probe.at = "idle")
      BY <2>6 DEF ClaimRefused, Touches, history
    <3> QED
      BY <3>1
  <2>7. CASE UNCHANGED vars
    BY <2>1, <2>7 DEF vars
  <2> QED
    BY <2>2, <2>3, <2>4, <2>5, <2>6, <2>7 DEF Next
<1> QED
  BY <1>1, <1>2, HealthTypes, PTL DEF Spec

(* A probe's verdict is written about the stored credential and an account   *)
(* that nobody published with since the snapshot.                            *)
THEOREM VerdictsAreCurrent == Spec => VerdictIsCurrent
<1> SUFFICES ASSUME AccountHealthAssumption PROVE Spec => VerdictIsCurrent
  BY AccountHealthAssumption
<1> DEFINE Current == probe.at = "answered" /\ health' # health /\ probe'.at = "idle" =>
                        probe.credential = credential /\ ~overlap
<1>1. StartIsSeen /\ [Next]_vars => [Current]_vars
  <2> SUFFICES ASSUME StartIsSeen, [Next]_vars, probe.at = "answered", health' # health,
                      probe'.at = "idle"
               PROVE  Current
    OBVIOUS
  <2>1. probe' # probe
    OBVIOUS
  <2>2. DailyProbe
    BY <2>1 DEF Next, vars, Execution, Ends, Claim, ClaimRefused, EnterPublisher,
       LeavePublisher, EndsQuietly, EndsPublished, EndsDead, Evaluate, DayPasses, DeathAges,
       Operator, RotateCredential, OpenProfile, SaveProfile
  <2>3. Settle
    BY <2>2 DEF DailyProbe, Prepare, TakeLease, GiveUp, Discard, Answer, standing
  <2> QED
    BY <2>3 DEF Settle, Stale, StartIsSeen
<1>2. [][Current]_vars => VerdictIsCurrent
  BY DEF VerdictIsCurrent
<1> QED
  BY <1>1, <1>2, StartsAreSeen, PTL DEF Spec
=============================================================================
