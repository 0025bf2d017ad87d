----------------------------- MODULE AccountHealth -----------------------------
(***************************************************************************)
(* The health, the pause and the ban of one account, and everybody who     *)
(* writes them: the daily probe, which reads the platform between two      *)
(* transactions; publications that end DEAD; the evaluation of 24 h        *)
(* metrics; and operators who edit the account.  Accounts share no state,  *)
(* so one is modelled.                                                     *)
(*                                                                         *)
(* Time is counted in days: a deadline is what is left of it.  The         *)
(* timestamps that a probe compares are never equal by chance, so "differs *)
(* from the snapshot" is "written since the snapshot": touched.  A         *)
(* definition named Bug... is a deliberate fault that only the mutation    *)
(* runs use.                                                               *)
(***************************************************************************)
EXTENDS Integers, Sequences

CONSTANTS
    Jobs,          \* executions that may be under way at once; reused
    BanDays,       \* BAN_PAUSE_HOURS
    DegradeDays,   \* DEGRADE_PAUSE_HOURS
    DeadLimit,     \* DEAD rows within 24 h that make a ban
    BanRun,        \* BAN_TRIGGER_WINDOW
    DegradeRun,    \* DEGRADE_TRIGGER_WINDOW
    Backlog,       \* a bound: unmeasured posts older than the last BanRun
    Credentials,   \* a bound: generations of the stored credential, 1..n
    Editors,       \* do operators edit the profile?
    None, Closed

ASSUME AccountHealthAssumption ==
    /\ DegradeDays \in Nat /\ BanDays \in Nat /\ DegradeDays <= BanDays
    /\ DeadLimit \in Nat \ {0}
    /\ DegradeRun \in Nat \ {0} /\ BanRun \in Nat /\ DegradeRun <= BanRun
    /\ Backlog \in Nat
    /\ Credentials \in Nat \ {0}
    /\ Editors \in BOOLEAN
    /\ None \notin Int /\ Closed \notin Int \cup {None}
    /\ {"free", "probe"} \cap Jobs = {}

VARIABLES
    health,
    pause,        \* days left of profile.paused_until, 0 when it is past
    age,          \* days since last_health_check_at, BanDays when more
    credential,   \* generation of encrypted_credential
    deaths,       \* DEAD rows of the last 24 h, DeadLimit when more
    recent,       \* the last BanRun successes, newest first: is it measured?
    older,        \* unmeasured successes before those
    job,          \* what the executions are doing
    lease,        \* holder of the account's kernel lock
    probe,        \* the daily check of this account
    touched,      \* what was written since the probe's snapshot
    overlap,      \* history: was a publisher entered since the snapshot?
    edit,         \* the pause in the profile an operator's edit has read
    setback       \* history: no probe began since the last setback

standing == <<health, pause, age, touched>>
output == <<deaths, recent, older>>
history == <<overlap, setback>>
vars == <<health, pause, age, credential, deaths, recent, older, job, lease,
          probe, touched, overlap, edit, setback>>

-----------------------------------------------------------------------------
Health == {"healthy", "degraded", "banned", "expired", "unknown"}
Runnable == {"healthy", "unknown"}
Pauses == {None} \cup (0..BanDays)
Editing == {Closed} \cup Pauses
ProbePlaces == {"idle", "prepared", "reading", "answered"}
JobPlaces == {"idle", "claimed", "publishing", "returned"}
NoProbe == [at |-> "idle", health |-> "unknown", credential |-> 1, answer |-> "unknown"]

Lower(a, b) == IF a < b THEN a ELSE b
Passes(d) == IF d = None \/ d = 0 THEN d ELSE d - 1
Paused == pause # None /\ pause > 0

Touches(what) == touched' = IF probe.at = "idle" THEN {} ELSE touched \cup {what}

(* update_health.                                                            *)
UpdateHealth(h) == health' = h /\ age' = 0 /\ Touches("checked")

(* pause_account replaces a pause, whichever is longer.                      *)
PauseAccount(h, days) == pause' = days /\ UpdateHealth(h)

BugProbeDueIn == IF pause # None THEN pause ELSE 1

(* get_ban_probe_at and is_ban_probe_due: a ban without a deadline counts    *)
(* from the last write of the health.                                        *)
ProbeDueIn == IF pause # None THEN pause ELSE BanDays - age
BanProbeDue == health = "banned" /\ ProbeDueIn = 0

Running == \E j \in Jobs : job[j] # "idle"

BugForgetsStarts == Running \/ touched \ {"started"} # {} \/ health # probe.health
                    \/ credential # probe.credential

(* _probe_is_stale.                                                          *)
Stale == \/ Running
         \/ touched # {}
         \/ health # probe.health
         \/ credential # probe.credential

-----------------------------------------------------------------------------
Init ==
    /\ health = "unknown" /\ pause = None /\ age = 0
    /\ credential = 1
    /\ deaths = 0 /\ recent = <<>> /\ older = 0
    /\ job = [j \in Jobs |-> "idle"]
    /\ lease = "free"
    /\ probe = NoProbe /\ touched = {} /\ overlap = FALSE
    /\ edit = Closed
    /\ setback = FALSE

DayPasses ==
    /\ pause' = Passes(pause)
    /\ edit' = IF edit = Closed THEN edit ELSE Passes(edit)
    /\ age' = Lower(age + 1, BanDays)
    /\ UNCHANGED <<health, credential, output, job, lease, probe, touched, overlap, setback>>

(* A DEAD row leaves the window of 24 hours.                                 *)
DeathAges ==
    /\ deaths > 0
    /\ deaths' = deaths - 1
    /\ UNCHANGED <<standing, credential, recent, older, job, lease, probe, edit, history>>

-----------------------------------------------------------------------------
(* The claim's transaction, with the gates of pause and health.              *)
Claim(j) ==
    /\ job[j] = "idle"
    /\ ~Paused /\ health \in Runnable
    /\ job' = [job EXCEPT ![j] = "claimed"]
    /\ Touches("started")
    /\ UNCHANGED <<health, pause, age, credential, output, lease, probe, edit, history>>

(* A gate refuses the row: its transaction commits the deferral or the       *)
(* failure, and started_at with it.                                          *)
ClaimRefused ==
    /\ Touches("started")
    /\ UNCHANGED <<health, pause, age, credential, output, job, lease, probe, edit, history>>

EnterPublisher(j) ==
    /\ job[j] = "claimed" /\ lease = "free"
    /\ lease' = j
    /\ job' = [job EXCEPT ![j] = "publishing"]
    /\ overlap' = (probe.at # "idle")
    /\ UNCHANGED <<standing, credential, output, probe, edit, setback>>

(* The publisher returns, times out or dies with its process, which leaves   *)
(* the row RUNNING and frees the kernel lock.                                *)
LeavePublisher(j) ==
    /\ job[j] = "publishing"
    /\ lease' = "free"
    /\ job' = [job EXCEPT ![j] = "returned"]
    /\ UNCHANGED <<standing, credential, output, probe, edit, history>>

Finishes(j) == job' = [job EXCEPT ![j] = "idle"]

(* Retries, deferrals, permanent failures and rows closed by recovery leave  *)
(* the account alone.                                                        *)
EndsQuietly(j) ==
    /\ job[j] \in {"claimed", "returned"}
    /\ Finishes(j)
    /\ UNCHANGED <<standing, credential, output, lease, probe, edit, history>>

(* SUCCESS and mark_published.  A new post pushes the oldest out of the      *)
(* window that an evaluation looks at.                                       *)
EndsPublished(j) ==
    LET pushed == Len(recent) = BanRun /\ ~recent[BanRun] IN
    /\ job[j] = "returned"
    /\ pushed => older < Backlog
    /\ Finishes(j)
    /\ recent' = SubSeq(<<FALSE>> \o recent, 1, Lower(Len(recent) + 1, BanRun))
    /\ older' = older + (IF pushed THEN 1 ELSE 0)
    /\ Touches("published")
    /\ UNCHANGED <<health, pause, age, credential, deaths, lease, probe, edit, history>>

BugEscalate(n) ==
    IF n >= DeadLimit THEN PauseAccount("banned", BanDays)
    ELSE UNCHANGED standing

(* _escalate_health_on_failure.                                              *)
Escalate(n) ==
    IF n >= DeadLimit THEN PauseAccount("banned", BanDays)
    ELSE UpdateHealth("degraded") /\ UNCHANGED pause

(* A retryable failure without attempts left: DEAD.                          *)
EndsDead(j) ==
    /\ job[j] = "returned"
    /\ Finishes(j)
    /\ deaths' = Lower(deaths + 1, DeadLimit)
    /\ Escalate(deaths + 1)
    /\ setback' = TRUE
    /\ UNCHANGED <<credential, recent, older, lease, probe, overlap, edit>>

-----------------------------------------------------------------------------
(* evaluate_after_metrics, once the post at this place (0 for an older one)  *)
(* has its 24 h snapshot.  low: the places whose views are below a fifth of  *)
(* the baseline, which is the median of the last week and may be anything.   *)
Verdict(place, low) ==
    IF place \notin low THEN "none"
    ELSE IF 1..BanRun \subseteq low THEN "ban"
    ELSE IF 1..DegradeRun \subseteq low THEN "degrade" ELSE "none"

Acts(verdict) ==
    CASE verdict = "ban" -> PauseAccount("banned", BanDays)
      [] verdict = "degrade" -> PauseAccount("degraded", DegradeDays)
      [] verdict = "none" -> UNCHANGED standing

\* The posts whose snapshots the baseline is taken from: those that have one.
Measured(known) == {0} \cup {k \in 1..Len(known) : known[k]}

Evaluate(place) ==
    LET known == IF place = 0 THEN recent ELSE [recent EXCEPT ![place] = TRUE]
    IN
    /\ IF place = 0 THEN older > 0 ELSE ~recent[place]
    /\ recent' = known
    /\ older' = IF place = 0 THEN older - 1 ELSE older
    /\ \E low \in SUBSET Measured(known) :
         /\ Acts(Verdict(place, low))
         /\ setback' = (setback \/ Verdict(place, low) # "none")
    /\ UNCHANGED <<credential, deaths, job, lease, probe, overlap, edit>>

-----------------------------------------------------------------------------
(* _prepare_probe: the snapshot.                                             *)
Prepare ==
    /\ probe.at = "idle"
    /\ health = "banned" => BanProbeDue
    /\ ~Running
    /\ probe' = [at |-> "prepared", health |-> health, credential |-> credential,
                 answer |-> "unknown"]
    /\ setback' = FALSE
    /\ touched' = {} /\ overlap' = FALSE
    /\ UNCHANGED <<health, pause, age, credential, output, job, lease, edit>>

(* The lease with timeout 0.                                                 *)
TakeLease ==
    /\ probe.at = "prepared" /\ lease = "free"
    /\ lease' = "probe"
    /\ probe' = [probe EXCEPT !.at = "reading"]
    /\ UNCHANGED <<standing, credential, output, job, edit, history>>

Answer(h) ==
    /\ probe.at = "reading"
    /\ lease' = "free"
    /\ probe' = [at |-> "answered", health |-> probe.health,
                 credential |-> probe.credential, answer |-> h]
    /\ UNCHANGED <<standing, credential, output, job, edit, history>>

ProbeEnds == probe' = NoProbe /\ touched' = {} /\ overlap' = FALSE

(* The lease is busy, no publisher can be resolved, or the process dies.     *)
GiveUp ==
    /\ probe.at # "idle"
    /\ lease' = IF lease = "probe" THEN "free" ELSE lease
    /\ ProbeEnds
    /\ UNCHANGED <<health, pause, age, credential, output, job, edit, setback>>

Discard ==
    /\ probe.at = "answered" /\ Stale
    /\ ProbeEnds
    /\ UNCHANGED <<health, pause, age, credential, output, job, lease, edit, setback>>

BugRecovers == probe.answer \in Runnable

(* The re-check of recover_banned_account inside the write transaction.      *)
Recovers == probe.answer = "healthy" /\ BanProbeDue

(* recover_banned_account, record_banned_probe or update_health.             *)
Settle ==
    /\ probe.at = "answered" /\ ~Stale
    /\ health' = IF probe.health # "banned" THEN probe.answer
                 ELSE IF Recovers THEN "healthy" ELSE "banned"
    /\ pause' = IF probe.health # "banned" THEN pause
                ELSE IF Recovers THEN None ELSE ProbeDueIn
    /\ age' = 0
    /\ ProbeEnds
    /\ UNCHANGED <<credential, output, job, lease, edit, setback>>

-----------------------------------------------------------------------------
(* update_account with a credential.                                         *)
RotateCredential ==
    /\ credential < Credentials
    /\ credential' = credential + 1
    /\ UNCHANGED <<standing, output, job, lease, probe, edit, history>>

(* update_account copies the whole profile, changes one key, and writes the  *)
(* copy back.                                                                *)
OpenProfile ==
    /\ Editors /\ edit = Closed
    /\ edit' = pause
    /\ UNCHANGED <<standing, credential, output, job, lease, probe, history>>

SaveProfile ==
    /\ edit # Closed
    /\ pause' = edit
    /\ edit' = Closed
    /\ UNCHANGED <<health, age, credential, output, job, lease, probe, touched, history>>

-----------------------------------------------------------------------------
Ends(j) == EndsQuietly(j) \/ EndsPublished(j) \/ EndsDead(j)
Execution(j) == Claim(j) \/ EnterPublisher(j) \/ LeavePublisher(j) \/ Ends(j)
DailyProbe ==
    \/ Prepare \/ TakeLease \/ GiveUp \/ Discard \/ Settle
    \/ \E h \in Health : Answer(h)
Operator == RotateCredential \/ OpenProfile \/ SaveProfile

Next ==
    \/ DayPasses \/ DeathAges \/ ClaimRefused
    \/ \E j \in Jobs : Execution(j)
    \/ \E place \in 0..Len(recent) : Evaluate(place)
    \/ DailyProbe
    \/ Operator

Spec == Init /\ [][Next]_vars

(* The daily cron runs, days pass, and an execution ends (its timeouts and   *)
(* the recovery of stale rows).                                              *)
Fairness ==
    /\ WF_vars(DayPasses)
    /\ WF_vars(Prepare) /\ WF_vars(Discard \/ Settle)
    /\ WF_vars(\E h \in Health : Answer(h)) /\ WF_vars(TakeLease)
    /\ \A j \in Jobs : WF_vars(LeavePublisher(j)) /\ WF_vars(EndsQuietly(j))

FairSpec == Spec /\ Fairness

(* Again and again a probe that no claim disturbs finds the lease free, is   *)
(* answered HEALTHY and lives to write it.                                   *)
KindPlatform ==
    /\ SF_vars(TakeLease /\ touched = {})
    /\ SF_vars(Answer("healthy") /\ touched = {})
    /\ SF_vars(Settle /\ probe.answer = "healthy")

-----------------------------------------------------------------------------
TypeOK ==
    /\ health \in Health /\ pause \in Pauses /\ age \in 0..BanDays
    /\ credential \in 1..Credentials
    /\ deaths \in 0..DeadLimit
    /\ recent \in Seq(BOOLEAN) /\ Len(recent) <= BanRun /\ older \in 0..Backlog
    /\ job \in [Jobs -> JobPlaces]
    /\ lease \in {"free", "probe"} \cup Jobs
    /\ probe \in [at : ProbePlaces, health : Health, credential : 1..Credentials,
                  answer : Health]
    /\ touched \subseteq {"checked", "started", "published"}
    /\ edit \in Editing
    /\ overlap \in BOOLEAN /\ setback \in BOOLEAN

(* A publication that ended DEAD, or a verdict on its views, takes the       *)
(* account out of service until a probe that began afterwards says           *)
(* otherwise: the answer of a probe that was already under way is discarded. *)
SetbackHolds == setback => health \notin Runnable

(* A probe's verdict is about the credential that is stored, and about an    *)
(* account that nobody entered a publisher with since its snapshot.          *)
VerdictIsCurrent ==
    [][probe.at = "answered" /\ health' # health /\ probe'.at = "idle" =>
         probe.credential = credential /\ ~overlap]_vars

(* A banned account returns to service in one way only: a probe answered     *)
(* HEALTHY when the ban's deadline had passed.                               *)
RecoveryIsEarned ==
    [][health = "banned" /\ health' \in Runnable =>
         /\ probe.at = "answered" /\ probe.answer = "healthy"
         /\ probe.health = "banned"
         /\ ProbeDueIn = 0]_vars

(* A ban is never forgotten: sooner or later the account is probed again.    *)
BannedIsReexamined ==
    health = "banned" ~>
        \/ probe.at = "prepared" /\ probe.health = "banned"
        \/ health # "banned"

(* If the platform keeps answering HEALTHY, no ban is for ever.              *)
BansEnd == KindPlatform => (health = "banned" ~> health # "banned")

=============================================================================
