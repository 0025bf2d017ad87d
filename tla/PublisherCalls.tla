---------------------------- MODULE PublisherCalls ----------------------------
(* What the publishers of a platform have in common, and the loop of the     *)
(* worker that tries them in turn (worker._try_publishers, registry.py).     *)
(*                                                                           *)
(* A call crosses a write boundary (the click on the publish button, the     *)
(* start of a command, a request); from then on its write is on its way and  *)
(* the platform accepts or refuses it when it likes, during the call or long *)
(* after.  A call is cancelled at an await, by the deadline of the job or by *)
(* the end of the worker.                                                    *)
EXTENDS Integers, Sequences, PublisherPlugins

CONSTANTS
    Platforms,    \* the platforms of the instance
    None,         \* no post
    Approved,     \* external account an exact approval was given for
    Stranger,     \* any other external account
    MaxAttempts   \* attempts of the job

VARIABLES
    platform,     \* where the article goes
    exact,        \* the job carries an exact approval
    job,          \* pending, running, success, failed
    attempts,     \* attempts made
    route,        \* publishers this attempt has not tried yet
    at,           \* place of the current call, "idle" between calls
    pending,      \* result of the current call while the browser is closed
    calls,        \* history: every call with its write and its result
    listing,      \* posts of the account, newest first; 0 is one made before
    profile,      \* external account the profile of the CLI is logged in to
    swallowed     \* history: calls that turned a cancellation into a result

worker == <<platform, exact, job, attempts, route>>
vars   == <<worker, at, pending, calls, listing, profile, swallowed, plugins>>

\* An exact approval names one publisher; here those are for the Zhihu CLI.
Candidates == Resolve({a \in Registered(platform) : exact => a = "zhihu_cli"})

-----------------------------------------------------------------------------
(* Results (schemas.PublishResult).                                          *)

Result(success, effect, uncertain, retry, post) ==
    [success |-> success, effect |-> effect, uncertain |-> uncertain,
     retry |-> retry /\ (effect => success), post |-> post]

Clean        == Result(FALSE, FALSE, FALSE, TRUE, None)
CleanFinal   == Result(FALSE, FALSE, FALSE, FALSE, None)
Unknown      == Result(FALSE, FALSE, TRUE, FALSE, None)
Partial(p)   == Result(FALSE, TRUE, FALSE, FALSE, p)
Doubtful(p)  == Result(FALSE, TRUE, TRUE, FALSE, p)
Published(p) == Result(TRUE, TRUE, FALSE, FALSE, p)
NoResult     == Result(FALSE, FALSE, FALSE, FALSE, 0)

\* sent: on its way; draft, post: on the platform; submitted: a draft whose
\* publication is on its way; refused: it will never be there.
Writes == {"none", "sent", "draft", "submitted", "post", "refused"}
Made   == {"draft", "submitted", "post"}

cur    == Len(calls)
Now    == calls[cur]
Mine(w) == Now.write = w

Init ==
    /\ platform \in Platforms
    /\ exact \in (IF platform = "zhihu" /\ "zhihu_cli" \in Enabled
                  THEN BOOLEAN ELSE {FALSE})
    /\ job = "pending" /\ attempts = 0 /\ route = <<>>
    /\ at = "idle" /\ pending = NoResult
    /\ calls = <<>> /\ listing = <<0>>
    /\ profile \in {Approved, Stranger}
    /\ swallowed = {}
    /\ PluginsInit

-----------------------------------------------------------------------------
(* The worker.                                                               *)

WorldStays == UNCHANGED <<listing, profile, plugins>>

\* The attempt takes the lease of the account and resolves the publishers.
BeginAttempt ==
    /\ job = "pending" /\ attempts < MaxAttempts /\ ~RefusesRoute(platform)
    /\ attempts' = attempts + 1
    /\ route' = Candidates
    /\ job' = IF Candidates # <<>> THEN "running"
              ELSE IF ~exact /\ attempts + 1 < MaxAttempts THEN "pending"
              ELSE "failed"
    /\ UNCHANGED <<platform, exact, at, pending, calls, swallowed>> /\ WorldStays

\* A configuration that cannot be trusted ends the job; nothing was written.
RouteRefused ==
    /\ job = "pending" /\ attempts < MaxAttempts /\ RefusesRoute(platform)
    /\ attempts' = attempts + 1 /\ job' = "failed"
    /\ UNCHANGED <<platform, exact, route, at, pending, calls, swallowed>> /\ WorldStays

BeginCall ==
    /\ job = "running" /\ at = "idle" /\ route # <<>>
    /\ at' = "start"
    /\ calls' = Append(calls, [by |-> Head(route), try |-> attempts, write |-> "none",
                               account |-> None, result |-> NoResult])
    /\ route' = Tail(route)
    /\ UNCHANGED <<platform, exact, job, attempts, pending, swallowed>> /\ WorldStays

\* A mistake: an unknown outcome is treated like a failure.
BugAfterResult(r) ==
    job' = CASE r.success             -> "success"
             [] ~r.success /\ r.effect -> "failed"
             [] OTHER -> IF route # <<>> THEN "running"
                         ELSE IF r.retry /\ attempts < MaxAttempts THEN "pending"
                         ELSE "failed"

\* What the worker does with the result of a call: anything but a clean failure
\* ends the attempt, a clean failure leads to the next publisher, and the last
\* one's clean failure to another attempt if it may be retried.
AfterResult(r) ==
    job' = CASE r.success                            -> "success"
             [] ~r.success /\ (r.effect \/ r.uncertain) -> "failed"
             [] OTHER -> IF route # <<>> THEN "running"
                         ELSE IF r.retry /\ attempts < MaxAttempts THEN "pending"
                         ELSE "failed"

Return(r) ==
    /\ at' = "idle" /\ pending' = NoResult
    /\ calls' = [calls EXCEPT ![cur].result = r]
    /\ AfterResult(r)
    /\ UNCHANGED <<platform, exact, attempts, route>> /\ WorldStays
Returns(r) == Return(r) /\ UNCHANGED swallowed

\* An exception that leaves publish; a cancellation that leaves it.  Either way
\* the worker takes the outcome for unknown.
Raises == Returns(Unknown)
Cancelled ==
    /\ at # "idle"
    /\ Raises

\* A cancellation that an adapter turned into an ordinary result.
Swallows(r) == Return(r) /\ swallowed' = swallowed \cup {cur}

GoTo(place) ==
    /\ at' = place
    /\ UNCHANGED <<worker, pending, calls, swallowed>> /\ WorldStays

\* The write boundary.
Send(place) ==
    /\ at' = place
    /\ calls' = [calls EXCEPT ![cur].write = "sent", ![cur].account = profile]
    /\ UNCHANGED <<worker, pending, swallowed>> /\ WorldStays

By(kinds, place) == at = place /\ Now.by \in kinds

-----------------------------------------------------------------------------
(* The platform and the people around it (external).                         *)

OnlyPlatform == UNCHANGED <<worker, at, pending, profile, swallowed, plugins>>

\* What a write of each publisher can become.
Becomes(call) ==
    IF call.write = "submitted" THEN {"post", "draft"}
    ELSE CASE call.by \in {"wechat_mp_api", "wechat_mp"}           -> {"draft", "refused"}
           [] call.by \in {"zhihu", "baijiahao", "sohuhao"}        ->
                 {"post", "draft", "submitted", "refused"}
           [] OTHER                                                -> {"post", "refused"}

Settle(n) ==
    /\ calls[n].write \in {"sent", "submitted"}
    /\ \E w \in Becomes(calls[n]) :
          /\ calls' = [calls EXCEPT ![n].write = w]
          /\ listing' = IF w = "post" THEN <<n>> \o listing ELSE listing
    /\ OnlyPlatform

\* zhihu-login at a terminal, by whoever scans the code; it takes the lease.
LoginInteractive ==
    /\ job # "running"
    /\ \E who \in {Approved, Stranger} : who # profile /\ profile' = who
    /\ UNCHANGED <<worker, at, pending, calls, listing, swallowed, plugins>>

\* The process is started again, or a package changes; a start in the middle of
\* an attempt is left to PublishJobs.
Reconfigured ==
    /\ (job # "running" /\ ProcessStarts) \/ PackageChanges
    /\ UNCHANGED <<worker, at, pending, calls, listing, profile, swallowed>>

-----------------------------------------------------------------------------
(* A plugin that keeps to the contract of a publisher (external).            *)

PluginCall(a) ==
    \/ By({a}, "start") /\ (Returns(Clean) \/ Raises \/ Send("wait"))
    \/ By({a}, "wait") /\ Raises
    \/ By({a}, "wait") /\ Mine("refused") /\ Returns(Clean)
    \/ By({a}, "wait") /\ Mine("post") /\ Returns(Published(cur))
=============================================================================
