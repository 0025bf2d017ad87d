--------------------------- MODULE PublisherRoutes ----------------------------
(* One job whose attempts try the publishers of its platform in turn.        *)
EXTENDS BrowserPublishers, CommandPublishers

Next ==
    \/ BeginAttempt \/ RouteRefused \/ BeginCall \/ Browser \/ Command \/ Cancelled
    \/ \E n \in DOMAIN calls : Settle(n)
    \/ \E a \in Plugins : PluginCall(a)
    \/ LoginInteractive \/ Reconfigured

Spec == Init /\ [][Next]_vars

-----------------------------------------------------------------------------
Results == [success : BOOLEAN, effect : BOOLEAN, uncertain : BOOLEAN,
            retry : BOOLEAN, post : Nat \cup {None}]
Call    == [by : STRING, try : Nat, write : Writes, account : {None, Approved, Stranger},
            result : Results]

\* The variables hold what the code can put there.
TypeOK ==
    /\ platform \in Platforms /\ exact \in BOOLEAN
    /\ job \in {"pending", "running", "success", "failed"}
    /\ attempts \in 0 .. MaxAttempts
    /\ route \in Seq(STRING) /\ at \in STRING /\ pending \in Results
    /\ calls \in Seq(Call) /\ listing \in Seq(Nat)
    /\ profile \in {Approved, Stranger}
    /\ swallowed \subseteq DOMAIN calls
    /\ condition \in [Plugins -> Conditions] /\ admitted \in BOOLEAN

Ended     == {n \in DOMAIN calls : calls[n].result # NoResult}
IsClean(r) == ~r.success /\ ~r.effect /\ ~r.uncertain
OnItsWay(n) == calls[n].write \in Made \cup {"sent"}

\* A call that reports a clean failure left nothing on the platform and nothing
\* on its way there: the worker starts the next publisher, and later the next
\* attempt, on the strength of it.  Calls that turned a cancellation into a
\* result are looked at by CleanEvenCancelled.
CleanMeansNothing ==
    \A n \in Ended \ swallowed : IsClean(calls[n].result) => ~OnItsWay(n)

\* However attempts and publishers follow each other, one write at most ever
\* reaches the platform for the job.
AtMostOneWrite ==
    swallowed = {} =>
        \A m, n \in DOMAIN calls : OnItsWay(m) /\ OnItsWay(n) => m = n

\* A result that claims an effect without doubt has one, a success is public
\* (or, for the official API of WeChat, a draft whose publication was accepted),
\* and the post that is named is the post of this call.
ReceiptsAreReal ==
    \A n \in Ended : calls[n].by \notin CardReaders =>
        LET r == calls[n].result IN
        /\ r.effect /\ ~r.uncertain => calls[n].write \in Made
        /\ r.success => calls[n].write = "post" \/ calls[n].by = "wechat_mp_api"
        /\ r.post \in {None, n}

\* What is written under an exact approval is written as the external account
\* that was approved, whoever logged in to the profile in between.
ApprovedAccountOnly ==
    exact => \A n \in DOMAIN calls : calls[n].account \in {None, Approved}

\* No write path is taken silently in place of one the operator configured: in
\* every attempt a publisher is called only after all that are registered before
\* it, whatever has become of a plugin since it was validated (registry.py:80,
\* registry.py:99).
NothingIsPassedOver ==
    ~exact => \A n \in DOMAIN calls : \A a \in Registered(platform) :
        Rank(a) < Rank(calls[n].by) =>
            \E m \in 1 .. n - 1 : calls[m].by = a /\ calls[m].try = calls[n].try

\* The same promise as CleanMeansNothing for every call: toutiao.py says that
\* after the last button neither a fallback nor a retry may follow even if
\* Playwright raises.
CleanEvenCancelled ==
    \A n \in Ended : IsClean(calls[n].result) => ~OnItsWay(n)
=============================================================================
