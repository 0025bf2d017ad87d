------------------------- MODULE PublisherRoutesProofs -------------------------
(* Why the results of the publishers can be trusted, for any platforms,      *)
(* plugins and number of attempts: every adapter reports a clean failure     *)
(* only before its write boundary or after the platform has refused, and the *)
(* worker goes on after nothing else; an effect is claimed only when it has  *)
(* been seen; and under an exact approval the login has been compared with   *)
(* it in the same call, while the account is leased.                         *)
EXTENDS PublisherRoutes, FiniteSetTheorems, TLAPS

\* The places of a call that lie before its write boundary.
Before == {"start", "compose", "version", "session", "images", "identity", "spawn",
           "auth", "video", "metadata", "request", "token", "cover", "add"}

Untouched(n) == calls[n].write \in {"none", "refused"}
Over(n)      == n < cur \/ at = "idle"

\* Records of calls whose other fields are anything in S.
CallsOf(S) == [by : S, try : S, write : Writes, account : S, result : S]

Shape == \E S : calls \in Seq(CallsOf(S))

UnderWay == at # "idle" => job = "running" /\ cur > 0 /\ Now.result = NoResult

BoundaryHolds == at \in Before => Mine("none")

ClosesInDoubt == at = "close" => ~IsClean(pending)

CleanIsUntouched ==
    \A n \in 1..cur : Over(n) /\ n \notin swallowed /\ IsClean(calls[n].result) => Untouched(n)

OnlyCleanGoesOn ==
    \A n \in 1..cur :
        n < cur \/ (at = "idle" /\ job \in {"pending", "running"}) => IsClean(calls[n].result)

CleanInvariant ==
    Shape /\ UnderWay /\ BoundaryHolds /\ ClosesInDoubt /\ CleanIsUntouched /\ OnlyCleanGoesOn

\* A result says no more than what the write has become, and names its own post.
Fits(n, r) ==
    /\ r.effect /\ ~r.uncertain => calls[n].write \in Made
    /\ r.success => calls[n].write = "post" \/ calls[n].by = "wechat_mp_api"
    /\ r.post \in {None, n}

Exempt(n) == calls[n].by \in CardReaders

ResultsFit ==
    \A n \in 1..cur : Exempt(n) \/ calls[n].result = NoResult \/ Fits(n, calls[n].result)

PendingFits == at = "close" => Exempt(cur) \/ Fits(cur, pending)

DraftExists == at \in {"submitted", "poll"} => Now.write \in Made

ReceiptInvariant == ResultsFit /\ PendingFits /\ DraftExists

\* Under an exact approval nobody but the Zhihu CLI is called.
ExactRoute == exact => route \in {<<>>, <<"zhihu_cli">>}

ExactCalls ==
    exact => \A n \in 1..cur : /\ calls[n].by = "zhihu_cli"
                               /\ calls[n].account \in {None, Approved}

IdentityChecked == exact /\ at = "spawn" => profile = Approved

AccountInvariant == ExactRoute /\ ExactCalls /\ IdentityChecked

RouteInvariant == CleanInvariant /\ ReceiptInvariant /\ AccountInvariant

\* The publishers of the platform, in the order of their ranks.
Line    == Ordered(Registered(platform))
Tried(a) == \E n \in 1..cur : calls[n].by = a /\ calls[n].try = attempts

\* The route of an attempt is what is left of the line, and all in front of it
\* have been called in this attempt.
RouteIsTheRest ==
    ~exact /\ job = "running" =>
        \E k \in 0..Cardinality(Registered(platform)) :
            /\ route \in Seq(Registered(platform))
            /\ Len(route) = Cardinality(Registered(platform)) - k
            /\ \A i \in 1..Len(route) : route[i] = Line[k + i]
            /\ \A j \in 1..k : Tried(Line[j])

OrderInvariant == RouteIsTheRest /\ NothingIsPassedOver

-----------------------------------------------------------------------------
(* The kinds of steps that the adapters are made of.                         *)

\* The history is a sequence of records, whoever the callers are.
LEMMA HistoryIsRecords ==
    ASSUME Shape
    PROVE  /\ cur \in Nat /\ DOMAIN calls = 1..cur
           /\ \A n \in 1..cur : calls[n].write \in Writes
<1>1. PICK S : calls \in Seq(CallsOf(S))
  BY DEF Shape
<1>2. cur \in Nat /\ DOMAIN calls = 1..cur
  BY <1>1 DEF cur
<1>3. \A n \in 1..cur : calls[n] \in CallsOf(S)
  BY <1>1 DEF cur
<1> QED
  BY <1>2, <1>3 DEF CallsOf

\* A call is replaced by another record.
LEMMA CallChanges ==
    ASSUME NEW S, calls \in Seq(CallsOf(S)), NEW k \in 1..cur, NEW c \in CallsOf(S),
           calls' = [calls EXCEPT ![k] = c]
    PROVE  /\ Shape' /\ cur' = cur /\ calls'[k] = c
           /\ \A n \in 1..cur : n # k => calls'[n] = calls[n]
<1>1. cur \in Nat /\ DOMAIN calls = 1..cur
  BY DEF cur
<1>2. calls' \in Seq(CallsOf(S)) /\ Len(calls') = Len(calls)
  BY <1>1 DEF cur
<1>3. Shape' /\ cur' = cur
  BY <1>2 DEF Shape, cur
<1>4. calls'[k] = c /\ \A n \in 1..cur : n # k => calls'[n] = calls[n]
  BY <1>1
<1> QED
  BY <1>3, <1>4

LEMMA FieldsChange ==
    ASSUME NEW S, NEW c \in CallsOf(S), NEW w \in Writes, NEW x \in S
    PROVE  /\ [c EXCEPT !.write = w] \in CallsOf(S)
           /\ [c EXCEPT !.write = w, !.account = x] \in CallsOf(S)
           /\ [c EXCEPT !.result = x] \in CallsOf(S)
<1>1. [c EXCEPT !.write = w] \in CallsOf(S)
  BY DEF CallsOf
<1>2. [c EXCEPT !.write = w, !.account = x] \in CallsOf(S)
  BY DEF CallsOf
<1>3. [c EXCEPT !.result = x] \in CallsOf(S)
  BY DEF CallsOf
<1> QED
  BY <1>1, <1>2, <1>3

LEMMA WiderHistory ==
    ASSUME NEW A, NEW B, A \subseteq B, NEW s \in Seq(A)
    PROVE  s \in Seq(B)
OBVIOUS

\* The ways in which the write of a call changes.
LEMMA WriteChanges ==
    ASSUME Shape, NEW k \in 1..cur, NEW w \in Writes, NEW who,
           \/ calls' = [calls EXCEPT ![k].write = w]
           \/ calls' = [calls EXCEPT ![k].write = w, ![k].account = who]
    PROVE  /\ Shape' /\ cur' = cur
           /\ calls'[k].write = w /\ calls'[k].result = calls[k].result
           /\ calls'[k].by = calls[k].by /\ calls'[k].try = calls[k].try
           /\ calls'[k].account \in {calls[k].account, who}
           /\ \A n \in 1..cur : n # k => calls'[n] = calls[n]
<1>1. PICK S : calls \in Seq(CallsOf(S))
  BY DEF Shape
<1> DEFINE T == S \cup {who}
           c == [calls[k] EXCEPT !.write = w]
           d == [calls[k] EXCEPT !.write = w, !.account = who]
<1>2. cur \in Nat /\ DOMAIN calls = 1..cur /\ calls[k] \in CallsOf(S)
  BY <1>1 DEF cur
<1>3. CallsOf(S) \subseteq CallsOf(T)
  BY DEF CallsOf
<1>4. calls[k] \in CallsOf(T) /\ who \in T
  BY <1>2, <1>3
<1>5. calls \in Seq(CallsOf(T))
  BY <1>1, <1>3, WiderHistory
<1>6. /\ c.write = w /\ c.result = calls[k].result
      /\ c.by = calls[k].by /\ c.account = calls[k].account /\ c.try = calls[k].try
      /\ d.write = w /\ d.result = calls[k].result
      /\ d.by = calls[k].by /\ d.account = who /\ d.try = calls[k].try
  BY <1>2 DEF CallsOf
<1> HIDE DEF T
<1>7. c \in CallsOf(T) /\ d \in CallsOf(T)
  BY <1>4, FieldsChange
<1>8. calls' = [calls EXCEPT ![k] = c] \/ calls' = [calls EXCEPT ![k] = d]
  BY <1>2
<1> HIDE DEF c, d
<1>9. CASE calls' = [calls EXCEPT ![k] = c]
  <2>1. Shape' /\ cur' = cur /\ calls'[k] = c
        /\ \A n \in 1..cur : n # k => calls'[n] = calls[n]
    BY <1>5, <1>7, <1>9, CallChanges
  <2> QED
    BY <1>6, <2>1
<1>10. CASE calls' = [calls EXCEPT ![k] = d]
  <2>1. Shape' /\ cur' = cur /\ calls'[k] = d
        /\ \A n \in 1..cur : n # k => calls'[n] = calls[n]
    BY <1>5, <1>7, <1>10, CallChanges
  <2> QED
    BY <1>6, <2>1
<1> QED
  BY <1>8, <1>9, <1>10

LEMMA ResultChanges ==
    ASSUME Shape, cur > 0, NEW r, calls' = [calls EXCEPT ![cur].result = r]
    PROVE  /\ Shape' /\ cur' = cur
           /\ Now'.result = r /\ Now'.write = Now.write
           /\ Now'.by = Now.by /\ Now'.account = Now.account /\ Now'.try = Now.try
           /\ \A n \in 1..cur : n # cur => calls'[n] = calls[n]
<1>1. PICK S : calls \in Seq(CallsOf(S))
  BY DEF Shape
<1> DEFINE T == S \cup {r}
           c == [Now EXCEPT !.result = r]
<1>2. cur \in Nat /\ DOMAIN calls = 1..cur /\ Now \in CallsOf(S)
  BY <1>1 DEF cur, Now
<1>3. CallsOf(S) \subseteq CallsOf(T)
  BY DEF CallsOf
<1>4. Now \in CallsOf(T) /\ r \in T
  BY <1>2, <1>3
<1>5. calls \in Seq(CallsOf(T))
  BY <1>1, <1>3, WiderHistory
<1>6. /\ c.result = r /\ c.write = Now.write
      /\ c.by = Now.by /\ c.account = Now.account /\ c.try = Now.try
  BY <1>2 DEF CallsOf
<1> HIDE DEF T
<1>7. "none" \in Writes
  BY DEF Writes
<1>8. c \in CallsOf(T)
  BY <1>4, <1>7, FieldsChange
<1>9. calls' = [calls EXCEPT ![cur] = c] /\ cur \in 1..cur
  BY <1>2 DEF Now
<1> HIDE DEF c
<1>10. Shape' /\ cur' = cur /\ calls'[cur] = c
       /\ \A n \in 1..cur : n # cur => calls'[n] = calls[n]
  BY <1>5, <1>8, <1>9, CallChanges
<1> QED
  BY <1>6, <1>10 DEF Now

\* Nothing that the invariant speaks of changes.
LEMMA NothingChanges ==
    ASSUME RouteInvariant, UNCHANGED <<calls, at, pending, job, swallowed, exact, route>>,
           profile' = profile \/ at = "idle"
    PROVE  RouteInvariant'
<1>1. CleanInvariant'
  BY DEF RouteInvariant, CleanInvariant, Shape, UnderWay, BoundaryHolds, ClosesInDoubt,
         CleanIsUntouched, OnlyCleanGoesOn, Over, Untouched, IsClean, Mine, Now, cur
<1>2. ReceiptInvariant'
  BY DEF RouteInvariant, ReceiptInvariant, ResultsFit, PendingFits, DraftExists, Fits, Exempt,
         Now, cur
<1>3. AccountInvariant'
  BY DEF RouteInvariant, AccountInvariant, ExactRoute, ExactCalls, IdentityChecked, cur
<1> QED
  BY <1>1, <1>2, <1>3 DEF RouteInvariant

\* A step of the call that writes nothing; it stays before the boundary or has
\* crossed it.
LEMMA GoToPreserves ==
    ASSUME RouteInvariant, at # "idle", NEW place, place \notin {"idle", "close"},
           place \in Before => at \in Before,
           place \in {"submitted", "poll"} => Now.write \in Made,
           place = "spawn" /\ exact => profile = Approved,
           GoTo(place)
    PROVE  RouteInvariant'
<1>1. Shape' /\ UnderWay'
  BY DEF RouteInvariant, CleanInvariant, Shape, UnderWay, GoTo, worker, Now, cur
<1>2. BoundaryHolds' /\ ClosesInDoubt'
  BY DEF RouteInvariant, CleanInvariant, BoundaryHolds, ClosesInDoubt, GoTo, Mine, Now, cur
<1>3. CleanIsUntouched' /\ OnlyCleanGoesOn'
  BY DEF RouteInvariant, CleanInvariant, CleanIsUntouched, OnlyCleanGoesOn, GoTo, worker, Over,
         Untouched, IsClean, cur
<1>4. ReceiptInvariant'
  BY DEF RouteInvariant, ReceiptInvariant, ResultsFit, PendingFits, DraftExists, Fits, Exempt,
         GoTo, Now, cur
<1>5. AccountInvariant'
  BY DEF RouteInvariant, AccountInvariant, ExactRoute, ExactCalls, IdentityChecked, GoTo,
         worker, WorldStays, cur
<1> QED
  BY <1>1, <1>2, <1>3, <1>4, <1>5 DEF RouteInvariant, CleanInvariant

\* A write of the current call goes out, or goes on.
LEMMA WritePreserves ==
    ASSUME RouteInvariant, at # "idle", NEW w \in Writes, NEW who,
           at' \notin Before \cup {"idle", "close"},
           at' \in {"submitted", "poll"} => w \in Made,
           exact => who \in {None, Approved},
           \/ calls' = [calls EXCEPT ![cur].write = w]
           \/ calls' = [calls EXCEPT ![cur].write = w, ![cur].account = who],
           UNCHANGED <<worker, swallowed>>
    PROVE  RouteInvariant'
<1>1. Shape /\ cur > 0 /\ cur \in Nat /\ cur \in 1..cur /\ Now.result = NoResult
  BY HistoryIsRecords DEF RouteInvariant, CleanInvariant, UnderWay
<1>2. /\ Shape' /\ cur' = cur
      /\ Now'.write = w /\ Now'.result = Now.result
      /\ Now'.by = Now.by /\ Now'.account \in {Now.account, who}
      /\ \A n \in 1..cur : n # cur => calls'[n] = calls[n]
  BY <1>1, WriteChanges DEF Now
<1>3. UnderWay' /\ BoundaryHolds' /\ ClosesInDoubt'
  BY <1>1, <1>2 DEF RouteInvariant, CleanInvariant, UnderWay, BoundaryHolds, ClosesInDoubt, worker
<1>4. CleanIsUntouched' /\ OnlyCleanGoesOn'
  BY <1>1, <1>2 DEF RouteInvariant, CleanInvariant, CleanIsUntouched, OnlyCleanGoesOn, Over,
                    Untouched, IsClean
<1>5. ResultsFit'
  <2> SUFFICES ASSUME NEW n \in 1..cur
               PROVE  (Exempt(n) \/ calls[n].result = NoResult \/ Fits(n, calls[n].result))'
    BY <1>2 DEF ResultsFit
  <2>1. CASE n = cur
    BY <1>1, <1>2, <2>1 DEF Now, NoResult, Result
  <2>2. CASE n # cur
    BY <1>2, <2>2 DEF RouteInvariant, ReceiptInvariant, ResultsFit, Fits, Exempt, NoResult, Result
  <2> QED
    BY <2>1, <2>2
<1>6. PendingFits' /\ DraftExists'
  BY <1>2 DEF PendingFits, DraftExists
<1>7. AccountInvariant'
  <2>1. ExactRoute' /\ IdentityChecked'
    BY DEF RouteInvariant, AccountInvariant, ExactRoute, IdentityChecked, worker, Before
  <2>2. ExactCalls'
    BY <1>1, <1>2 DEF RouteInvariant, AccountInvariant, ExactCalls, Now, worker
  <2> QED
    BY <2>1, <2>2 DEF AccountInvariant
<1> QED
  BY <1>2, <1>3, <1>4, <1>5, <1>6, <1>7 DEF RouteInvariant, CleanInvariant, ReceiptInvariant

\* A result ends the call.  If it claims a clean failure, the call is known to
\* have left nothing, or it is among those that swallowed a cancellation.
LEMMA ReturnPreserves ==
    ASSUME RouteInvariant, at # "idle", NEW r, Return(r),
           \/ swallowed' = swallowed
           \/ swallowed' = swallowed \cup {cur},
           IsClean(r) => Untouched(cur) \/ cur \in swallowed',
           Exempt(cur) \/ Fits(cur, r)
    PROVE  RouteInvariant'
<1>1. Shape /\ cur > 0 /\ cur \in Nat /\ DOMAIN calls = 1..cur
  BY HistoryIsRecords DEF RouteInvariant, CleanInvariant, UnderWay
<1>2. /\ Shape' /\ cur' = cur
      /\ Now'.result = r /\ Now'.write = Now.write
      /\ Now'.by = Now.by /\ Now'.account = Now.account
      /\ \A n \in 1..cur : n # cur => calls'[n] = calls[n]
  BY <1>1, ResultChanges DEF Return
<1>3. UnderWay' /\ BoundaryHolds' /\ ClosesInDoubt' /\ PendingFits' /\ DraftExists'
  BY DEF Return, UnderWay, BoundaryHolds, ClosesInDoubt, PendingFits, DraftExists, Before
<1>4. CleanIsUntouched'
  <2> SUFFICES ASSUME NEW n \in 1..cur, n \notin swallowed', IsClean(calls'[n].result)
               PROVE  Untouched(n)'
    BY <1>2 DEF CleanIsUntouched, Over, IsClean
  <2>1. CASE n = cur
    BY <1>2, <2>1 DEF Now, Untouched, IsClean
  <2>2. CASE n # cur
    BY <1>1, <1>2, <2>2 DEF RouteInvariant, CleanInvariant, CleanIsUntouched, Over, Untouched
  <2> QED
    BY <2>1, <2>2
<1>5. job' \in {"pending", "running"} => IsClean(r)
  BY DEF Return, AfterResult, IsClean
<1>6. OnlyCleanGoesOn'
  <2> SUFFICES ASSUME NEW n \in 1..cur, n < cur \/ job' \in {"pending", "running"}
               PROVE  IsClean(calls'[n].result)
    BY <1>2 DEF OnlyCleanGoesOn, IsClean
  <2>1. CASE n = cur
    BY <1>1, <1>2, <1>5, <2>1 DEF Now
  <2>2. CASE n # cur
    BY <1>1, <1>2, <2>2 DEF RouteInvariant, CleanInvariant, OnlyCleanGoesOn
  <2> QED
    BY <2>1, <2>2
<1>7. ResultsFit'
  <2> SUFFICES ASSUME NEW n \in 1..cur
               PROVE  (Exempt(n) \/ calls[n].result = NoResult \/ Fits(n, calls[n].result))'
    BY <1>2 DEF ResultsFit
  <2>1. CASE n = cur
    BY <1>1, <1>2, <2>1 DEF Now, Exempt, Fits
  <2>2. CASE n # cur
    BY <1>2, <2>2 DEF RouteInvariant, ReceiptInvariant, ResultsFit, Fits, Exempt, NoResult, Result
  <2> QED
    BY <2>1, <2>2
<1>8. AccountInvariant'
  <2>1. ExactRoute' /\ IdentityChecked'
    BY DEF RouteInvariant, AccountInvariant, ExactRoute, IdentityChecked, Return
  <2>2. exact' = exact
    BY DEF Return
  <2>3. ExactCalls'
    BY <1>1, <1>2, <2>2 DEF RouteInvariant, AccountInvariant, ExactCalls, Now
  <2> QED
    BY <2>1, <2>3 DEF AccountInvariant
<1> QED
  BY <1>2, <1>3, <1>4, <1>6, <1>7, <1>8 DEF RouteInvariant, CleanInvariant, ReceiptInvariant

\* The browser is about to be closed.
LEMMA ClosePreserves ==
    ASSUME RouteInvariant, at # "idle", NEW r, ~IsClean(r), Exempt(cur) \/ Fits(cur, r), Close(r)
    PROVE  RouteInvariant'
<1>1. Shape' /\ UnderWay'
  BY DEF RouteInvariant, CleanInvariant, Shape, UnderWay, Close, worker, Now, cur
<1>2. BoundaryHolds' /\ ClosesInDoubt'
  BY DEF BoundaryHolds, ClosesInDoubt, Close, Before, IsClean
<1>3. CleanIsUntouched' /\ OnlyCleanGoesOn'
  BY DEF RouteInvariant, CleanInvariant, CleanIsUntouched, OnlyCleanGoesOn, Close, worker, Over,
         Untouched, IsClean, cur
<1>4. ReceiptInvariant'
  BY DEF RouteInvariant, ReceiptInvariant, ResultsFit, PendingFits, DraftExists, Fits, Exempt,
         Close, cur
<1>5. AccountInvariant'
  BY DEF RouteInvariant, AccountInvariant, ExactRoute, ExactCalls, IdentityChecked, Close,
         worker, cur
<1> QED
  BY <1>1, <1>2, <1>3, <1>4, <1>5 DEF RouteInvariant, CleanInvariant

\* Which results are clean failures, and which claim nothing.
LEMMA CleanResults ==
    /\ IsClean(Clean) /\ IsClean(CleanFinal) /\ ~IsClean(Unknown)
    /\ \A p : ~IsClean(Partial(p)) /\ ~IsClean(Doubtful(p)) /\ ~IsClean(Published(p))
BY DEF IsClean, Clean, CleanFinal, Unknown, Partial, Doubtful, Published, Result

LEMMA ModestResults ==
    ASSUME NEW n
    PROVE  /\ Fits(n, Clean) /\ Fits(n, CleanFinal) /\ Fits(n, Unknown)
           /\ Fits(n, Doubtful(None)) /\ Fits(n, Doubtful(n))
           /\ calls[n].write \in Made => Fits(n, Partial(None)) /\ Fits(n, Partial(n))
           /\ calls[n].write = "post" => Fits(n, Published(n))
           /\ calls[n].write \in Made /\ calls[n].by = "wechat_mp_api" => Fits(n, Published(n))
BY DEF Fits, Clean, CleanFinal, Unknown, Partial, Doubtful, Published, Result, Made

\* Before the boundary a call may end with any clean failure.
LEMMA EndBefore ==
    ASSUME RouteInvariant, at \in Before,
           Returns(Clean) \/ Returns(CleanFinal) \/ Returns(Unknown)
    PROVE  RouteInvariant'
<1>1. at # "idle" /\ Untouched(cur)
  BY DEF RouteInvariant, CleanInvariant, BoundaryHolds, Before, Untouched, Mine, Now
<1> QED
  BY <1>1, ReturnPreserves, ModestResults DEF Returns

\* Once the platform has refused, too.
LEMMA EndRefused ==
    ASSUME RouteInvariant, at # "idle", Mine("refused"), Returns(Clean) \/ Returns(CleanFinal)
    PROVE  RouteInvariant'
<1>1. Untouched(cur)
  BY DEF Untouched, Mine, Now
<1> QED
  BY <1>1, ReturnPreserves, ModestResults DEF Returns

\* And at any time with a result that is no clean failure, if it is true.
LEMMA EndInDoubt ==
    ASSUME RouteInvariant, at # "idle", NEW r, ~IsClean(r), Exempt(cur) \/ Fits(cur, r),
           Returns(r)
    PROVE  RouteInvariant'
BY ReturnPreserves DEF Returns

LEMMA RaisesPreserves ==
    ASSUME RouteInvariant, at # "idle", Raises
    PROVE  RouteInvariant'
BY EndInDoubt, CleanResults, ModestResults DEF Raises

\* A cancellation that was swallowed is on record.
LEMMA SwallowPreserves ==
    ASSUME RouteInvariant, at # "idle", NEW r, Exempt(cur) \/ Fits(cur, r), Swallows(r)
    PROVE  RouteInvariant'
BY ReturnPreserves DEF Swallows

\* What is sent is sent as whoever the profile belongs to.
LEMMA SendPreserves ==
    ASSUME RouteInvariant, at # "idle", exact => profile = Approved, NEW place,
           place \notin Before \cup {"idle", "close", "submitted", "poll"}, Send(place)
    PROVE  RouteInvariant'
<1>1. "sent" \in Writes
  BY DEF Writes
<1>2. calls' = [calls EXCEPT ![cur].write = "sent", ![cur].account = profile]
  BY DEF Send
<1> QED
  BY <1>1, <1>2, WritePreserves DEF Send

\* Other publishers than the Zhihu CLI are at work without an exact approval only.
LEMMA OthersAreInexact ==
    ASSUME RouteInvariant, at # "idle", Now.by # "zhihu_cli"
    PROVE  ~exact
<1>1. cur \in 1..cur
  BY HistoryIsRecords DEF RouteInvariant, CleanInvariant, UnderWay
<1> QED
  BY <1>1 DEF RouteInvariant, AccountInvariant, ExactCalls, Now

\* So whatever they send is sent without one.
LEMMA OtherSends ==
    ASSUME RouteInvariant, at # "idle", Now.by # "zhihu_cli", NEW place,
           place \notin Before \cup {"idle", "close", "submitted", "poll"}, Send(place)
    PROVE  RouteInvariant'
BY OthersAreInexact, SendPreserves

-----------------------------------------------------------------------------
(* The worker, the platform and the people.                                  *)

\* Whatever the route, under an exact approval it has one place at most.
LEMMA RouteOfOne ==
    ASSUME NEW S, S \subseteq {"zhihu_cli"}
    PROVE  Ordered(S) \in {<<>>, <<"zhihu_cli">>}
<1>1. CASE S = {}
  <2>1. Cardinality(S) = 0
    BY <1>1, FS_EmptySet
  <2>2. <<>> \in [1..Cardinality(S) -> S]
        /\ \A m, n \in 1..Cardinality(S) : m < n => Rank(<<>>[m]) < Rank(<<>>[n])
    BY <2>1
  <2>3. Ordered(S) \in [1..Cardinality(S) -> S]
    BY <2>2 DEF Ordered
  <2> QED
    BY <2>1, <2>3
<1>2. CASE S # {}
  <2>1. S = {"zhihu_cli"} /\ Cardinality(S) = 1
    <3>1. S = {"zhihu_cli"}
      BY <1>2
    <3> QED
      BY <3>1, FS_Singleton
  <2>2. <<"zhihu_cli">> \in [1..1 -> S]
        /\ \A m, n \in 1..1 : m < n => Rank(<<"zhihu_cli">>[m]) < Rank(<<"zhihu_cli">>[n])
    BY <2>1
  <2>3. Ordered(S) \in [1..1 -> S]
    BY <2>1, <2>2 DEF Ordered
  <2>4. Ordered(S) = <<"zhihu_cli">>
    BY <2>1, <2>3
  <2> QED
    BY <2>4
<1> QED
  BY <1>1, <1>2

LEMMA AttemptPreserves ==
    ASSUME RouteInvariant, BeginAttempt \/ RouteRefused
    PROVE  RouteInvariant'
<1>1. at = "idle" /\ UNCHANGED <<calls, at, pending, swallowed, exact>> /\ job = "pending"
  BY DEF RouteInvariant, CleanInvariant, UnderWay, BeginAttempt, RouteRefused
<1>2. CleanInvariant'
  BY <1>1 DEF RouteInvariant, CleanInvariant, Shape, UnderWay, BoundaryHolds, ClosesInDoubt,
     CleanIsUntouched, OnlyCleanGoesOn, Over, Untouched, IsClean, Before, cur
<1>3. ReceiptInvariant'
  BY <1>1 DEF RouteInvariant, ReceiptInvariant, ResultsFit, PendingFits, DraftExists, Fits,
     Exempt, cur
<1>4. exact => route' \in {<<>>, <<"zhihu_cli">>}
  <2>1. exact => Candidates \in {<<>>, <<"zhihu_cli">>}
    BY RouteOfOne DEF Candidates, Resolve
  <2> QED
    BY <2>1 DEF BeginAttempt, RouteRefused, RouteInvariant, AccountInvariant, ExactRoute
<1>5. AccountInvariant'
  BY <1>1, <1>4 DEF RouteInvariant, AccountInvariant, ExactRoute, ExactCalls, IdentityChecked,
     cur
<1> QED
  BY <1>2, <1>3, <1>5 DEF RouteInvariant

\* The next publisher is called after clean failures only.
LEMMA BeginCallPreserves ==
    ASSUME RouteInvariant, BeginCall
    PROVE  RouteInvariant'
<1> DEFINE new == [by |-> Head(route), try |-> attempts, write |-> "none",
                   account |-> None, result |-> NoResult]
<1>1. PICK S : calls \in Seq(CallsOf(S))
  BY DEF RouteInvariant, CleanInvariant, Shape
<1> DEFINE T == S \cup {Head(route), attempts, None, NoResult}
<1>2. CallsOf(S) \subseteq CallsOf(T) /\ new \in CallsOf(T)
  BY DEF CallsOf, Writes
<1>3. calls \in Seq(CallsOf(T))
  BY <1>1, <1>2, WiderHistory
<1>4. /\ calls' = Append(calls, new) /\ job = "running" /\ at = "idle"
      /\ at' = "start" /\ job' = job /\ swallowed' = swallowed /\ exact' = exact
      /\ route # <<>> /\ route' = Tail(route)
  BY DEF BeginCall
<1>5. new.write = "none" /\ new.result = NoResult /\ new.by = Head(route) /\ new.account = None
  OBVIOUS
<1> HIDE DEF new, T
<1>6. calls' \in Seq(CallsOf(T))
  BY <1>2, <1>3, <1>4
<1>7. /\ cur \in Nat /\ cur' = cur + 1 /\ calls'[cur + 1] = new
      /\ \A n \in 1..cur : calls'[n] = calls[n]
  BY <1>2, <1>3, <1>4 DEF cur
<1>8. Shape'
  BY <1>6 DEF Shape
<1>9. UnderWay' /\ BoundaryHolds' /\ ClosesInDoubt' /\ PendingFits' /\ DraftExists'
  BY <1>4, <1>5, <1>7 DEF UnderWay, BoundaryHolds, ClosesInDoubt, PendingFits, DraftExists, Mine,
     Now
<1>10. \A n \in 1..cur' : n < cur' => n \in 1..cur /\ calls'[n] = calls[n]
  BY <1>7
<1>11. CleanIsUntouched' /\ OnlyCleanGoesOn'
  BY <1>4, <1>7, <1>10 DEF RouteInvariant, CleanInvariant, CleanIsUntouched, OnlyCleanGoesOn,
                           Over, Untouched, IsClean
<1>12. ResultsFit'
  <2> SUFFICES ASSUME NEW n \in 1..cur'
               PROVE  (Exempt(n) \/ calls[n].result = NoResult \/ Fits(n, calls[n].result))'
    BY DEF ResultsFit
  <2>1. CASE n = cur + 1
    BY <1>5, <1>7, <2>1 DEF NoResult, Result
  <2>2. CASE n # cur + 1
    <3>1. n \in 1..cur /\ calls'[n] = calls[n]
      BY <1>7, <2>2
    <3> QED
      BY <3>1 DEF RouteInvariant, ReceiptInvariant, ResultsFit, Fits, Exempt, NoResult, Result
  <2> QED
    BY <2>1, <2>2
<1>13. AccountInvariant'
  <2>1. exact => Head(route) = "zhihu_cli" /\ Tail(route) = <<>>
    <3>1. Head(<<"zhihu_cli">>) = "zhihu_cli" /\ Tail(<<"zhihu_cli">>) = <<>>
      OBVIOUS
    <3>2. exact => route = <<"zhihu_cli">>
      BY <1>4 DEF RouteInvariant, AccountInvariant, ExactRoute
    <3> QED
      BY <3>1, <3>2
  <2>2. ExactRoute' /\ IdentityChecked'
    BY <1>4, <2>1 DEF ExactRoute, IdentityChecked
  <2>3. ExactCalls'
    <3> SUFFICES ASSUME exact, NEW n \in 1..cur'
                 PROVE  calls'[n].by = "zhihu_cli" /\ calls'[n].account \in {None, Approved}
      BY <1>4 DEF ExactCalls
    <3>1. CASE n = cur + 1
      BY <1>5, <1>7, <2>1, <3>1
    <3>2. CASE n # cur + 1
      <4>1. n \in 1..cur /\ calls'[n] = calls[n]
        BY <1>7, <3>2
      <4> QED
        BY <4>1 DEF RouteInvariant, AccountInvariant, ExactCalls
    <3> QED
      BY <3>1, <3>2
  <2> QED
    BY <2>2, <2>3 DEF AccountInvariant
<1> QED
  BY <1>8, <1>9, <1>11, <1>12, <1>13 DEF RouteInvariant, CleanInvariant, ReceiptInvariant

\* Only what is on its way settles, so no clean failure is disturbed, and what
\* is there stays there.
LEMMA SettlePreserves ==
    ASSUME RouteInvariant, NEW k \in DOMAIN calls, Settle(k)
    PROVE  RouteInvariant'
<1>1. Shape /\ cur \in Nat /\ k \in 1..cur
  BY HistoryIsRecords DEF RouteInvariant, CleanInvariant
<1>2. PICK w \in Becomes(calls[k]) : calls' = [calls EXCEPT ![k].write = w]
  BY DEF Settle
<1>3. w \in Writes /\ (calls[k].write = "submitted" => w \in Made)
  BY <1>2 DEF Becomes, Writes, Made
<1>4. /\ Shape' /\ cur' = cur /\ calls'[k].result = calls[k].result
      /\ calls'[k].by = calls[k].by /\ calls'[k].account = calls[k].account
      /\ calls'[k].write = w
      /\ \A n \in 1..cur : n # k => calls'[n] = calls[n]
  <2>1. \A who : calls' = [calls EXCEPT ![k].write = w] =>
           /\ Shape' /\ cur' = cur /\ calls'[k].result = calls[k].result
           /\ calls'[k].by = calls[k].by /\ calls'[k].account \in {calls[k].account, who}
           /\ calls'[k].write = w
           /\ \A n \in 1..cur : n # k => calls'[n] = calls[n]
    BY <1>1, <1>3, WriteChanges, ZenonT(60)
  <2> QED
    BY <1>2, <2>1
<1>5. \A n \in 1..cur : /\ calls'[n].result = calls[n].result /\ calls'[n].by = calls[n].by
                        /\ calls'[n].account = calls[n].account
  BY <1>4
<1>6. /\ ~Untouched(k) /\ ~(k = cur /\ at \in Before)
      /\ calls[k].write \in {"sent", "submitted"}
  BY DEF Settle, Untouched, RouteInvariant, CleanInvariant, BoundaryHolds, Mine, Now
<1>7. UNCHANGED <<at, pending, job, swallowed, exact, route, profile>>
  BY DEF Settle, OnlyPlatform, worker
<1>8. UnderWay' /\ BoundaryHolds' /\ ClosesInDoubt'
  BY <1>1, <1>4, <1>5, <1>6, <1>7
     DEF RouteInvariant, CleanInvariant, UnderWay, BoundaryHolds, ClosesInDoubt, Mine, Now,
         IsClean
<1>9. CleanIsUntouched'
  BY <1>1, <1>4, <1>5, <1>6, <1>7
     DEF RouteInvariant, CleanInvariant, CleanIsUntouched, Over, Untouched, IsClean
<1>10. OnlyCleanGoesOn'
  BY <1>4, <1>5, <1>7 DEF RouteInvariant, CleanInvariant, OnlyCleanGoesOn, IsClean
<1>11. \A n \in 1..cur : calls[n].write \in Made => calls'[n].write \in Made
  BY <1>3, <1>4, <1>6 DEF Made
<1>12. \A n \in 1..cur : calls[n].write = "post" => calls'[n].write = "post"
  BY <1>4, <1>6
<1>13. \A n \in 1..cur : \A r : Fits(n, r) => Fits(n, r)'
  BY <1>5, <1>11, <1>12 DEF Fits
<1>14. ReceiptInvariant'
  <2>1. cur > 0 => cur \in 1..cur
    BY <1>1
  <2>2. \A n \in 1..cur : Exempt(n)' <=> Exempt(n)
    BY <1>5 DEF Exempt
  <2>3. ResultsFit'
    BY <1>4, <1>5, <1>13, <2>2 DEF RouteInvariant, ReceiptInvariant, ResultsFit, NoResult, Result,
                                    Fits
  <2>4. at # "idle" => cur > 0
    BY DEF RouteInvariant, CleanInvariant, UnderWay
  <2>5. PendingFits'
    BY <1>4, <1>7, <1>13, <2>1, <2>2, <2>4
       DEF RouteInvariant, ReceiptInvariant, PendingFits, Fits, Exempt
  <2>6. DraftExists'
    BY <1>4, <1>7, <1>11, <2>1, <2>4 DEF RouteInvariant, ReceiptInvariant, DraftExists, Now
  <2> QED
    BY <2>3, <2>5, <2>6 DEF ReceiptInvariant
<1>15. AccountInvariant'
  BY <1>4, <1>5, <1>7 DEF RouteInvariant, AccountInvariant, ExactRoute, ExactCalls,
                          IdentityChecked
<1> QED
  BY <1>4, <1>8, <1>9, <1>10, <1>14, <1>15 DEF RouteInvariant, CleanInvariant

-----------------------------------------------------------------------------
(* The adapters, each action by the kind of step that it is.                 *)

LEMMA BrowserCallPreserves ==
    ASSUME RouteInvariant, NEW a, a # "zhihu_cli", BrowserCall(a)
    PROVE  RouteInvariant'
<1>1. CASE RejectInput(a) \/ ComposeFails(a)
  BY <1>1, EndBefore DEF RejectInput, ComposeFails, By, Before
<1>2. CASE Launch(a)
  BY <1>2, GoToPreserves DEF Launch, By, Before
<1>3. CASE Click(a)
  BY <1>3, OtherSends DEF Click, By, Before
<1>4. CASE ObserveFails(a)
  BY <1>4, ClosePreserves, CleanResults, ModestResults DEF ObserveFails, By
<1>5. CASE CloseBrowser(a)
  BY <1>5, EndInDoubt DEF CloseBrowser, By, RouteInvariant, CleanInvariant, ClosesInDoubt,
                          ReceiptInvariant, PendingFits
<1>6. CASE CloseCancelled(a)
  BY <1>6, SwallowPreserves, ModestResults
     DEF CloseCancelled, By, RouteInvariant, ReceiptInvariant, PendingFits
<1> QED
  BY <1>1, <1>2, <1>3, <1>4, <1>5, <1>6 DEF BrowserCall

\* What the page shows after the click is never a clean failure.
LEMMA PagePreserves ==
    ASSUME RouteInvariant, NEW a,
           \/ By({a}, "observe") /\ ReadAddress
           \/ EditorAddress(a)
           \/ a \in CardReaders /\ NewestCard(a)
           \/ ReadDraft
    PROVE  RouteInvariant'
<1>1. CASE By({a}, "observe") /\ ReadAddress
  BY <1>1, ClosePreserves, CleanResults, ModestResults DEF By, ReadAddress, Mine, Now
<1>2. CASE EditorAddress(a)
  <2>1. at # "idle" /\ Close(Partial(None)) /\ ~IsClean(Partial(None))
    BY <1>2, CleanResults DEF EditorAddress, By
  <2>2. Exempt(cur) \/ Fits(cur, Partial(None))
    <3>1. CASE Now.write \in {"draft", "submitted"}
      BY <3>1, ModestResults DEF Made, Now
    <3>2. CASE a \in CardReaders
      BY <1>2, <3>2 DEF EditorAddress, By, Exempt, Now
    <3> QED
      BY <1>2, <3>1, <3>2 DEF EditorAddress
  <2> QED
    BY <2>1, <2>2, ClosePreserves
<1>3. CASE a \in CardReaders /\ NewestCard(a)
  BY <1>3, ClosePreserves, CleanResults DEF By, NewestCard, Exempt, Now
<1>4. CASE ReadDraft
  BY <1>4, ClosePreserves, CleanResults, ModestResults DEF By, ReadDraft, Mine, Made, Now
<1> QED
  BY <1>1, <1>2, <1>3, <1>4

LEMMA CamoufoxPreserves ==
    ASSUME RouteInvariant, XhsCamoufox
    PROVE  RouteInvariant'
<1>1. CASE CamoufoxRejects \/ CamoufoxComposeFails
  BY <1>1, EndBefore DEF CamoufoxRejects, CamoufoxComposeFails, By, Before
<1>2. CASE CamoufoxBrowses
  BY <1>2, EndBefore, GoToPreserves DEF CamoufoxBrowses, By, Before
<1>3. CASE CamoufoxClicks
  BY <1>3, OtherSends DEF CamoufoxClicks, Camoufox, By, Before
<1>4. CASE CamoufoxClickFails
  BY <1>4, EndInDoubt, CleanResults, ModestResults DEF CamoufoxClickFails, By
<1>5. CASE CamoufoxWaits
  BY <1>5, GoToPreserves DEF CamoufoxWaits, By, Before
<1>6. CASE CamoufoxConfirms
  BY <1>6, EndInDoubt, CleanResults, ModestResults DEF CamoufoxConfirms, By, Mine, Now
<1>7. CASE CamoufoxRaises
  BY <1>7, RaisesPreserves DEF CamoufoxRaises, By
<1> QED
  BY <1>1, <1>2, <1>3, <1>4, <1>5, <1>6, <1>7 DEF XhsCamoufox

LEMMA BrowserPreserves ==
    ASSUME RouteInvariant, Browser
    PROVE  RouteInvariant'
<1>1. CASE Zhihu
  BY <1>1, BrowserCallPreserves, PagePreserves DEF Zhihu
<1>2. CASE Toutiao
  BY <1>2, BrowserCallPreserves, PagePreserves DEF Toutiao, CardReaders
<1>3. CASE Baijiahao
  BY <1>3, BrowserCallPreserves, PagePreserves DEF Baijiahao, CardReaders
<1>4. CASE Sohuhao
  BY <1>4, BrowserCallPreserves, PagePreserves DEF Sohuhao, CardReaders
<1>5. CASE WechatMp
  BY <1>5, BrowserCallPreserves, PagePreserves DEF WechatMp
<1>6. CASE XhsCamoufox
  BY <1>6, CamoufoxPreserves
<1> QED
  BY <1>1, <1>2, <1>3, <1>4, <1>5, <1>6 DEF Browser

\* The steps that the command line publishers share.
LEMMA CommandLinePreserves ==
    ASSUME RouteInvariant, NEW a, Starts(a) \/ NotStarted(a) \/ NoReceipt(a)
    PROVE  RouteInvariant'
<1>1. CASE Starts(a)
  BY <1>1, SendPreserves DEF Starts, By, Before, RouteInvariant, AccountInvariant, IdentityChecked
<1>2. CASE NotStarted(a)
  BY <1>2, EndBefore DEF NotStarted, By, Before
<1>3. CASE NoReceipt(a)
  BY <1>3, EndInDoubt, CleanResults, ModestResults DEF NoReceipt, By
<1> QED
  BY <1>1, <1>2, <1>3

LEMMA CheckPreserves ==
    ASSUME RouteInvariant, NEW a, NEW place \in Before, NEW next \in Before,
           next = "spawn" => a # "zhihu_cli" \/ ~exact,
           Check(a, place, next)
    PROVE  RouteInvariant'
<1>1. at = place /\ Now.by = a /\ at # "idle"
  BY DEF Check, By, Before
<1>2. next = "spawn" => ~exact
  BY <1>1, OthersAreInexact
<1>3. CASE Returns(Clean)
  BY <1>1, <1>3, EndBefore
<1>4. CASE GoTo(next)
  <2>1. next \notin {"idle", "close", "submitted", "poll"}
    BY DEF Before
  <2> QED
    BY <1>1, <1>2, <1>4, <2>1, GoToPreserves
<1> QED
  BY <1>3, <1>4 DEF Check

LEMMA ZhihuCliPreserves ==
    ASSUME RouteInvariant, ZhihuCli
    PROVE  RouteInvariant'
<1>1. CASE ZhihuPayload \/ ZhihuSession
  BY <1>1, CheckPreserves DEF ZhihuPayload, ZhihuSession, Before
<1>2. CASE ZhihuVersion
  <2>1. (IF exact THEN "images" ELSE "session") \in Before \ {"spawn"}
    BY DEF Before
  <2> QED
    BY <1>2, <2>1, CheckPreserves DEF ZhihuVersion, Before
<1>3. CASE ZhihuImages
  <2>1. /\ (IF exact THEN "identity" ELSE "spawn") \in Before
        /\ (IF exact THEN "identity" ELSE "spawn") = "spawn" => ~exact
    BY DEF Before
  <2> QED
    BY <1>3, <2>1, CheckPreserves DEF ZhihuImages, Before
<1>4. CASE ZhihuIdentity
  BY <1>4, EndBefore, GoToPreserves DEF ZhihuIdentity, AccountMatches, By, Before
<1>5. CASE ZhihuConfirmed
  BY <1>5, EndInDoubt, CleanResults, ModestResults DEF ZhihuConfirmed, By, Mine, Now
<1> QED
  BY <1>1, <1>2, <1>3, <1>4, <1>5, CommandLinePreserves DEF ZhihuCli

LEMMA YoutubePreserves ==
    ASSUME RouteInvariant, Youtube
    PROVE  RouteInvariant'
<1>1. CASE YoutubeVersion \/ YoutubeAuth \/ YoutubeVideo \/ YoutubeMetadata
  BY <1>1, CheckPreserves DEF YoutubeVersion, YoutubeAuth, YoutubeVideo, YoutubeMetadata, Before
<1>2. CASE YoutubeConfirmed
  BY <1>2, EndInDoubt, CleanResults, ModestResults DEF YoutubeConfirmed, By, Mine, Made, Now
<1>3. CASE YoutubeRaises
  BY <1>3, RaisesPreserves DEF YoutubeRaises, By
<1> QED
  BY <1>1, <1>2, <1>3, CommandLinePreserves DEF Youtube

LEMMA SocialPreserves ==
    ASSUME RouteInvariant, XhsSkills \/ Sau
    PROVE  RouteInvariant'
<1>1. CASE Check("xhs_skills", "start", "spawn")
  BY <1>1, CheckPreserves DEF Before
<1>2. CASE SauCookie
  BY <1>2, EndBefore, GoToPreserves, RaisesPreserves, OthersAreInexact DEF SauCookie, By, Before
<1>3. CASE SauRequest
  BY <1>3, EndBefore, OtherSends DEF SauRequest, By, Before
<1> QED
  BY <1>1, <1>2, <1>3, CommandLinePreserves DEF XhsSkills, Sau, SauCommand

LEMMA WechatMpApiPreserves ==
    ASSUME RouteInvariant, WechatMpApi
    PROVE  RouteInvariant'
<1>1. CASE ApiContent \/ ApiToken \/ ApiCover
  BY <1>1, EndBefore, GoToPreserves DEF ApiContent, ApiToken, ApiCover, By, Before
<1>2. CASE AddDraft
  BY <1>2, OtherSends DEF AddDraft, Api, By, Before
<1>3. CASE DraftAnswered
  BY <1>3, EndRefused, RaisesPreserves, GoToPreserves DEF DraftAnswered, Raises, By, Before
<1>4. CASE Submit
  <2>1. "submitted" \in Writes \cap Made
    BY DEF Writes, Made
  <2>2. calls' = [calls EXCEPT ![cur].write = "submitted"] /\ at # "idle"
        /\ at' \notin Before \cup {"idle", "close"} /\ UNCHANGED <<worker, swallowed>>
    BY <1>4 DEF Submit, By, Before
  <2>3. exact => None \in {None, Approved}
    OBVIOUS
  <2> QED
    BY <2>1, <2>2, <2>3, WritePreserves
<1>5. CASE SubmitAnswered
  BY <1>5, EndInDoubt, CleanResults, ModestResults, GoToPreserves
     DEF SubmitAnswered, By, Before, RouteInvariant, ReceiptInvariant, DraftExists, Now
<1>6. CASE PollEnds
  BY <1>6, EndInDoubt, CleanResults, ModestResults
     DEF PollEnds, Api, By, RouteInvariant, ReceiptInvariant, DraftExists, Now
<1> QED
  BY <1>1, <1>2, <1>3, <1>4, <1>5, <1>6 DEF WechatMpApi

LEMMA PluginCallPreserves ==
    ASSUME RouteInvariant, NEW a \in Plugins, PluginCall(a)
    PROVE  RouteInvariant'
<1> a # "zhihu_cli"
  BY PluginsAreOthers DEF Priority
<1>1. CASE By({a}, "start") /\ (Returns(Clean) \/ Raises \/ Send("wait"))
  BY <1>1, EndBefore, RaisesPreserves, OtherSends DEF By, Before
<1>2. CASE By({a}, "wait") /\ Raises
  BY <1>2, RaisesPreserves DEF By
<1>3. CASE By({a}, "wait") /\ Mine("refused") /\ Returns(Clean)
  BY <1>3, EndRefused DEF By
<1>4. CASE By({a}, "wait") /\ Mine("post") /\ Returns(Published(cur))
  BY <1>4, EndInDoubt, CleanResults, ModestResults DEF By, Mine, Now
<1> QED
  BY <1>1, <1>2, <1>3, <1>4 DEF PluginCall

-----------------------------------------------------------------------------
LEMMA InitRoutes == Init => RouteInvariant
<1> SUFFICES ASSUME Init PROVE RouteInvariant
  OBVIOUS
<1>1. Shape /\ cur = 0
  <2>1. calls \in Seq(CallsOf({}))
    BY DEF Init
  <2> QED
    BY <2>1 DEF Init, Shape, cur
<1>2. CleanInvariant
  BY <1>1 DEF Init, CleanInvariant, UnderWay, BoundaryHolds, ClosesInDoubt, CleanIsUntouched,
              OnlyCleanGoesOn, Before
<1>3. ReceiptInvariant /\ AccountInvariant
  BY <1>1 DEF Init, ReceiptInvariant, ResultsFit, PendingFits, DraftExists, AccountInvariant,
              ExactRoute, ExactCalls, IdentityChecked
<1> QED
  BY <1>2, <1>3 DEF RouteInvariant

LEMMA StepRoutes ==
    ASSUME RouteInvariant, [Next]_vars
    PROVE  RouteInvariant'
<1>1. CASE BeginAttempt \/ RouteRefused
  BY <1>1, AttemptPreserves
<1>2. RouteInvariant /\ job # "running" => at = "idle"
  BY DEF RouteInvariant, CleanInvariant, UnderWay
<1>3. CASE BeginCall
  BY <1>3, BeginCallPreserves
<1>4. CASE Browser
  BY <1>4, BrowserPreserves
<1>5. CASE Command
  BY <1>5, ZhihuCliPreserves, YoutubePreserves, SocialPreserves, WechatMpApiPreserves DEF Command
<1>6. CASE Cancelled
  BY <1>6, RaisesPreserves DEF Cancelled
<1>7. CASE \E n \in DOMAIN calls : Settle(n)
  BY <1>7, SettlePreserves
<1>8. CASE \E a \in Plugins : PluginCall(a)
  BY <1>8, PluginCallPreserves
<1>9. CASE LoginInteractive \/ Reconfigured \/ UNCHANGED vars
  BY <1>2, <1>9, NothingChanges DEF LoginInteractive, Reconfigured, vars, worker
<1> QED
  BY <1>1, <1>3, <1>4, <1>5, <1>6, <1>7, <1>8, <1>9 DEF Next

LEMMA RoutesAreSound == Spec => []RouteInvariant
<1>1. Init => RouteInvariant
  BY InitRoutes
<1>2. RouteInvariant /\ [Next]_vars => RouteInvariant'
  BY StepRoutes
<1> QED
  BY <1>1, <1>2, PTL DEF Spec

\* Behind worker._try_publishers stands this: a clean failure of a call that
\* swallowed no cancellation left nothing on the platform and nothing on its way.
THEOREM CleanFailuresAreClean == Spec => []CleanMeansNothing
<1>1. RouteInvariant => CleanMeansNothing
  <2> SUFFICES ASSUME RouteInvariant, NEW n \in Ended \ swallowed, IsClean(calls[n].result)
               PROVE  ~OnItsWay(n)
    BY DEF CleanMeansNothing
  <2>1. n \in 1..cur /\ cur \in Nat /\ calls[n].result # NoResult
    BY HistoryIsRecords DEF RouteInvariant, CleanInvariant, Ended
  <2>2. Over(n)
    BY <2>1 DEF RouteInvariant, CleanInvariant, UnderWay, Over, Now
  <2>3. Untouched(n)
    BY <2>1, <2>2 DEF RouteInvariant, CleanInvariant, CleanIsUntouched
  <2> QED
    BY <2>3 DEF Untouched, OnItsWay, Made
<1> QED
  BY <1>1, RoutesAreSound, PTL

\* Publishers tried one after the other, and attempts after attempts, make one
\* write at most, unless a cancellation was swallowed.
THEOREM RoutesWriteOnce == Spec => []AtMostOneWrite
<1>1. RouteInvariant => AtMostOneWrite
  <2> SUFFICES ASSUME RouteInvariant, swallowed = {},
                      NEW m \in DOMAIN calls, NEW n \in DOMAIN calls,
                      OnItsWay(m), OnItsWay(n)
               PROVE  m = n
    BY DEF AtMostOneWrite
  <2>1. m \in 1..cur /\ n \in 1..cur /\ cur \in Nat
    BY HistoryIsRecords DEF RouteInvariant, CleanInvariant
  <2>2. \A k \in 1..cur : k < cur => Untouched(k)
    BY DEF RouteInvariant, CleanInvariant, CleanIsUntouched, OnlyCleanGoesOn, Over
  <2>3. ~Untouched(m) /\ ~Untouched(n)
    BY DEF Untouched, OnItsWay, Made
  <2> QED
    BY <2>1, <2>2, <2>3
<1> QED
  BY <1>1, RoutesAreSound, PTL

\* Behind the receipts the worker files stands this: what a result claims of its
\* write is what has become of it, and the post it names is its own.
THEOREM ReceiptsNameTheirPost == Spec => []ReceiptsAreReal
<1>1. RouteInvariant => ReceiptsAreReal
  <2> SUFFICES ASSUME RouteInvariant, NEW n \in Ended, ~Exempt(n)
               PROVE  Fits(n, calls[n].result)
    BY DEF ReceiptsAreReal, Fits, Exempt
  <2>1. n \in 1..cur /\ calls[n].result # NoResult
    BY HistoryIsRecords DEF RouteInvariant, CleanInvariant, Ended
  <2> QED
    BY <2>1 DEF RouteInvariant, ReceiptInvariant, ResultsFit
<1> QED
  BY <1>1, RoutesAreSound, PTL

\* Under an exact approval nothing is written as somebody else, for the login
\* is compared in the call that writes and nobody can log in during it.
THEOREM ApprovedAccountsWrite == Spec => []ApprovedAccountOnly
<1>1. RouteInvariant => ApprovedAccountOnly
  BY HistoryIsRecords
     DEF RouteInvariant, CleanInvariant, AccountInvariant, ExactCalls, ApprovedAccountOnly
<1> QED
  BY <1>1, RoutesAreSound, PTL

-----------------------------------------------------------------------------
(* The order of the publishers.                                              *)

\* A finite set whose members have ranks of their own can be put in order, and
\* the ordered route passes nobody over.
LEMMA OrderedIsComplete ==
    ASSUME NEW S, IsFiniteSet(S), \A a \in S : Rank(a) \in Nat,
           \A a, b \in S : Rank(a) = Rank(b) => a = b
    PROVE  /\ Cardinality(S) \in Nat
           /\ Ordered(S) \in [1..Cardinality(S) -> S]
           /\ \A m, n \in 1..Cardinality(S) :
                 m < n => Rank(Ordered(S)[m]) < Rank(Ordered(S)[n])
           /\ \A a \in S : \E n \in 1..Cardinality(S) : Ordered(S)[n] = a
<1> DEFINE N == Cardinality(S)
           Below(a) == {b \in S : Rank(b) < Rank(a)}
           place == [a \in S |-> Cardinality(Below(a)) + 1]
<1>1. N \in Nat /\ IsFiniteSet(1..N) /\ Cardinality(1..N) = N
  BY FS_CardinalityType, FS_Interval
<1>2. ASSUME NEW a \in S
      PROVE  IsFiniteSet(Below(a)) /\ Cardinality(Below(a)) \in 0..(N - 1)
  <2>1. IsFiniteSet(S \ {a}) /\ Cardinality(S \ {a}) = N - 1
    BY FS_RemoveElement
  <2>2. Below(a) \in SUBSET (S \ {a})
    OBVIOUS
  <2>3. IsFiniteSet(Below(a)) /\ Cardinality(Below(a)) <= N - 1
    BY <2>1, <2>2, FS_Subset
  <2>4. Cardinality(Below(a)) \in Nat
    BY <2>3, FS_CardinalityType
  <2> QED
    BY <1>1, <2>3, <2>4
<1>3. ASSUME NEW a \in S, NEW b \in S, Rank(a) < Rank(b)
      PROVE  Cardinality(Below(a)) < Cardinality(Below(b))
  <2>1. Below(a) \in SUBSET Below(b) /\ Below(a) # Below(b)
    <3>1. Below(a) \subseteq Below(b)
      <4> SUFFICES ASSUME NEW c \in S, Rank(c) < Rank(a) PROVE Rank(c) < Rank(b)
        OBVIOUS
      <4>1. Rank(a) \in Nat /\ Rank(b) \in Nat /\ Rank(c) \in Nat
        OBVIOUS
      <4> QED
        BY <1>3, <4>1
    <3>2. a \in Below(b) /\ a \notin Below(a)
      BY <1>3
    <3> QED
      BY <3>1, <3>2
  <2>2. IsFiniteSet(Below(b))
    BY <1>2
  <2> HIDE DEF Below
  <2>3. /\ Cardinality(Below(a)) <= Cardinality(Below(b))
        /\ Cardinality(Below(a)) # Cardinality(Below(b))
    BY <2>1, <2>2, FS_Subset
  <2>4. Cardinality(Below(a)) \in Nat /\ Cardinality(Below(b)) \in Nat
    BY <1>1, <1>2
  <2> QED
    BY <2>3, <2>4
<1> HIDE DEF Below
<1>4. /\ place \in [S -> 1..N]
      /\ \A a, b \in S : Rank(a) < Rank(b) => place[a] < place[b]
  <2>1. \A a \in S : Cardinality(Below(a)) + 1 \in 1..N
    BY <1>1, <1>2
  <2>2. \A a, b \in S : Rank(a) < Rank(b) => Cardinality(Below(a)) + 1 < Cardinality(Below(b)) + 1
    <3> SUFFICES ASSUME NEW a \in S, NEW b \in S, Rank(a) < Rank(b)
                 PROVE  Cardinality(Below(a)) + 1 < Cardinality(Below(b)) + 1
      OBVIOUS
    <3>1. Cardinality(Below(a)) < Cardinality(Below(b))
      BY <1>3
    <3>2. Cardinality(Below(a)) \in Int /\ Cardinality(Below(b)) \in Int
      BY <1>1, <1>2
    <3> QED
      BY <3>1, <3>2
  <2> QED
    BY <2>1, <2>2
<1> HIDE DEF place
<1>5. \A a, b \in S : place[a] = place[b] => a = b
  <2> SUFFICES ASSUME NEW a \in S, NEW b \in S, place[a] = place[b], a # b PROVE FALSE
    OBVIOUS
  <2>1. place[a] \in 1..N /\ place[b] \in 1..N
    BY <1>4
  <2>2. Rank(a) < Rank(b) \/ Rank(b) < Rank(a)
    <3>1. Rank(a) \in Nat /\ Rank(b) \in Nat /\ Rank(a) # Rank(b)
      OBVIOUS
    <3> QED
      BY <3>1
  <2> QED
    BY <1>1, <1>4, <2>1, <2>2
<1>6. \A n \in 1..N : \E a \in S : place[a] = n
  <2>1. place \in Injection(S, 1..N)
    BY <1>4, <1>5 DEF Injection, IsInjective
  <2>2. place \in Surjection(S, 1..N)
    BY <1>1, <2>1, FS_Injection
  <2> QED
    BY <2>2 DEF Surjection
<1> DEFINE s == [n \in 1..N |-> CHOOSE a \in S : place[a] = n]
<1>7. s \in [1..N -> S] /\ \A n \in 1..N : place[s[n]] = n
  BY <1>6
<1> HIDE DEF s
<1>8. \A m, n \in 1..N : m < n => Rank(s[m]) < Rank(s[n])
  <2> SUFFICES ASSUME NEW m \in 1..N, NEW n \in 1..N, m < n, ~(Rank(s[m]) < Rank(s[n])) PROVE FALSE
    OBVIOUS
  <2>1. s[m] \in S /\ s[n] \in S /\ place[s[m]] = m /\ place[s[n]] = n
    BY <1>7
  <2>2. Rank(s[m]) \in Nat /\ Rank(s[n]) \in Nat
    BY <2>1
  <2>3. CASE Rank(s[m]) = Rank(s[n])
    BY <1>1, <2>1, <2>3
  <2>4. CASE Rank(s[n]) < Rank(s[m])
    BY <1>1, <1>4, <2>1, <2>4
  <2> QED
    BY <2>2, <2>3, <2>4
<1>9. /\ Ordered(S) \in [1..N -> S]
      /\ \A m, n \in 1..N : m < n => Rank(Ordered(S)[m]) < Rank(Ordered(S)[n])
  <2> DEFINE IsSorted(t) == \A m, n \in 1..N : m < n => Rank(t[m]) < Rank(t[n])
  <2>1. \E t \in [1..N -> S] : IsSorted(t)
    BY <1>7, <1>8
  <2>2. Ordered(S) = CHOOSE t \in [1..N -> S] : IsSorted(t)
    BY DEF Ordered
  <2> HIDE DEF IsSorted
  <2>3. Ordered(S) \in [1..N -> S] /\ IsSorted(Ordered(S))
    BY <2>1, <2>2
  <2> QED
    BY <2>3 DEF IsSorted
<1>10. \A a \in S : \E n \in 1..N : Ordered(S)[n] = a
  <2>1. \A m, n \in 1..N : Ordered(S)[m] = Ordered(S)[n] => m = n
    <3> SUFFICES ASSUME NEW m \in 1..N, NEW n \in 1..N, Ordered(S)[m] = Ordered(S)[n], m < n
                 PROVE  FALSE
      BY <1>1
    <3>1. Rank(Ordered(S)[m]) < Rank(Ordered(S)[n]) /\ Rank(Ordered(S)[m]) \in Nat
      BY <1>9
    <3>2. Rank(Ordered(S)[m]) = Rank(Ordered(S)[n])
      OBVIOUS
    <3> QED
      BY <3>1, <3>2
  <2>2. Ordered(S) \in Injection(1..N, S)
    BY <1>9, <2>1 DEF Injection, IsInjective
  <2>3. Ordered(S) \in Surjection(1..N, S)
    BY <1>1, <2>2, FS_Injection
  <2> QED
    BY <2>3 DEF Surjection
<1> QED
  BY <1>1, <1>9, <1>10

\* The publishers of a platform are finitely many, each with a rank of its own.
LEMMA RegisteredAreRanked ==
    ASSUME NEW p
    PROVE  /\ IsFiniteSet(Registered(p))
           /\ \A a \in Registered(p) : Rank(a) \in Nat
           /\ \A a, b \in Registered(p) : Rank(a) = Rank(b) => a = b
<1> DEFINE B == {a \in BuiltIn(p) : a \in Enabled \/ a \notin Optional}
           P == {a \in Plugins : Home[a] = p}
<1>1. BuiltIn(p) \in {{"zhihu_cli", "zhihu"}, {"xhs_camoufox", "sau", "xhs_skills"},
                      {"wechat_mp_api", "wechat_mp"}, {"youtube"}, {"toutiao"}, {"baijiahao"},
                      {"sohuhao"}, {"sau"}}
  BY DEF BuiltIn
<1>2. /\ \A a \in BuiltIn(p) : a \notin Plugins /\ Priority[a] \in Nat
      /\ \A a, b \in BuiltIn(p) : Priority[a] = Priority[b] => a = b
  <2>1. BuiltIn(p) \cap Plugins = {}
    BY <1>1, PluginsAreOthers DEF Priority
  <2> QED
    BY <1>1, <2>1 DEF Priority
<1>3. IsFiniteSet(B)
  <2>1. PICK x, y, z : BuiltIn(p) = ({x} \cup {y}) \cup {z}
    <3>1. PICK u, v, w : BuiltIn(p) = {u, v, w} \/ BuiltIn(p) = {u, v} \/ BuiltIn(p) = {u}
      BY <1>1
    <3>2. CASE BuiltIn(p) = {u, v, w}
      <4>1. {u, v, w} = ({u} \cup {v}) \cup {w}
        OBVIOUS
      <4> QED
        BY <3>2, <4>1
    <3>3. CASE BuiltIn(p) = {u, v}
      <4>1. {u, v} = ({u} \cup {v}) \cup {v}
        OBVIOUS
      <4> QED
        BY <3>3, <4>1
    <3>4. CASE BuiltIn(p) = {u}
      <4>1. {u} = ({u} \cup {u}) \cup {u}
        OBVIOUS
      <4> QED
        BY <3>4, <4>1
    <3> QED
      BY <3>1, <3>2, <3>3, <3>4
  <2>2. IsFiniteSet({x})
    BY FS_Singleton
  <2>3. IsFiniteSet({x} \cup {y})
    BY <2>2, FS_AddElement
  <2>4. IsFiniteSet(BuiltIn(p))
    BY <2>1, <2>3, FS_AddElement
  <2> QED
    BY <2>4, FS_Subset
<1>4. \A a \in P : PluginPriority[a] \in 1..1000
  BY PublisherPluginsAssumption
<1>5. IsFiniteSet(P)
  <2> DEFINE f == [a \in P |-> PluginPriority[a]]
             M == 1000
  <2>1. M \in Nat /\ \A a \in P : PluginPriority[a] \in 1..M
    BY <1>4
  <2> HIDE DEF M
  <2>2. f \in Injection(P, 1..M)
    BY <2>1, PublisherPluginsAssumption DEF Injection, IsInjective
  <2>3. IsFiniteSet(1..M)
    BY <2>1, FS_Interval
  <2> QED
    BY <2>2, <2>3, FS_Injection
<1>6. Registered(p) = B \cup P
  BY DEF Registered
<1>7. IsFiniteSet(Registered(p))
  BY <1>3, <1>5, <1>6, FS_Union
<1>8. \A a \in B : Rank(a) = 2 * Priority[a] /\ Priority[a] \in Nat
  BY <1>2 DEF Rank
<1>9. \A a \in P : Rank(a) = 2 * PluginPriority[a] + 1 /\ PluginPriority[a] \in Nat
  BY <1>4, SMTT(60) DEF Rank
<1>10. \A a, b \in P : PluginPriority[a] = PluginPriority[b] => a = b
  BY PublisherPluginsAssumption
<1>11. \A a, b \in B : Priority[a] = Priority[b] => a = b
  BY <1>2
<1> HIDE DEF B, P
<1>12. \A a \in B \cup P : Rank(a) \in Nat
  BY <1>8, <1>9
<1>13. ASSUME NEW a \in B \cup P, NEW b \in B \cup P, Rank(a) = Rank(b) PROVE a = b
  <2>1. CASE a \in B /\ b \in B
    BY <1>8, <1>11, <1>13, <2>1
  <2>2. CASE a \in P /\ b \in P
    BY <1>9, <1>10, <1>13, <2>2
  <2>3. \A x, y \in Nat : 2 * x # 2 * y + 1
    OBVIOUS
  <2>4. ~(a \in B /\ b \in P) /\ ~(a \in P /\ b \in B)
    BY <1>8, <1>9, <1>13, <2>3
  <2> QED
    BY <2>1, <2>2, <2>4
<1> QED
  BY <1>6, <1>7, <1>12, <1>13

-----------------------------------------------------------------------------
(* The calls follow the line.                                                *)

\* Steps that leave alone what the order is about: the callers of the history,
\* and the route while an attempt is made.
KeepsOrder ==
    /\ UNCHANGED <<platform, exact>>
    /\ job' = "running" => job = "running" /\ UNCHANGED <<route, attempts>>
    /\ Shape' /\ cur' = cur
    /\ \A n \in 1..cur : calls'[n].by = calls[n].by /\ calls'[n].try = calls[n].try

LEMMA KeptOrder ==
    ASSUME Shape, OrderInvariant, KeepsOrder
    PROVE  OrderInvariant'
<1>1. cur \in Nat /\ DOMAIN calls = 1..cur /\ DOMAIN calls' = 1..cur /\ cur' = cur
  <2>1. cur \in Nat /\ DOMAIN calls = 1..cur
    BY HistoryIsRecords
  <2>2. PICK S : calls' \in Seq(CallsOf(S))
    BY DEF KeepsOrder, Shape, CallsOf
  <2>3. DOMAIN calls' = 1..Len(calls')
    BY <2>2
  <2> QED
    BY <2>1, <2>3 DEF KeepsOrder, cur
<1>2. NothingIsPassedOver'
  BY <1>1 DEF OrderInvariant, NothingIsPassedOver, KeepsOrder
<1>3. RouteIsTheRest'
  <2>1. platform' = platform /\ exact' = exact /\ Line' = Line
    BY DEF KeepsOrder, Line
  <2> SUFFICES ASSUME ~exact, job' = "running" PROVE RouteIsTheRest'
    BY <2>1 DEF RouteIsTheRest
  <2>2. job = "running" /\ route' = route /\ attempts' = attempts
    BY DEF KeepsOrder
  <2>3. PICK k \in 0..Cardinality(Registered(platform)) :
               /\ route \in Seq(Registered(platform))
               /\ Len(route) = Cardinality(Registered(platform)) - k
               /\ \A i \in 1..Len(route) : route[i] = Line[k + i]
               /\ \A j \in 1..k : Tried(Line[j])
    BY <2>2 DEF OrderInvariant, RouteIsTheRest
  <2>4. \A a : Tried(a) => Tried(a)'
    BY <1>1, <2>2 DEF Tried, KeepsOrder
  <2>5. \A j \in 1..k : Tried(Line[j])'
    BY <2>1, <2>3, <2>4
  <2> QED
    BY <2>1, <2>2, <2>3, <2>5 DEF RouteIsTheRest
<1> QED
  BY <1>2, <1>3 DEF OrderInvariant

\* The kinds of steps of a call.
CallSteps ==
    \/ \E place : GoTo(place) \/ Send(place)
    \/ \E r : Return(r) \/ Close(r)
    \/ Submit

LEMMA CallsMakeCallSteps ==
    ASSUME Browser \/ Command \/ Cancelled \/ \E a \in Plugins : PluginCall(a)
    PROVE  at # "idle" /\ CallSteps
<1>1. ASSUME NEW a, BrowserCall(a) PROVE at # "idle" /\ CallSteps
  BY <1>1 DEF BrowserCall, RejectInput, Launch, ComposeFails, Click, ObserveFails, CloseBrowser,
     CloseCancelled, By, Returns, Swallows, CallSteps
<1>2. ASSUME NEW a, EditorAddress(a) \/ NewestCard(a) \/ ReadDraft
      PROVE  at # "idle" /\ CallSteps
  BY <1>2 DEF EditorAddress, NewestCard, ReadDraft, By, CallSteps
<1>3. ASSUME By({"zhihu"}, "observe"), ReadAddress PROVE at # "idle" /\ CallSteps
  BY <1>3 DEF By, ReadAddress, CallSteps
<1>4. ASSUME XhsCamoufox PROVE at # "idle" /\ CallSteps
  BY <1>4 DEF XhsCamoufox, CamoufoxRejects, CamoufoxBrowses, CamoufoxComposeFails, CamoufoxClicks,
     CamoufoxClickFails, CamoufoxWaits, CamoufoxConfirms, CamoufoxRaises, By, Returns, Raises,
     CallSteps
<1>5. Browser => at # "idle" /\ CallSteps
  BY <1>1, <1>2, <1>3, <1>4 DEF Browser, Zhihu, Toutiao, Baijiahao, Sohuhao, WechatMp
<1>6. ASSUME NEW a, NEW place, NEW next, place # "idle", Check(a, place, next)
      PROVE  at # "idle" /\ CallSteps
  BY <1>6 DEF Check, By, Returns, CallSteps
<1>7. ASSUME NEW a, Starts(a) \/ NotStarted(a) \/ NoReceipt(a) PROVE at # "idle" /\ CallSteps
  BY <1>7 DEF Starts, NotStarted, NoReceipt, By, Returns, CallSteps
<1>8. ASSUME ZhihuCli PROVE at # "idle" /\ CallSteps
  <2>1. CASE ZhihuPayload \/ ZhihuVersion \/ ZhihuSession \/ ZhihuImages
    BY <1>6, <2>1 DEF ZhihuPayload, ZhihuVersion, ZhihuSession, ZhihuImages
  <2>2. CASE ZhihuIdentity \/ ZhihuConfirmed
    BY <2>2 DEF ZhihuIdentity, ZhihuConfirmed, By, Returns, CallSteps
  <2> QED
    BY <1>7, <1>8, <2>1, <2>2 DEF ZhihuCli
<1>9. ASSUME Youtube PROVE at # "idle" /\ CallSteps
  <2>1. CASE YoutubeVersion \/ YoutubeAuth \/ YoutubeVideo \/ YoutubeMetadata
    BY <1>6, <2>1 DEF YoutubeVersion, YoutubeAuth, YoutubeVideo, YoutubeMetadata
  <2>2. CASE YoutubeConfirmed \/ YoutubeRaises
    BY <2>2 DEF YoutubeConfirmed, YoutubeRaises, By, Returns, Raises, CallSteps
  <2> QED
    BY <1>7, <1>9, <2>1, <2>2 DEF Youtube
<1>10. ASSUME XhsSkills \/ Sau PROVE at # "idle" /\ CallSteps
  <2>1. CASE SauCookie \/ SauRequest
    BY <2>1 DEF SauCookie, SauRequest, By, Returns, Raises, CallSteps
  <2>2. CASE Check("xhs_skills", "start", "spawn")
    BY <1>6, <2>2
  <2> QED
    BY <1>7, <1>10, <2>1, <2>2 DEF XhsSkills, Sau, SauCommand
<1>11. ASSUME WechatMpApi PROVE at # "idle" /\ CallSteps
  BY <1>11 DEF WechatMpApi, ApiContent, ApiToken, ApiCover, AddDraft, DraftAnswered, Submit,
     SubmitAnswered, PollEnds, By, Returns, CallSteps
<1>12. Command => at # "idle" /\ CallSteps
  BY <1>8, <1>9, <1>10, <1>11 DEF Command
<1>13. Cancelled => at # "idle" /\ CallSteps
  BY DEF Cancelled, Raises, Returns, CallSteps
<1>14. ASSUME NEW a \in Plugins, PluginCall(a) PROVE at # "idle" /\ CallSteps
  BY <1>14 DEF PluginCall, By, Returns, Raises, CallSteps
<1> QED
  BY <1>5, <1>12, <1>13, <1>14

LEMMA CallStepsKeepOrder ==
    ASSUME RouteInvariant, at # "idle", CallSteps
    PROVE  KeepsOrder
<1>1. Shape /\ cur > 0 /\ cur \in Nat /\ cur \in 1..cur /\ job = "running"
  BY HistoryIsRecords DEF RouteInvariant, CleanInvariant, UnderWay
<1>2. CASE \E place : GoTo(place)
  BY <1>1, <1>2 DEF GoTo, worker, KeepsOrder, Shape, cur
<1>3. CASE \E r : Close(r)
  BY <1>1, <1>3 DEF Close, worker, KeepsOrder, Shape, cur
<1>4. CASE \E place : Send(place)
  <2>1. UNCHANGED worker /\ calls' = [calls EXCEPT ![cur].write = "sent", ![cur].account = profile]
    BY <1>4 DEF Send
  <2>2. "sent" \in Writes
    BY DEF Writes
  <2> QED
    BY <1>1, <2>1, <2>2, WriteChanges DEF KeepsOrder, worker
<1>5. CASE \E r : Return(r)
  <2>1. PICK r : Return(r)
    BY <1>5
  <2>2. /\ UNCHANGED <<platform, exact, attempts, route>>
        /\ calls' = [calls EXCEPT ![cur].result = r]
    BY <2>1 DEF Return
  <2> QED
    BY <1>1, <2>2, ResultChanges DEF KeepsOrder, Now
<1>6. CASE Submit
  <2>1. UNCHANGED worker /\ calls' = [calls EXCEPT ![cur].write = "submitted"]
    BY <1>6 DEF Submit
  <2>2. "submitted" \in Writes
    BY DEF Writes
  <2>3. \A who : /\ Shape' /\ cur' = cur
                 /\ calls'[cur].by = calls[cur].by /\ calls'[cur].try = calls[cur].try
                 /\ \A n \in 1..cur : n # cur => calls'[n] = calls[n]
    BY <1>1, <2>1, <2>2, WriteChanges
  <2> QED
    BY <1>1, <2>1, <2>3 DEF KeepsOrder, worker
<1> QED
  BY <1>2, <1>3, <1>4, <1>5, <1>6 DEF CallSteps

LEMMA AttemptKeepsOrder ==
    ASSUME RouteInvariant, OrderInvariant, BeginAttempt \/ RouteRefused
    PROVE  OrderInvariant'
<1>1. CASE RouteRefused
  <2>1. KeepsOrder
    BY <1>1 DEF RouteRefused, KeepsOrder, RouteInvariant, CleanInvariant, Shape, cur
  <2> QED
    BY <2>1, KeptOrder DEF RouteInvariant, CleanInvariant
<1>2. CASE BeginAttempt
  <2>1. UNCHANGED <<platform, exact, calls>> /\ route' = Candidates /\ ~RefusesRoute(platform)
    BY <1>2 DEF BeginAttempt
  <2>2. NothingIsPassedOver'
    BY <2>1 DEF OrderInvariant, NothingIsPassedOver
  <2>3. ASSUME ~exact PROVE route' = Line
    <3>1. {a \in {b \in Registered(platform) : exact => b = "zhihu_cli"} : Constructs(a)}
             = Registered(platform)
      BY <2>1, <2>3 DEF RefusesRoute
    <3> QED
      BY <2>1, <3>1 DEF Candidates, Resolve, Line
  <2> DEFINE S == Registered(platform)
             N == Cardinality(S)
  <2>4. N \in Nat /\ Line \in [1..N -> S]
    BY RegisteredAreRanked, OrderedIsComplete DEF Line
  <2>5. Line \in Seq(S) /\ Len(Line) = N
    BY <2>4
  <2>6. RouteIsTheRest'
    <3> SUFFICES ASSUME ~exact
                 PROVE  \E k \in 0..N : /\ route' \in Seq(S)
                                        /\ Len(route') = N - k
                                        /\ \A i \in 1..Len(route') : route'[i] = Line[k + i]
                                        /\ \A j \in 1..k : Tried(Line[j])'
      BY <2>1 DEF RouteIsTheRest, Line
    <3>1. route' = Line /\ 0 \in 0..N
      BY <2>3, <2>4
    <3> HIDE DEF N, S
    <3>2. /\ route' \in Seq(S) /\ Len(route') = N - 0
          /\ \A i \in 1..Len(route') : route'[i] = Line[0 + i]
          /\ \A j \in 1..0 : Tried(Line[j])'
      BY <2>4, <2>5, <3>1
    <3> QED
      BY <3>1, <3>2
  <2> QED
    BY <2>2, <2>6 DEF OrderInvariant
<1> QED
  BY <1>1, <1>2

\* The next in the line is called when all in front of it have been.
LEMMA BeginCallKeepsOrder ==
    ASSUME RouteInvariant, OrderInvariant, BeginCall
    PROVE  OrderInvariant'
<1> DEFINE S == Registered(platform)
           N == Cardinality(S)
           new == [by |-> Head(route), try |-> attempts, write |-> "none",
                   account |-> None, result |-> NoResult]
<1>1. PICK T : calls \in Seq(CallsOf(T))
  BY DEF RouteInvariant, CleanInvariant, Shape
<1>2. /\ calls' = Append(calls, new) /\ job = "running" /\ route # <<>> /\ route' = Tail(route)
      /\ UNCHANGED <<platform, exact, attempts>>
  BY DEF BeginCall
<1>3. new.by = Head(route) /\ new.try = attempts
  OBVIOUS
<1> HIDE DEF new
<1>4. /\ cur \in Nat /\ cur' = cur + 1 /\ DOMAIN calls = 1..cur /\ DOMAIN calls' = 1..(cur + 1)
      /\ calls'[cur + 1] = new /\ \A n \in 1..cur : calls'[n] = calls[n]
  BY <1>1, <1>2 DEF cur
<1>5. /\ N \in Nat /\ Line \in [1..N -> S]
      /\ \A m, n \in 1..N : m < n => Rank(Line[m]) < Rank(Line[n])
      /\ \A a \in S : \E n \in 1..N : Line[n] = a
      /\ \A a \in S : Rank(a) \in Nat
  BY RegisteredAreRanked, OrderedIsComplete DEF Line
<1>6. Line' = Line
  BY <1>2 DEF Line
<1>7. \A a : Tried(a) => Tried(a)'
  BY <1>2, <1>4 DEF Tried
<1> SUFFICES ASSUME ~exact PROVE OrderInvariant'
  BY <1>2 DEF OrderInvariant, RouteIsTheRest, NothingIsPassedOver
<1>8. PICK k \in 0..N : /\ route \in Seq(S) /\ Len(route) = N - k
                        /\ \A i \in 1..Len(route) : route[i] = Line[k + i]
                        /\ \A j \in 1..k : Tried(Line[j])
  BY <1>2 DEF OrderInvariant, RouteIsTheRest
<1> HIDE DEF N, S
<1>9. /\ Head(route) = Line[k + 1] /\ k + 1 \in 1..N
      /\ Tail(route) \in Seq(S) /\ Len(Tail(route)) = N - (k + 1)
      /\ \A i \in 1..Len(Tail(route)) : Tail(route)[i] = Line[(k + 1) + i]
  <2>1. Len(route) \in Nat /\ Len(route) > 0
    BY <1>2, <1>8
  <2>2. /\ Head(route) = route[1] /\ Tail(route) \in Seq(S) /\ Len(Tail(route)) = Len(route) - 1
        /\ \A i \in 1..Len(Tail(route)) : Tail(route)[i] = route[i + 1]
    BY <1>2, <1>8
  <2>3. k \in Nat /\ k + 1 \in 1..N
    BY <1>5, <1>8, <2>1
  <2>4. Head(route) = Line[k + 1]
    BY <1>8, <2>1, <2>2
  <2>5. ASSUME NEW i \in 1..Len(Tail(route)) PROVE Tail(route)[i] = Line[(k + 1) + i]
    <3>1. i + 1 \in 1..Len(route) /\ k + (i + 1) = (k + 1) + i
      BY <2>1, <2>2, <2>3
    <3> QED
      BY <1>8, <2>2, <3>1
  <2> QED
    BY <1>5, <1>8, <2>2, <2>3, <2>4, <2>5
<1>10. \A j \in 1..(k + 1) : Tried(Line[j])'
  <2> SUFFICES ASSUME NEW j \in 1..(k + 1) PROVE Tried(Line[j])'
    OBVIOUS
  <2>1. CASE j = k + 1
    BY <1>2, <1>3, <1>4, <1>6, <1>9, <2>1 DEF Tried
  <2>2. CASE j # k + 1
    <3>1. j \in 1..k
      BY <1>5, <1>8, <2>2
    <3> QED
      BY <1>6, <1>7, <1>8, <3>1
  <2> QED
    BY <2>1, <2>2
<1>11. RouteIsTheRest'
  <2>1. k + 1 \in 0..N
    BY <1>5, <1>9
  <2>2. /\ route' \in Seq(S) /\ Len(route') = N - (k + 1)
        /\ \A i \in 1..Len(route') : route'[i] = Line'[(k + 1) + i]
    BY <1>2, <1>6, <1>9
  <2>3. S = Registered(platform') /\ N = Cardinality(Registered(platform'))
    BY <1>2 DEF S, N
  <2> QED
    BY <1>10, <2>1, <2>2, <2>3 DEF RouteIsTheRest
<1>12. NothingIsPassedOver'
  <2> SUFFICES ASSUME NEW n \in 1..(cur + 1), NEW a \in S, Rank(a) < Rank(calls'[n].by)
               PROVE  \E m \in 1..(n - 1) : calls'[m].by = a /\ calls'[m].try = calls'[n].try
    BY <1>2, <1>4 DEF NothingIsPassedOver, S
  <2>1. CASE n # cur + 1
    <3>1. n \in 1..cur /\ calls'[n] = calls[n] /\ \A m \in 1..(n - 1) : m \in 1..cur
      BY <1>4, <2>1
    <3>2. \E m \in 1..(n - 1) : calls[m].by = a /\ calls[m].try = calls[n].try
      BY <1>4, <3>1 DEF OrderInvariant, NothingIsPassedOver, S
    <3> QED
      BY <1>4, <3>1, <3>2
  <2>2. CASE n = cur + 1
    <3>1. Rank(a) < Rank(Line[k + 1]) /\ calls'[n].try = attempts
      BY <1>3, <1>4, <1>9, <2>2
    <3>2. PICK j \in 1..N : Line[j] = a
      BY <1>5
    <3>3. j \in 1..k
      <4>1. ~(k + 1 < j) /\ j # k + 1
        <5>1. k + 1 < j => Rank(Line[k + 1]) < Rank(Line[j])
          BY <1>5, <1>9
        <5>2. Rank(Line[k + 1]) \in Nat /\ Rank(Line[j]) \in Nat
          BY <1>5, <1>9
        <5> QED
          BY <3>1, <3>2, <5>1, <5>2
      <4> QED
        BY <1>5, <1>8, <4>1
    <3>4. Tried(a)
      BY <1>8, <3>2, <3>3
    <3>5. n - 1 = cur
      BY <1>4, <2>2
    <3> QED
      BY <1>4, <3>1, <3>4, <3>5 DEF Tried
  <2> QED
    BY <2>1, <2>2
<1> QED
  BY <1>11, <1>12 DEF OrderInvariant

LEMMA StepKeepsOrder ==
    ASSUME RouteInvariant, OrderInvariant, [Next]_vars
    PROVE  OrderInvariant'
<1> Shape
  BY DEF RouteInvariant, CleanInvariant
<1>1. CASE BeginAttempt \/ RouteRefused
  BY <1>1, AttemptKeepsOrder
<1>2. CASE BeginCall
  BY <1>2, BeginCallKeepsOrder
<1>3. CASE Browser \/ Command \/ Cancelled \/ \E a \in Plugins : PluginCall(a)
  BY <1>3, CallsMakeCallSteps, CallStepsKeepOrder, KeptOrder
<1>4. CASE \E n \in DOMAIN calls : Settle(n)
  <2>1. PICK n \in DOMAIN calls : Settle(n)
    BY <1>4
  <2>2. PICK w \in Becomes(calls[n]) : calls' = [calls EXCEPT ![n].write = w]
    BY <2>1 DEF Settle
  <2>3. n \in 1..cur /\ w \in Writes
    BY <2>2, HistoryIsRecords DEF Becomes, Writes
  <2>4. \A who : /\ Shape' /\ cur' = cur
                 /\ calls'[n].by = calls[n].by /\ calls'[n].try = calls[n].try
                 /\ \A m \in 1..cur : m # n => calls'[m] = calls[m]
    BY <2>2, <2>3, WriteChanges
  <2>5. KeepsOrder
    BY <2>1, <2>4 DEF KeepsOrder, Settle, OnlyPlatform, worker
  <2> QED
    BY <2>5, KeptOrder
<1>5. CASE LoginInteractive \/ Reconfigured \/ UNCHANGED vars
  <2>1. UNCHANGED <<worker, calls>>
    BY <1>5 DEF LoginInteractive, Reconfigured, vars
  <2>2. KeepsOrder
    BY <2>1 DEF KeepsOrder, worker, Shape, cur
  <2> QED
    BY <2>2, KeptOrder
<1> QED
  BY <1>1, <1>2, <1>3, <1>4, <1>5 DEF Next

\* Whatever becomes of a plugin between its validation and a job, and however
\* the attempts go, no publisher is called before all that are registered in
\* front of it: resolve refuses rather than leave one out.
THEOREM NobodyIsPassedOver == Spec => []NothingIsPassedOver
<1>1. Init => RouteInvariant /\ OrderInvariant
  <2>1. Init => OrderInvariant
    BY DEF Init, OrderInvariant, RouteIsTheRest, NothingIsPassedOver
  <2> QED
    BY <2>1, InitRoutes
<1>2. RouteInvariant /\ OrderInvariant /\ [Next]_vars => (RouteInvariant /\ OrderInvariant)'
  BY StepRoutes, StepKeepsOrder
<1>3. OrderInvariant => NothingIsPassedOver
  BY DEF OrderInvariant
<1> QED
  BY <1>1, <1>2, <1>3, PTL DEF Spec
=============================================================================
