--------------------------- MODULE PublisherPlugins ---------------------------
(* Which publishers a platform has: the built-in ones that settings switch   *)
(* on, and plugins from other packages that the operator allows by name      *)
(* (publishers/registry.py, publishers/plugin_sdk.py).                       *)
(*                                                                           *)
(* Plugins are validated once, when the process starts, and each is          *)
(* constructed and checked again whenever a job is routed.  In between its   *)
(* package may be upgraded or removed.                                       *)
EXTENDS Integers, FiniteSets

CONSTANTS
    Enabled,        \* optional built-in publishers that are switched on
    Plugins,        \* publisher_plugin_allowlist
    Home,           \* the platform of each plugin
    PluginPriority  \* its priority; the lower, the earlier

ASSUME PublisherPluginsAssumption ==
    /\ Home \in [Plugins -> STRING]
    /\ PluginPriority \in [Plugins -> 1..1000]
    /\ \A a, b \in Plugins : Home[a] = Home[b] /\ PluginPriority[a] = PluginPriority[b] => a = b

VARIABLES
    condition,  \* what each plugin's package is like at the moment
    admitted    \* plugin_validation_report.ok of this process

plugins == <<condition, admitted>>

\* unloadable: missing, doubled, without metadata, it does not import, its
\* provider fails or names another version.  misbuilt: its factory fails, or
\* makes something else than the manifest says.
Conditions == {"valid", "unloadable", "misbuilt"}

\* One entry point of that name is installed, and it loads.
Loads(a) == condition[a] # "unloadable"

\* A built-in publisher always is what it says; a plugin's factory may fail.
Constructs(a) == a \notin Plugins \/ condition[a] # "misbuilt"

\* validate_enabled_publisher_plugins: one bad plugin spoils the report.
ReportOk == \A a \in Plugins : Loads(a) /\ Constructs(a)

PluginsInit ==
    /\ condition \in [Plugins -> Conditions]
    /\ admitted = ReportOk

-----------------------------------------------------------------------------
(* build_default_registry.                                                   *)

Priority ==
    [zhihu_cli |-> 5, zhihu |-> 10, xhs_camoufox |-> 5, sau |-> 10, xhs_skills |-> 20,
     wechat_mp_api |-> 5, wechat_mp |-> 10, youtube |-> 5, toutiao |-> 10,
     baijiahao |-> 10, sohuhao |-> 10]

Optional == {"zhihu_cli", "xhs_camoufox", "wechat_mp_api", "youtube", "baijiahao", "sohuhao"}

BuiltIn(p) ==
    CASE p = "zhihu"     -> {"zhihu_cli", "zhihu"}
      [] p = "xhs"       -> {"xhs_camoufox", "sau", "xhs_skills"}
      [] p = "wechat_mp" -> {"wechat_mp_api", "wechat_mp"}
      [] p \in {"youtube", "toutiao", "baijiahao", "sohuhao"} -> {p}
      [] OTHER           -> {"sau"}

Registered(p) ==
    {a \in BuiltIn(p) : a \in Enabled \/ a \notin Optional} \cup {a \in Plugins : Home[a] = p}

\* A plugin that calls itself like a built-in publisher is refused.
ASSUME PluginsAreOthers == Plugins \cap DOMAIN Priority = {}

\* With one priority, a built-in publisher comes before a plugin.
Rank(a) == IF a \in Plugins THEN 2 * PluginPriority[a] + 1 ELSE 2 * Priority[a]

Ordered(S) ==
    CHOOSE s \in [1..Cardinality(S) -> S] :
        \A m, n \in 1..Cardinality(S) : m < n => Rank(s[m]) < Rank(s[n])

\* A mistake: a publisher that cannot be constructed is left out.
BugRefusesRoute(p) == ~admitted

\* resolve raises: for every platform if the report had an error, for this one
\* if a plugin that was valid is not what it was.
RefusesRoute(p) ==
    \/ ~admitted
    \/ \E a \in Registered(p) : ~Constructs(a)

Resolve(S) == Ordered({a \in S : Constructs(a)})

-----------------------------------------------------------------------------
(* The process and the packages around it.                                   *)

ProcessStarts == admitted # ReportOk /\ admitted' = ReportOk /\ UNCHANGED condition

PackageChanges ==
    /\ \E a \in Plugins : \E c \in Conditions \ {condition[a]} :
          condition' = [condition EXCEPT ![a] = c]
    /\ UNCHANGED admitted
=============================================================================
