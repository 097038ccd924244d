------------------------------- MODULE MCParts -------------------------------
(* The parts of the platform that share no state with each other, checked in  *)
(* one run: a behaviour exercises one of them, and the others rest.           *)
EXTENDS OneTimeCodes, SecondFactor, ExternalAccounts, OAuthLogin, AppsQuota, ServiceGrants,
        AiGateway, DataIngest, RepoSync, IssueMatches, RepoReports, CameraAlerts, VisionSettings,
        Migrations

VARIABLE part

Part == {"codes", "factor", "accounts", "oauth", "apps", "grants", "ai", "data", "sync",
         "matches", "reports", "alerts", "settings", "schema"}

\* ExternalAccounts: the second account's name is taken by the first.
MCNameOf == [e \in {"g1", "g2"} |-> IF e = "g1" THEN "github_1" ELSE "github_2"]

\* DataIngest: a field of one value and one of several, moved or left out by the
\* second rule set; the third has two rules for one field and is refused.
Scalar == [field |-> "aspect", mode |-> "scalar", path |-> "a"]
Level  == [field |-> "aspect", mode |-> "scalar", path |-> "l"]
Affix  == [field |-> "affix", mode |-> "array", path |-> "b"]
MCRules == {{Scalar, Affix}, {Level}, {Scalar, Level}}
MCDoc == <<[a |-> 1, l |-> 9, b |-> <<[k |-> "x", v |-> 2], [k |-> "y", v |-> 2], [k |-> "x", v |-> 1]>>],
           [a |-> 9, l |-> 3, b |-> <<[k |-> "x", v |-> 2]>>]>>
MCPk  == <<"p", "p">>
Filter(field, key, op, value) == [field |-> field, key |-> key, op |-> op, value |-> value]
MCFilters == {Filter("aspect", "", "any", 0), Filter("aspect", "", "=", 1),
              Filter("affix", "y", "any", 0), Filter("affix", "x", ">=", 2),
              Filter("affix", "", "<", 2)}

OthersRest(p) ==
    /\ p # "codes"    => UNCHANGED codesVars
    /\ p # "factor"   => UNCHANGED factorVars
    /\ p # "accounts" => UNCHANGED accountVars
    /\ p # "oauth"    => UNCHANGED oauthVars
    /\ p # "apps"     => UNCHANGED appsVars
    /\ p # "grants"   => UNCHANGED grantVars
    /\ p # "ai"       => UNCHANGED aiVars
    /\ p # "data"     => UNCHANGED dataVars
    /\ p # "sync"     => UNCHANGED syncVars
    /\ p # "matches"  => UNCHANGED matchVars
    /\ p # "reports"  => UNCHANGED reportVars
    /\ p # "alerts"   => UNCHANGED alarmVars
    /\ p # "settings" => UNCHANGED settingVars
    /\ p # "schema"   => UNCHANGED migrationVars

\* Where a part may begin in several ways, it begins in one while it rests.
\* The alerts begin with no channel, the middle one or all; an edit of their
\* settings gives any set of them.
PartsInit ==
    /\ part \in Part
    /\ CodesInit  /\ (part # "codes" => flow = "reset")
    /\ DataInit   /\ (part # "data" => rules = {Level})
    /\ SyncInit   /\ (part # "sync" => repo = NewRepo(""))
    /\ AlarmsInit /\ (part # "alerts" => sender = "off" /\ channelsOn = {})
                  /\ channelsOn \in {{}, {"email"}, Channel}
    /\ MigrationsInit /\ (part # "schema" => \A r \in Starter : starter[r].build = 0)
    /\ FactorInit /\ AccountsInit /\ OauthInit /\ AppsInit /\ GrantsInit /\ AiInit
    /\ MatchesInit /\ ReportsInit /\ SettingsInit
PartsNext ==
    /\ UNCHANGED part
    /\ \/ part = "codes"    /\ CodesNext    /\ OthersRest("codes")
       \/ part = "factor"   /\ FactorNext   /\ OthersRest("factor")
       \/ part = "accounts" /\ AccountsNext /\ OthersRest("accounts")
       \/ part = "oauth"    /\ OauthNext    /\ OthersRest("oauth")
       \/ part = "apps"     /\ AppsNext     /\ OthersRest("apps")
       \/ part = "grants"   /\ GrantsNext   /\ OthersRest("grants")
       \/ part = "ai"       /\ AiNext       /\ OthersRest("ai")
       \/ part = "data"     /\ DataNext     /\ OthersRest("data")
       \/ part = "sync"     /\ SyncNext     /\ OthersRest("sync")
       \/ part = "matches"  /\ MatchesNext  /\ OthersRest("matches")
       \/ part = "reports"  /\ ReportsNext  /\ OthersRest("reports")
       \/ part = "alerts"   /\ AlarmsNext   /\ OthersRest("alerts")
       \/ part = "settings" /\ SettingsNext /\ OthersRest("settings")
       \/ part = "schema"   /\ MigrationsNext /\ OthersRest("schema")

PartsSpec == PartsInit /\ [][PartsNext]_<<part, codesVars, factorVars, accountVars, oauthVars,
    appsVars, grantVars, aiVars, dataVars, syncVars, matchVars, reportVars, alarmVars, settingVars,
    migrationVars>>

-----------------------------------------------------------------------------
\* Ways into an account keep to their limits, but for what the parts name: codes
\* mailed and guessed at, by what overlapped or failed (svc-users/reset.go:99, 156,
\* 174); states and codes of a login, but on a replica without Redis
\* (svc-oauth/store.go:46); accounts of an identity, but where a binding crosses a
\* login or a lookup fails (auth/external.go:68, 101).
SignInHolds == CodesHold /\ LoginsHold /\ AccountsHold

\* What one tenant or app is given is what an admin set, within the time a token
\* lives and is asked for in and while the log can be read (auth/apps.go:58); as the
\* admin was told, unless another tenant had it (svc-grants/main.go:184); and, of AI
\* providers, in each column that no PATCH is about to set and that neither two at a
\* time nor a failed statement have left open (svc-ai/admin.go:116).
AdministrationHolds == AppsHold /\ GrantsHold /\ CredentialFits

\* What gitpulse says of a repository accounts for its commits: the issues they
\* fix, but for crossings and failures between two statements, and the digests they
\* are in, but for gaps between spans and late commits (analyzer.go:57-60, 141-145).
AnalysisHolds == MatchesTold /\ LostOnlyInGaps

\* What svc-vision is told by a camera is lost only by a failed INSERT, at most
\* one alarm to each (onvifevent/manager.go:174), and what its console is told only by
\* requests that overlap, rows not saved or fields without one (api/server.go:1050).
VisionHolds == AlertsHold /\ SettingsHold
=============================================================================
