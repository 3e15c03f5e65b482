------------------------------- MODULE Switches ------------------------------
\* What is switched on: feature flags in the backend, the browser and the phone,
\* and the settings page.
EXTENDS Subject, Integers, FiniteSets

-----------------------------------------------------------------------------
(***************************************************************************)
(* FeatureFlags                                                            *)
(*                                                                         *)
(* Feature flags from the admin's toggle to the browser: the Redis record  *)
(* and its audit row, the bootstrap route that resolves flags from the     *)
(* backend, the environment and the catalog, the stale-while-revalidate    *)
(* cache in the page, and the hook that shows them.                        *)
(*                                                                         *)
(* The bootstrap route asks the backend without a token and the backend's  *)
(* list is for admins, so its answer is always empty: a toggle changes the *)
(* record, never the page.                                                 *)
(***************************************************************************)

CONSTANTS
  SetVars,         \* the variables a deployment may set
  Toggles,         \* PATCH requests of admins on one flag
  FlagTtl,         \* SERVER_FLAGS_TTL_MS, in ticks
  LastFlagTick,    \* bound: time
  MaxFlagLookups   \* bound: calls of fetchServerFlags

VARIABLES
  flagRecord, toggles, auditedToggles,   \* Redis, the PATCH requests, their audit rows
  flagEnv,                           \* the NEXT_PUBLIC_* variables of the build
  flagCache, fetching, counters,     \* the page's cache, requests in flight, metrics
  flagHook, flagTick

flagVars == <<flagRecord, toggles, auditedToggles, flagEnv, flagCache, fetching, counters,
              flagHook, flagTick>>

Flags == {"adminUI", "offlineBanner", "tradeWizardV2"}
FLAG_CATALOG == [f \in Flags |-> f = "offlineBanner"]

\* The variable each reader looks at: the route puts an underscore before
\* every capital, so adminUI becomes ENABLE_ADMIN_U_I.
SnapshotVar(f) == CASE f = "adminUI" -> "ENABLE_ADMIN_UI"
                    [] f = "offlineBanner" -> "DISABLE_OFFLINE_BANNER"
                    [] OTHER -> "ENABLE_TRADE_WIZARD_V2"
RouteVar(f) == CASE f = "adminUI" -> "ENABLE_ADMIN_U_I"
                 [] f = "offlineBanner" -> "ENABLE_OFFLINE_BANNER"
                 [] OTHER -> "ENABLE_TRADE_WIZARD_V2"
EnvVars == {SnapshotVar(f) : f \in Flags} \cup {RouteVar(f) : f \in Flags}

GetFeatureFlags ==
  [f \in Flags |-> IF f = "offlineBanner" THEN flagEnv[SnapshotVar(f)] # "true" /\ FLAG_CATALOG[f]
                   ELSE flagEnv[SnapshotVar(f)] = "true" \/ FLAG_CATALOG[f]]

NoEntry == [flags |-> FLAG_CATALOG, at |-> -1, revalidating |-> FALSE, ok |-> FALSE]

FlagsInit ==
  /\ flagRecord = "none" /\ toggles = [t \in Toggles |-> "idle"] /\ auditedToggles = {}
  /\ flagEnv = [v \in EnvVars |-> "unset"]
  /\ flagCache = NoEntry /\ fetching = [cold |-> 0, background |-> 0]
  /\ counters = [hits |-> 0, misses |-> 0, stale |-> 0, deduped |-> 0, requests |-> 0, errors |-> 0]
  /\ flagHook = [shown |-> GetFeatureFlags, loading |-> TRUE, waiting |-> FALSE, ok |-> FALSE,
                 mounted |-> FALSE]
  /\ flagTick = 0

\* The environment the site was built with.
FlagsStart ==
  /\ \E set \in [SetVars -> {"unset", "true", "false"}] :
       flagEnv' = [v \in EnvVars |-> IF v \in SetVars THEN set[v] ELSE "unset"]
  /\ flagHook' = [flagHook EXCEPT !.shown = GetFeatureFlags']
  /\ UNCHANGED <<flagRecord, toggles, auditedToggles, flagCache, fetching, counters, flagTick>>

browserVars == <<flagEnv, flagCache, fetching, counters, flagHook, flagTick>>
backendVars == <<flagRecord, toggles, auditedToggles>>

-----------------------------------------------------------------------------
(* PATCH /api/admin/features/:name: the record, then the audit row         *)

SetFlag(t) ==
  /\ toggles[t] = "idle" /\ flagRecord' = t /\ toggles' = [toggles EXCEPT ![t] = "written"]
  /\ UNCHANGED <<auditedToggles, browserVars>>

SetFlagFails(t) ==
  /\ toggles[t] = "idle" /\ toggles' = [toggles EXCEPT ![t] = "error"]
  /\ UNCHANGED <<flagRecord, auditedToggles, browserVars>>

AuditToggle(t) ==
  /\ toggles[t] = "written"
  /\ auditedToggles' = auditedToggles \cup {t} /\ toggles' = [toggles EXCEPT ![t] = "ok"]
  /\ UNCHANGED <<flagRecord, browserVars>>

AuditToggleFails(t) ==
  /\ toggles[t] = "written" /\ toggles' = [toggles EXCEPT ![t] = "error"]
  /\ UNCHANGED <<flagRecord, auditedToggles, browserVars>>

-----------------------------------------------------------------------------
(* GET /api/flags                                                          *)

\* What the backend names: nothing when it does not answer with success, and
\* GET passes no token where the list is for admins.
FetchBackendFlags == [f \in {} |-> FALSE]

ResolveFlags ==
  LET backend == FetchBackendFlags
  IN [f \in Flags |-> IF f \in DOMAIN backend THEN backend[f]
                      ELSE IF flagEnv[RouteVar(f)] # "unset" THEN flagEnv[RouteVar(f)] = "true"
                      ELSE FLAG_CATALOG[f]]

-----------------------------------------------------------------------------
(* fetchServerFlags                                                        *)

Lookups == counters.hits + counters.misses + counters.stale + counters.deduped
InCold == fetching.cold > 0

FreshHit == flagCache.at >= 0 /\ flagTick - flagCache.at < FlagTtl

MayRevalidate == ~flagCache.revalidating

Lookup ==
  /\ Lookups < MaxFlagLookups
  /\ \/ /\ FreshHit
        /\ counters' = [counters EXCEPT !.hits = @ + 1] /\ UNCHANGED <<flagCache, fetching>>
     \/ /\ flagCache.at >= 0 /\ ~FreshHit
        /\ counters' = [counters EXCEPT !.stale = @ + 1,
                                        !.requests = @ + IF MayRevalidate THEN 1 ELSE 0]
        /\ flagCache' = [flagCache EXCEPT !.revalidating = TRUE]
        /\ fetching' = [fetching EXCEPT !.background = @ + IF MayRevalidate THEN 1 ELSE 0]
     \/ /\ flagCache.at < 0 /\ InCold
        /\ counters' = [counters EXCEPT !.deduped = @ + 1] /\ UNCHANGED <<flagCache, fetching>>
     \/ /\ flagCache.at < 0 /\ ~InCold
        /\ counters' = [counters EXCEPT !.misses = @ + 1, !.requests = @ + 1]
        /\ fetching' = [fetching EXCEPT !.cold = 1] /\ UNCHANGED flagCache

\* A cached answer reaches the hook at once, a cold one with the fetch.
Served(loading) ==
  IF flagCache.at >= 0
  THEN [flagHook EXCEPT !.shown = flagCache.flags, !.loading = FALSE, !.ok = flagCache.ok,
                        !.mounted = TRUE]
  ELSE [flagHook EXCEPT !.loading = loading, !.waiting = TRUE, !.mounted = TRUE]

MountFlags ==
  /\ ~flagHook.mounted /\ Lookup /\ flagHook' = Served(TRUE)
  /\ UNCHANGED <<backendVars, flagEnv, flagTick>>

UnmountFlags ==
  /\ flagHook.mounted
  /\ flagHook' = [shown |-> GetFeatureFlags, loading |-> TRUE, waiting |-> FALSE, ok |-> FALSE,
                  mounted |-> FALSE]
  /\ UNCHANGED <<backendVars, flagEnv, flagCache, fetching, counters, flagTick>>

\* The panel's Refresh, disabled while loading.
RefreshFlags ==
  /\ flagHook.mounted /\ ~flagHook.loading /\ Lookup /\ flagHook' = Served(TRUE)
  /\ UNCHANGED <<backendVars, flagEnv, flagTick>>

Fetched(ok) == [flags |-> IF ok THEN ResolveFlags ELSE FLAG_CATALOG, at |-> flagTick,
                revalidating |-> FALSE, ok |-> ok]

FetchEnds(kind, ok) ==
  /\ fetching[kind] > 0 /\ fetching' = [fetching EXCEPT ![kind] = @ - 1]
  /\ flagCache' = Fetched(ok)
  /\ counters' = [counters EXCEPT !.errors = @ + IF ok THEN 0 ELSE 1]
  /\ flagHook' = IF kind = "cold" /\ flagHook.mounted /\ flagHook.waiting
                 THEN [flagHook EXCEPT !.shown = Fetched(ok).flags, !.loading = FALSE,
                                       !.waiting = FALSE, !.ok = ok]
                 ELSE flagHook
  /\ UNCHANGED <<backendVars, flagEnv, flagTick>>

FlagTime ==
  /\ flagTick < LastFlagTick /\ flagTick' = flagTick + 1
  /\ UNCHANGED <<backendVars, flagEnv, flagCache, fetching, counters, flagHook>>

FlagsNext ==
  \/ \E t \in Toggles : SetFlag(t) \/ SetFlagFails(t) \/ AuditToggle(t) \/ AuditToggleFails(t)
  \/ MountFlags \/ UnmountFlags \/ RefreshFlags
  \/ \E kind \in {"cold", "background"}, ok \in BOOLEAN : FetchEnds(kind, ok)
  \/ FlagTime

FlagsSpec == FlagsInit /\ [][FlagsNext]_flagVars

FlagsTypeOK ==
  /\ flagHook.shown \in [Flags -> BOOLEAN] /\ flagCache.flags \in [Flags -> BOOLEAN]
  /\ fetching.cold \in Nat /\ fetching.background \in Nat /\ flagRecord \in Toggles \cup {"none"}

(* A toggle that is in force was audited, is still being handled, or was   *)
(* answered with an error: no admin is told "done" about a change that the *)
(* audit does not have (admin.features.routes.ts).                         *)
DoneTogglesAudited ==
  flagRecord \in Toggles => flagRecord \in auditedToggles \/ toggles[flagRecord] \in {"written", "error"}

(* However lookups, expiries, failures and remounts interleave, the page   *)
(* has at most one flag request in flight, and the metrics never claim     *)
(* fewer lookups than requests (featureFlags.ts: revalidating, _inFlight). *)
OneFlagFetch ==
  /\ fetching.cold + fetching.background <= 1
  /\ Lookups >= counters.requests /\ counters.errors <= counters.requests

(* A flag whose two readers look at the same variable keeps, after a load  *)
(* that succeeded, the value the first render took from the environment.   *)
(* For adminUI and offlineBanner the readers disagree on the name          *)
(* (api/flags/route.ts: envKey; featureFlags.ts: getFeatureFlags).         *)
LoadKeepsSnapshot ==
  \A f \in Flags : SnapshotVar(f) = RouteVar(f) /\ ~flagHook.loading /\ flagHook.ok
                     => flagHook.shown[f] = GetFeatureFlags[f]

-----------------------------------------------------------------------------
(***************************************************************************)
(* PhoneFlags                                                              *)
(*                                                                         *)
(* The phone's feature-flag screen: it lists the backend's flags, flips a  *)
(* switch at once and tells the backend, and flips it back when the        *)
(* backend did not take it. Several switches may be on their way together. *)
(***************************************************************************)

CONSTANTS
  PhoneFlagNames,
  MaxFlagPatches, MaxFlagLoads, MaxFlagVisits   \* bounds

VARIABLES
  switches,       \* the screen
  flagsHeld,      \* the flags at the backend
  patches,        \* PATCH requests in flight
  switchLoads,    \* GET requests in flight
  flagCounts,
  blurred         \* flags with overlapping requests or a lost answer this far

phoneFlagVars == <<switches, flagsHeld, patches, switchLoads, flagCounts, blurred>>

NoFlags == [n \in {} |-> FALSE]

FreshSwitches(visit) ==
  [open |-> TRUE, visit |-> visit, loaded |-> FALSE, flags |-> NoFlags, busy |-> FALSE,
   loadError |-> FALSE, rowError |-> FALSE, spinning |-> {}]

PhoneFlagsInit ==
  /\ switches = [FreshSwitches(0) EXCEPT !.open = FALSE]
  /\ flagsHeld = [f \in PhoneFlagNames |-> FALSE]
  /\ patches = {} /\ switchLoads = {} /\ flagCounts = [patches |-> 0, loads |-> 0] /\ blurred = {}

\* The flags the backend already holds.
PhoneFlagsStart ==
  /\ flagsHeld' \in [PhoneFlagNames -> BOOLEAN]
  /\ UNCHANGED <<switches, patches, switchLoads, flagCounts, blurred>>

-----------------------------------------------------------------------------
(* Loading                                                                 *)

LoadAsked(screen) ==
  /\ flagCounts.loads < MaxFlagLoads
  /\ flagCounts' = [flagCounts EXCEPT !.loads = @ + 1]
  /\ switches' = [screen EXCEPT !.busy = TRUE, !.loadError = FALSE, !.rowError = FALSE]
  /\ switchLoads' = switchLoads \cup {[id |-> flagCounts.loads, visit |-> screen.visit]}
  /\ UNCHANGED <<flagsHeld, patches, blurred>>

OpenFlags ==
  /\ ~switches.open /\ switches.visit < MaxFlagVisits
  /\ LoadAsked(FreshSwitches(switches.visit + 1))

\* The banner's retry reloads only after a failed load.
RetryFlags == switches.open /\ switches.loadError /\ ~switches.busy /\ LoadAsked(switches)

LeaveFlags ==
  /\ switches.open /\ switches' = [switches EXCEPT !.open = FALSE]
  /\ UNCHANGED <<flagsHeld, patches, switchLoads, flagCounts, blurred>>

ShownOn(visit) == switches.open /\ switches.visit = visit

FlagsAnswered(l) ==
  /\ l \in switchLoads /\ switchLoads' = switchLoads \ {l}
  /\ switches' = IF ShownOn(l.visit)
                 THEN [switches EXCEPT !.busy = FALSE, !.loaded = TRUE, !.flags = flagsHeld] ELSE switches
  /\ blurred' = IF ShownOn(l.visit) THEN {p.name : p \in patches} ELSE blurred
  /\ UNCHANGED <<flagsHeld, patches, flagCounts>>

FlagsFail(l) ==
  /\ l \in switchLoads /\ switchLoads' = switchLoads \ {l}
  /\ switches' = IF ShownOn(l.visit) THEN [switches EXCEPT !.busy = FALSE, !.loadError = TRUE] ELSE switches
  /\ UNCHANGED <<flagsHeld, patches, flagCounts, blurred>>

-----------------------------------------------------------------------------
(* Flipping a switch                                                       *)

\* A loaded flag has its switch unless it is the one that spins.
SwitchView(n) == switches.open /\ switches.loaded /\ n \notin switches.spinning

\* One name spins at a time: a second flip takes the spinner from the first.
ToggleFlag(n) ==
  /\ SwitchView(n)
  /\ flagCounts.patches < MaxFlagPatches /\ flagCounts' = [flagCounts EXCEPT !.patches = @ + 1]
  /\ switches' = [switches EXCEPT !.spinning = {n}, !.rowError = FALSE, !.flags[n] = ~@]
  /\ patches' = patches \cup {[id |-> flagCounts.patches, visit |-> switches.visit, name |-> n,
                               next |-> ~switches.flags[n], before |-> switches.flags, stage |-> "out"]}
  /\ blurred' = IF \E p \in patches : p.name = n THEN blurred \cup {n} ELSE blurred
  /\ UNCHANGED <<flagsHeld, switchLoads>>

FlagStored(p) ==
  /\ p \in patches /\ p.stage = "out"
  /\ flagsHeld' = [flagsHeld EXCEPT ![p.name] = p.next]
  /\ patches' = (patches \ {p}) \cup {[p EXCEPT !.stage = "stored"]}
  /\ UNCHANGED <<switches, switchLoads, flagCounts, blurred>>

ToggleDone(p) ==
  /\ p \in patches /\ p.stage = "stored" /\ patches' = patches \ {p}
  /\ switches' = IF ShownOn(p.visit) THEN [switches EXCEPT !.spinning = {}] ELSE switches
  /\ UNCHANGED <<flagsHeld, switchLoads, flagCounts, blurred>>

PutBack(flags, p) == [flags EXCEPT ![p.name] = p.before[p.name]]

\* The backend refused, or its answer was lost after it had stored the flag.
ToggleFailed(p) ==
  /\ p \in patches /\ patches' = patches \ {p}
  /\ switches' = IF ShownOn(p.visit)
                 THEN [switches EXCEPT !.flags = PutBack(@, p), !.rowError = TRUE, !.spinning = {}]
                 ELSE switches
  /\ blurred' = IF p.stage = "stored" THEN blurred \cup {p.name} ELSE blurred
  /\ UNCHANGED <<flagsHeld, switchLoads, flagCounts>>

PhoneFlagsNext ==
  \/ OpenFlags \/ RetryFlags \/ LeaveFlags
  \/ \E l \in switchLoads : FlagsAnswered(l) \/ FlagsFail(l)
  \/ \E n \in PhoneFlagNames : ToggleFlag(n)
  \/ \E p \in patches : FlagStored(p) \/ ToggleDone(p) \/ ToggleFailed(p)

PhoneFlagsSpec == PhoneFlagsInit /\ [][PhoneFlagsNext]_phoneFlagVars

PhoneFlagsTypeOK ==
  /\ flagsHeld \in [PhoneFlagNames -> BOOLEAN] /\ blurred \subseteq PhoneFlagNames
  /\ DOMAIN switches.flags \in {{}, PhoneFlagNames}

(* A switch whose requests have all ended shows the flag the backend       *)
(* holds, whatever other switches failed meanwhile. Two flips of one flag  *)
(* on their way together, a list loaded under a flip and a lost answer     *)
(* are the exceptions (AdminFeaturesScreen.tsx: toggleFlag).               *)
QuietSwitchMatches ==
  (switches.open /\ switches.loaded) =>
    \A n \in PhoneFlagNames \ blurred :
      (\A p \in patches : p.name # n) => switches.flags[n] = flagsHeld[n]

-----------------------------------------------------------------------------
(***************************************************************************)
(* SettingsPage                                                            *)
(*                                                                         *)
(* The settings page and the theme that spans all pages: a script applies  *)
(* the stored theme before the first paint, the provider takes over when   *)
(* it hydrates, options are previewed by hovering or focusing and stored   *)
(* only when selected, and the system preference may change at any moment. *)
(* The other preferences live in the page and are gone when it is left;    *)
(* saving them shows a badge that one timer per save hides.                *)
(***************************************************************************)

CONSTANTS
  BadgeTime,         \* 2500 ms
  LastSettingsTick,  \* bound: time
  MaxThemeMoves      \* bound: previews, selections, system changes and loads

VARIABLES
  theme,             \* preference, preview, systemTheme, phase, and the class on <html>
  themeStored,       \* localStorage; "none" when nothing is stored
  device,            \* the system's colour scheme
  settings,          \* page open, chosen preferences, badge
  badgeTimers,       \* times at which a timer hides the badge
  settingsTick, themeMoves,
  selected,          \* ghost: the theme last selected
  savedAt            \* ghost: time of the last save

settingsVars == <<theme, themeStored, device, settings, badgeTimers, settingsTick, themeMoves,
                  selected, savedAt>>

Themes == {"system", "light", "dark"}
Shades == {"light", "dark"}
Prefs == {"account", "notifications"}   \* network, currency and sign-out; the switches

Resolve(preference, shade) == IF preference = "system" THEN shade ELSE preference
Effective(t) == IF t.preview # "none" THEN t.preview ELSE t.preference
Applied(t) == [t EXCEPT !.class = Resolve(Effective(t), t.systemTheme)]

\* The script in <head>: the stored preference, or the system's, before paint.
ThemeScript(stored, shade) ==
  [preference |-> "system", preview |-> "none", systemTheme |-> "dark", phase |-> "script",
   class |-> Resolve(IF stored = "none" THEN "system" ELSE stored, shade)]

PageClosed == [open |-> FALSE, changed |-> {}, badge |-> FALSE]

SettingsInit ==
  /\ device = "light" /\ themeStored = "none"
  /\ theme = ThemeScript(themeStored, device)
  /\ settings = PageClosed /\ badgeTimers = {} /\ settingsTick = 0 /\ themeMoves = 0
  /\ selected = themeStored /\ savedAt = 0

\* The device and the stored choice the visitor comes with.
SettingsStart ==
  /\ device' \in Shades /\ themeStored' \in Themes \cup {"none"}
  /\ theme' = ThemeScript(themeStored', device') /\ selected' = themeStored'
  /\ UNCHANGED <<settings, badgeTimers, settingsTick, themeMoves, savedAt>>

Moved == themeMoves < MaxThemeMoves /\ themeMoves' = themeMoves + 1
formVars == <<settings, badgeTimers, settingsTick, savedAt>>

\* The effects of the first render: the class effect still knows only the defaults,
\* so the script's class may be replaced until the next render.
ThemeMounts ==
  /\ theme.phase = "script" /\ theme' = Applied([theme EXCEPT !.phase = "mounted"])
  /\ UNCHANGED <<themeStored, device, themeMoves, selected, formVars>>

\* The render after the mount effect, with what that effect read.
ThemeHydrates ==
  /\ theme.phase = "mounted"
  /\ theme' = Applied([theme EXCEPT !.phase = "hydrated", !.systemTheme = device,
                         !.preference = IF themeStored = "none" THEN "system" ELSE themeStored])
  /\ UNCHANGED <<themeStored, device, themeMoves, selected, formVars>>

HeardSystem(shade) == shade

DeviceChanges ==
  /\ Moved /\ theme.phase = "hydrated"
  /\ \E shade \in Shades \ {device} :
       device' = shade /\ theme' = Applied([theme EXCEPT !.systemTheme = HeardSystem(shade)])
  /\ UNCHANGED <<themeStored, selected, formVars>>

ThemeToggleView == settings.open /\ theme.phase = "hydrated"

\* Hovering, focusing, or moving with the arrow keys.
PreviewTheme(t) ==
  /\ ThemeToggleView /\ Moved /\ theme' = Applied([theme EXCEPT !.preview = t])
  /\ UNCHANGED <<themeStored, device, selected, formVars>>

ClearThemePreview ==
  /\ ThemeToggleView /\ theme.preview # "none" /\ theme' = Applied([theme EXCEPT !.preview = "none"])
  /\ UNCHANGED <<themeStored, device, themeMoves, selected, formVars>>

StoredOnSelect(t) == t

SetTheme(t) ==
  /\ ThemeToggleView /\ Moved
  /\ theme' = Applied([theme EXCEPT !.preference = t, !.preview = "none"])
  /\ themeStored' = StoredOnSelect(t) /\ selected' = t
  /\ UNCHANGED <<device, formVars>>

\* A full reload of the application.
SettingsReload ==
  /\ Moved /\ theme' = ThemeScript(themeStored, device)
  /\ settings' = PageClosed /\ badgeTimers' = {}
  /\ UNCHANGED <<themeStored, device, settingsTick, selected, savedAt>>

-----------------------------------------------------------------------------
(* The page's own preferences                                              *)

OpenSettings ==
  /\ ~settings.open /\ settings' = [PageClosed EXCEPT !.open = TRUE]
  /\ UNCHANGED <<theme, themeStored, device, badgeTimers, settingsTick, themeMoves, selected, savedAt>>

\* Leaving runs neither the mouse-leave nor the blur handler: a preview stays on.
LeaveSettings ==
  /\ settings.open /\ settings' = PageClosed /\ badgeTimers' = {}
  /\ UNCHANGED <<theme, themeStored, device, settingsTick, themeMoves, selected, savedAt>>

SetPref(p) ==
  /\ settings.open /\ p \notin settings.changed /\ settings' = [settings EXCEPT !.changed = @ \cup {p}]
  /\ UNCHANGED <<theme, themeStored, device, badgeTimers, settingsTick, themeMoves, selected, savedAt>>

TimersAfterSave == badgeTimers \cup {settingsTick + BadgeTime}

\* Every field always has a value, so validation passes.
HandleSavePreferences ==
  /\ settings.open /\ settings' = [settings EXCEPT !.badge = TRUE]
  /\ badgeTimers' = TimersAfterSave /\ savedAt' = settingsTick
  /\ UNCHANGED <<theme, themeStored, device, settingsTick, themeMoves, selected>>

BadgeTimerFires ==
  /\ settingsTick \in badgeTimers
  /\ settings' = [settings EXCEPT !.badge = FALSE] /\ badgeTimers' = badgeTimers \ {settingsTick}
  /\ UNCHANGED <<theme, themeStored, device, settingsTick, themeMoves, selected, savedAt>>

SettingsTickPasses ==
  /\ settingsTick < LastSettingsTick /\ settingsTick \notin badgeTimers
  /\ settingsTick' = settingsTick + 1
  /\ UNCHANGED <<theme, themeStored, device, settings, badgeTimers, themeMoves, selected, savedAt>>

SettingsNext ==
  \/ ThemeMounts \/ ThemeHydrates \/ DeviceChanges \/ ClearThemePreview \/ SettingsReload
  \/ \E t \in Themes : PreviewTheme(t) \/ SetTheme(t)
  \/ OpenSettings \/ LeaveSettings \/ HandleSavePreferences \/ BadgeTimerFires \/ SettingsTickPasses
  \/ \E p \in Prefs : SetPref(p)

SettingsSpec == SettingsInit /\ [][SettingsNext]_settingsVars

SettingsTypeOK ==
  /\ theme.class \in Shades /\ theme.preview \in Themes \cup {"none"} /\ settings.changed \subseteq Prefs
  /\ themeStored \in Themes \cup {"none"} /\ theme.phase \in {"script", "mounted", "hydrated"}

(* Browsing the options never rewrites the stored preference: what a       *)
(* reload applies is the theme last selected, whatever was previewed       *)
(* before or while it was selected (useTheme.tsx: setTheme).               *)
BrowsingIsNotSelecting == themeStored = selected

(* With no preview on, the page wears the selected theme, and a selection  *)
(* of "system" follows the device even when the device changed under       *)
(* another preference or another preview (useTheme.tsx: ThemeProvider).    *)
WearsSelectedTheme ==
  theme.phase = "hydrated" /\ theme.preview = "none" =>
    theme.class = Resolve(IF selected = "none" THEN "system" ELSE selected, device)

(* The saved badge is gone at the latest when the badge time after the     *)
(* last save is over, whatever saves came before it (page.tsx:             *)
(* handleSavePreferences).                                                 *)
BadgeIsRecent == settings.badge => settingsTick <= savedAt + BadgeTime

-----------------------------------------------------------------------------
\* The parts side by side: a behaviour follows one of them.

switchVars == <<flagVars, phoneFlagVars, settingsVars>>

SwitchesInit ==
  /\ FlagsInit
  /\ PhoneFlagsInit
  /\ SettingsInit

SwitchesNext ==
  \/ /\ \/ TurnTo("FeatureFlags") /\ FlagsStart
        \/ StaysWith("FeatureFlags") /\ FlagsNext
     /\ UNCHANGED <<phoneFlagVars, settingsVars>>
  \/ /\ \/ TurnTo("PhoneFlags") /\ PhoneFlagsStart
        \/ StaysWith("PhoneFlags") /\ PhoneFlagsNext
     /\ UNCHANGED <<flagVars, settingsVars>>
  \/ /\ \/ TurnTo("SettingsPage") /\ SettingsStart
        \/ StaysWith("SettingsPage") /\ SettingsNext
     /\ UNCHANGED <<flagVars, phoneFlagVars>>

SwitchesTypeOK ==
  /\ subject = "FeatureFlags" => FlagsTypeOK
  /\ subject = "PhoneFlags" => PhoneFlagsTypeOK
  /\ subject = "SettingsPage" => SettingsTypeOK
=============================================================================
