---------------------------- MODULE SettingsPage ----------------------------
(***************************************************************************)
(* The settings, ui-react/src/pages/Settings.tsx, with the theme, which is *)
(* chosen there and stored by components/theme-provider.tsx, the cache of  *)
(* SWR both read, and PUT /settings of core/api.py, which stores whole     *)
(* settings.                                                               *)
(*                                                                         *)
(* Settings are the language, which stands for all that is stored at once, *)
(* the theme, the advanced settings, which wait for the save button, and   *)
(* autostart, which the desktop keeps.  Values are numbers of choices.     *)
(*                                                                         *)
(* SWR is external: its data changes only by value; mutate without         *)
(* revalidation makes a request under way worthless; a page that is opened *)
(* asks for the data again.  Left out: the migration of secrets, updates   *)
(* of the program, a page opened again within 2 s.                         *)
(***************************************************************************)
EXTENDS Naturals, FiniteSets

CONSTANTS
    MaxChoices,         \* bound: operations of the user
    MaxSettingsFaults   \* bound: calls that fail

ASSUME SettingsBounds == MaxChoices \in Nat /\ MaxSettingsFaults \in Nat

VARIABLES
    stored,         \* backend: the settings
    autostart,      \* desktop: whether the program is started at login
    swr,            \* SWR: the settings
    swrFetch,       \* SWR: the request that counts
    form,           \* page: settings
    autostartEnabled,   \* page: what is known of the desktop
    settingsCalls,  \* calls under way
    choices, faults,
    chosen,         \* history: the language and the theme chosen last
    mixed           \* history: a call was made while another was under way

settingsVars == <<stored, autostart, swr, swrFetch, form, autostartEnabled,
                  settingsCalls, choices, faults, chosen, mixed>>

Settings == [language : 0..MaxChoices, theme : 0..MaxChoices,
             advanced : 0..MaxChoices, autostart : BOOLEAN]
DefaultSettings == [language |-> 0, theme |-> 0, advanced |-> 0, autostart |-> FALSE]
NotAsked == [at |-> "none", answer |-> DefaultSettings]

\* The effect that follows a change of the cache or of autostartEnabled
Synced(cache, enabled) == [cache EXCEPT !.autostart = enabled]
Follow(cache, enabled, shown) ==
    IF cache # swr \/ enabled # autostartEnabled THEN Synced(cache, enabled) ELSE shown

\* A call, with the settings it stores; live tells that its page is open.
SettingsCall(op, at, body) == [op |-> op, at |-> at, body |-> body, live |-> TRUE]
ReadAutostart == SettingsCall("read", "sent", DefaultSettings)

SettingsInit ==
    /\ stored = DefaultSettings
    /\ autostart \in BOOLEAN
    /\ swr = stored
    /\ swrFetch = [at |-> "asked", answer |-> DefaultSettings]
    /\ form = Synced(swr, FALSE)
    /\ autostartEnabled = FALSE
    /\ settingsCalls = {ReadAutostart}
    /\ choices = 0 /\ faults = 0
    /\ chosen = [language |-> 0, theme |-> 0]
    /\ mixed = FALSE

Choice == choices < MaxChoices /\ choices' = choices + 1
Fault == faults < MaxSettingsFaults /\ faults' = faults + 1

Idle == settingsCalls = {} /\ swrFetch.at = "none"

Calls(call) ==
    /\ settingsCalls' = settingsCalls \cup {call}
    /\ mixed' = (mixed \/ ~Idle)

-----------------------------------------------------------------------------
(***************************************************************************)
(* The user.                                                               *)
(***************************************************************************)
\* The language, or the refresh interval: the form is stored, not the cache.
ChooseLanguage ==
    /\ Choice
    /\ form' = [form EXCEPT !.language = choices + 1]
    /\ chosen' = [chosen EXCEPT !.language = choices + 1]
    /\ Calls(SettingsCall("choose", "sent", form'))
    /\ UNCHANGED <<stored, autostart, swr, swrFetch, autostartEnabled, faults>>

\* setTheme of the provider: the settings of the cache are stored.
SetTheme ==
    /\ Choice
    /\ chosen' = [chosen EXCEPT !.theme = choices + 1]
    /\ Calls(SettingsCall("theme", "sent", [swr EXCEPT !.theme = choices + 1]))
    /\ UNCHANGED <<stored, autostart, swr, swrFetch, form, autostartEnabled, faults>>

EditAdvanced ==
    /\ Choice
    /\ form' = [form EXCEPT !.advanced = choices + 1]
    /\ UNCHANGED <<stored, autostart, swr, swrFetch, autostartEnabled, settingsCalls,
                   faults, chosen, mixed>>

\* The switch tells the desktop, then the backend.
SwitchAutostart ==
    /\ Choice
    /\ form' = [form EXCEPT !.autostart = ~@]
    /\ Calls(SettingsCall("autostart", "invoke", form'))
    /\ UNCHANGED <<stored, autostart, swr, swrFetch, autostartEnabled, faults, chosen>>

\* handleSave; the desktop is told what it is not known to have.
SaveSettings ==
    /\ \A c \in settingsCalls : ~(c.op = "save" /\ c.live)
    /\ Choice
    /\ Calls(SettingsCall("save",
          IF form.autostart # autostartEnabled THEN "invoke" ELSE "sent", form))
    /\ UNCHANGED <<stored, autostart, swr, swrFetch, form, autostartEnabled, faults, chosen>>

\* Mutant of OnMount: a cache that is there is good.
OnMount_Cached == NotAsked

\* useSettings: a page that is opened asks for the settings again.
OnMount == [at |-> "asked", answer |-> DefaultSettings]

\* The page is left and opened again.
LeaveSettings ==
    /\ Choice
    /\ autostartEnabled' = FALSE
    /\ form' = Synced(swr, FALSE)
    /\ swrFetch' = OnMount
    /\ settingsCalls' = {[c EXCEPT !.live = FALSE] : c \in settingsCalls} \cup {ReadAutostart}
    /\ mixed' = (mixed \/ ~Idle)
    /\ UNCHANGED <<stored, autostart, swr, faults, chosen>>

-----------------------------------------------------------------------------
(***************************************************************************)
(* The desktop, the backend, and the answers.                              *)
(***************************************************************************)
\* get_autostart
AutostartRead(c) ==
    /\ c \in settingsCalls /\ c.op = "read"
    /\ autostartEnabled' = IF c.live THEN autostart ELSE autostartEnabled
    /\ form' = Follow(swr, autostartEnabled', form)
    /\ settingsCalls' = settingsCalls \ {c}
    /\ UNCHANGED <<stored, autostart, swr, swrFetch, choices, faults, chosen, mixed>>

\* set_autostart; handleSave takes note of it, and goes on if it fails.
SetAutostart(c, works) ==
    LET next == [c EXCEPT !.at = "sent"] IN
    /\ c \in settingsCalls /\ c.at = "invoke"
    /\ IF works THEN faults' = faults ELSE Fault
    /\ autostart' = IF works THEN c.body.autostart ELSE autostart
    /\ autostartEnabled' = IF works /\ c.op = "save" /\ c.live
                           THEN c.body.autostart ELSE autostartEnabled
    /\ form' = Follow(swr, autostartEnabled', form)
    /\ settingsCalls' = (settingsCalls \ {c}) \cup (IF works \/ c.op = "save" THEN {next} ELSE {})
    /\ UNCHANGED <<stored, swr, swrFetch, choices, chosen, mixed>>

\* update_system_settings
UpdateSettings(c, works) ==
    /\ c \in settingsCalls /\ c.at = "sent" /\ c.op # "read"
    /\ IF works THEN faults' = faults ELSE Fault
    /\ stored' = IF works THEN c.body ELSE stored
    /\ settingsCalls' = (settingsCalls \ {c}) \cup {[c EXCEPT !.at = IF works THEN "ok" ELSE "failed"]}
    /\ UNCHANGED <<autostart, swr, swrFetch, form, autostartEnabled, choices, chosen, mixed>>

\* Only what the save button stored is put into the form and the cache.
SettingsAnswered(c) ==
    LET saved == c.op = "save" /\ c.at = "ok" IN
    /\ c \in settingsCalls /\ c.at \in {"ok", "failed"}
    /\ settingsCalls' = settingsCalls \ {c}
    /\ swr' = IF saved THEN c.body ELSE swr
    /\ swrFetch' = IF saved THEN NotAsked ELSE swrFetch
    /\ form' = Follow(swr', autostartEnabled,
                      IF saved /\ c.live THEN Synced(c.body, form.autostart) ELSE form)
    /\ UNCHANGED <<stored, autostart, autostartEnabled, choices, faults, chosen, mixed>>

\* get_system_settings, and its answer
GetSettings ==
    /\ swrFetch.at = "asked"
    /\ swrFetch' = [at |-> "answered", answer |-> stored]
    /\ UNCHANGED <<stored, autostart, swr, form, autostartEnabled, settingsCalls,
                   choices, faults, chosen, mixed>>

SettingsArrive ==
    /\ swrFetch.at = "answered"
    /\ swr' = swrFetch.answer
    /\ swrFetch' = NotAsked
    /\ form' = Follow(swr', autostartEnabled, form)
    /\ UNCHANGED <<stored, autostart, autostartEnabled, settingsCalls, choices, faults,
                   chosen, mixed>>

SettingsNext ==
    \/ ChooseLanguage \/ SetTheme \/ EditAdvanced \/ SwitchAutostart
    \/ SaveSettings \/ LeaveSettings
    \/ \E c \in settingsCalls :
          \/ AutostartRead(c) \/ SettingsAnswered(c)
          \/ \E works \in BOOLEAN : SetAutostart(c, works) \/ UpdateSettings(c, works)
    \/ GetSettings \/ SettingsArrive

SettingsSpec == SettingsInit /\ [][SettingsNext]_settingsVars

-----------------------------------------------------------------------------
SettingsTypeOK ==
    /\ {stored, swr, swrFetch.answer, form} \subseteq Settings
    /\ {autostart, autostartEnabled, mixed} \subseteq BOOLEAN
    /\ swrFetch.at \in {"none", "asked", "answered"}
    /\ \A c \in settingsCalls : c.body \in Settings

\* One call after the other, and none that fails
Orderly == Idle /\ ~mixed /\ faults = 0

\* As long as no theme is chosen: after calls made one after the other, what
\* the user chose is what the backend has and what the page shows, although
\* choices go past the cache the page is filled from when it is opened; the
\* same for autostart, kept by the form, the page and the desktop.
SettingsAgree ==
    Orderly /\ chosen.theme = 0 =>
        /\ chosen.language = stored.language
        /\ chosen.language = form.language
        /\ form.autostart = autostart

\* The language preference is backend-owned and persisted: a language that was
\* stored stays until another is chosen.
LanguagePersisted == Orderly => stored.language = chosen.language

=============================================================================
