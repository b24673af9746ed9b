---------------------------- MODULE Pages_proofs ----------------------------
(***************************************************************************)
(* Proofs about pages that show at once what the backend is still to       *)
(* store, the settings, the editor of integration files and the views, for *)
(* any number of files, views, edits and requests under way; about the     *)
(* layout of a view, for any number of widgets; about which view the       *)
(* swiper shows, for any number of views and events; and about the update  *)
(* of the application, for every set of mounts of the page.                *)
(***************************************************************************)
EXTENDS IntegrationsPage, SettingsPage, DashboardViews, DashboardLayout,
        DashboardTabs, AppUpdate, Recursion, FiniteSetTheorems, FunctionTheorems,
        SequenceTheorems, TLAPS

-----------------------------------------------------------------------------
(***************************************************************************)
(* The settings.  As long as every call is made when none is under way,    *)
(* the page is opened, which reads autostart and the settings, or one call *)
(* goes its way from the desktop to the backend.                           *)
(***************************************************************************)
Bodies == [op : {"read", "choose", "theme", "autostart", "save"},
           at : {"sent", "invoke", "ok", "failed"}, body : Settings, live : BOOLEAN]

SettingsTypes ==
    /\ stored \in Settings /\ swr \in Settings /\ form \in Settings
    /\ swrFetch \in [at : {"none", "asked", "answered"}, answer : Settings]
    /\ autostart \in BOOLEAN /\ autostartEnabled \in BOOLEAN /\ mixed \in BOOLEAN
    /\ settingsCalls \subseteq Bodies
    /\ choices \in 0..MaxChoices /\ faults \in Nat
    /\ chosen \in [language : 0..MaxChoices, theme : 0..MaxChoices]

\* What is read when the page is opened: the form is that of the cache, until the
\* answer is there, which is what the backend has.
Opening ==
    /\ settingsCalls \subseteq {ReadAutostart}
    /\ chosen.language = stored.language
    /\ swrFetch.at = "answered" => swrFetch.answer = stored
    /\ IF swrFetch.at = "none" THEN form.language = stored.language
                               ELSE form.language = swr.language
    /\ settingsCalls # {} =>
          /\ form.language = swr.language
          /\ form.autostart = FALSE /\ autostartEnabled = FALSE
    /\ settingsCalls = {} => form.autostart = autostart
    /\ settingsCalls = {} /\ swrFetch.at # "none" => autostartEnabled = autostart

\* What a call stores was chosen, and it is what the form shows, but for a save
\* that has told the desktop: the form waits for its answer.
Storing(c) ==
    /\ settingsCalls = {c} /\ swrFetch.at = "none"
    /\ c.live /\ c.op # "read" /\ c.at # "failed"
    /\ c.at = "invoke" => c.op \in {"autostart", "save"}
    /\ c.body.language = chosen.language
    /\ form.autostart = c.body.autostart
    /\ c.op # "save" \/ c.at = "invoke" => form.language = chosen.language
    /\ c.at # "invoke" =>
          /\ autostart = c.body.autostart
          /\ c.op = "save" => autostartEnabled = autostart
    /\ c.at = "ok" => stored.language = chosen.language

SettingsInv ==
    /\ SettingsTypes
    /\ ~mixed /\ faults = 0 /\ chosen.theme = 0 => Opening \/ \E c \in settingsCalls : Storing(c)

\* The effect takes language and theme of the cache and autostart of the desktop,
\* or leaves the form alone.
LEMMA FollowIs ==
    ASSUME NEW cache \in Settings, NEW enabled \in BOOLEAN, NEW shown \in Settings
    PROVE  /\ Synced(cache, enabled) \in Settings
           /\ Synced(cache, enabled).language = cache.language
           /\ Synced(cache, enabled).autostart = enabled
           /\ Follow(cache, enabled, shown) \in Settings
           /\ Follow(cache, enabled, shown) = shown
                 \/ Follow(cache, enabled, shown) = Synced(cache, enabled)
           /\ cache # swr \/ enabled # autostartEnabled
                 => Follow(cache, enabled, shown) = Synced(cache, enabled)
BY DEF Synced, Follow, Settings

LEMMA DefaultIs ==
    /\ DefaultSettings \in Settings /\ ReadAutostart \in Bodies
    /\ DefaultSettings.language = 0 /\ DefaultSettings.autostart = FALSE
BY SettingsBounds DEF DefaultSettings, Settings, ReadAutostart, SettingsCall, Bodies

LEMMA SettingsInitInv == SettingsInit => SettingsInv
<1> SUFFICES ASSUME SettingsInit
             PROVE  SettingsInv
    OBVIOUS
<1>1. stored = DefaultSettings /\ swr = DefaultSettings /\ autostart \in BOOLEAN
      /\ swrFetch = [at |-> "asked", answer |-> DefaultSettings]
      /\ autostartEnabled = FALSE /\ settingsCalls = {ReadAutostart}
      /\ choices = 0 /\ faults = 0 /\ mixed = FALSE
      /\ chosen = [language |-> 0, theme |-> 0]
    BY DEF SettingsInit
<1>2. form = Synced(DefaultSettings, FALSE) /\ FALSE \in BOOLEAN
    BY DEF SettingsInit
<1>3. /\ form \in Settings /\ form.autostart = FALSE
      /\ form.language = DefaultSettings.language
    BY <1>2, DefaultIs, FollowIs
<1>4. SettingsTypes
    <2>1. swrFetch \in [at : {"none", "asked", "answered"}, answer : Settings]
        BY <1>1, DefaultIs
    <2>2. stored \in Settings /\ swr \in Settings /\ settingsCalls \subseteq Bodies
        BY <1>1, DefaultIs
    <2>3. chosen \in [language : 0..MaxChoices, theme : 0..MaxChoices]
        BY <1>1, SettingsBounds
    <2>4. QED
        BY <1>1, <1>3, <2>1, <2>2, <2>3, SettingsBounds DEF SettingsTypes
<1>5. Opening
    BY <1>1, <1>3, DefaultIs DEF Opening
<1>6. QED
    BY <1>4, <1>5 DEF SettingsInv

\* Settings, calls and numbers keep their types.
LEMMA SettingsTypesNext == SettingsTypes /\ [SettingsNext]_settingsVars => SettingsTypes'
<1> SUFFICES ASSUME SettingsTypes, [SettingsNext]_settingsVars
             PROVE  SettingsTypes'
    OBVIOUS
<1> USE SettingsBounds
<1>0. /\ stored \in Settings /\ swr \in Settings /\ form \in Settings
      /\ swrFetch \in [at : {"none", "asked", "answered"}, answer : Settings]
      /\ settingsCalls \subseteq Bodies
      /\ autostart \in BOOLEAN /\ autostartEnabled \in BOOLEAN /\ mixed \in BOOLEAN
      /\ choices \in 0..MaxChoices /\ faults \in Nat
    BY DEF SettingsTypes
<1>1. Choice => choices' \in 0..MaxChoices /\ choices + 1 \in 0..MaxChoices
    BY <1>0 DEF Choice
<1>2. Fault => faults' \in Nat
    BY <1>0 DEF Fault
<1>3. ASSUME NEW op \in {"choose", "theme", "autostart", "save"}, NEW at \in {"sent", "invoke"},
             NEW body \in Settings, Calls(SettingsCall(op, at, body))
      PROVE  settingsCalls' \subseteq Bodies /\ mixed' \in BOOLEAN
    <2>1. SettingsCall(op, at, body) \in Bodies
        BY DEF SettingsCall, Bodies
    <2>2. QED
        BY <1>0, <1>3, <2>1 DEF Calls
<1>4. \A c \in settingsCalls : c \in Bodies /\ c.body \in Settings
    BY <1>0 DEF Bodies
<1>5. CASE ChooseLanguage
    <2>1. form' \in Settings
        BY <1>0, <1>1, <1>5 DEF ChooseLanguage, Settings
    <2>2. settingsCalls' \subseteq Bodies /\ mixed' \in BOOLEAN
        BY <1>3, <1>5, <2>1 DEF ChooseLanguage
    <2>3. QED
        BY <1>0, <1>1, <1>5, <2>1, <2>2 DEF ChooseLanguage, SettingsTypes
<1>6. CASE SetTheme
    <2>1. [swr EXCEPT !.theme = choices + 1] \in Settings
        BY <1>0, <1>1, <1>6 DEF SetTheme, Settings
    <2>2. settingsCalls' \subseteq Bodies /\ mixed' \in BOOLEAN
        BY <1>3, <1>6, <2>1 DEF SetTheme
    <2>3. QED
        BY <1>0, <1>1, <1>6, <2>2 DEF SetTheme, SettingsTypes
<1>7. CASE EditAdvanced
    <2>1. form' \in Settings
        BY <1>0, <1>1, <1>7 DEF EditAdvanced, Settings
    <2>2. QED
        BY <1>0, <1>1, <1>7, <2>1 DEF EditAdvanced, SettingsTypes
<1>8. CASE SwitchAutostart
    <2>1. form' \in Settings
        BY <1>0, <1>8 DEF SwitchAutostart, Settings
    <2>2. settingsCalls' \subseteq Bodies /\ mixed' \in BOOLEAN
        BY <1>3, <1>8, <2>1 DEF SwitchAutostart
    <2>3. QED
        BY <1>0, <1>1, <1>8, <2>1, <2>2 DEF SwitchAutostart, SettingsTypes
<1>9. CASE SaveSettings
    <2>1. settingsCalls' \subseteq Bodies /\ mixed' \in BOOLEAN
        BY <1>0, <1>3, <1>9 DEF SaveSettings
    <2>2. QED
        BY <1>0, <1>1, <1>9, <2>1 DEF SaveSettings, SettingsTypes
<1>10. CASE LeaveSettings
    <2>1. form' = Synced(swr, FALSE) /\ FALSE \in BOOLEAN
        BY <1>10 DEF LeaveSettings
    <2>2. form' \in Settings
        BY <1>0, <2>1, FollowIs
    <2>3. \A c \in settingsCalls : [c EXCEPT !.live = FALSE] \in Bodies
        BY <1>0 DEF Bodies
    <2>4. settingsCalls' \subseteq Bodies /\ mixed' \in BOOLEAN
        BY <1>0, <1>10, <2>3, DefaultIs DEF LeaveSettings
    <2>5. swrFetch' \in [at : {"none", "asked", "answered"}, answer : Settings]
        BY <1>10, DefaultIs DEF LeaveSettings, OnMount
    <2>6. QED
        BY <1>0, <1>1, <1>10, <2>2, <2>4, <2>5 DEF LeaveSettings, SettingsTypes
<1>11. ASSUME NEW c \in settingsCalls, AutostartRead(c)
       PROVE  SettingsTypes'
    <2>1. autostartEnabled' \in BOOLEAN
        BY <1>0, <1>11 DEF AutostartRead
    <2>2. form' \in Settings
        BY <1>0, <1>11, <2>1, FollowIs DEF AutostartRead
    <2>3. QED
        BY <1>0, <1>11, <2>1, <2>2 DEF AutostartRead, SettingsTypes
<1>12. ASSUME NEW c \in settingsCalls, SettingsAnswered(c)
       PROVE  SettingsTypes'
    <2>1. swr' \in Settings /\ swrFetch' \in {NotAsked, swrFetch}
        BY <1>0, <1>4, <1>12 DEF SettingsAnswered
    <2>2. Synced(c.body, form.autostart) \in Settings
        BY <1>0, <1>4 DEF Synced, Settings
    <2>3. form' \in Settings
        BY <1>0, <1>12, <2>1, <2>2, FollowIs DEF SettingsAnswered
    <2>4. DefaultSettings \in Settings
        BY DEF DefaultSettings, Settings
    <2>5. QED
        BY <1>0, <1>12, <2>1, <2>3, <2>4 DEF SettingsAnswered, NotAsked, SettingsTypes
<1>13. ASSUME NEW c \in settingsCalls, NEW works \in BOOLEAN, SetAutostart(c, works)
       PROVE  SettingsTypes'
    <2>1. autostart' \in BOOLEAN /\ autostartEnabled' \in BOOLEAN
        BY <1>0, <1>4, <1>13 DEF SetAutostart, Settings
    <2>2. form' \in Settings
        BY <1>0, <1>13, <2>1, FollowIs DEF SetAutostart
    <2>3. [c EXCEPT !.at = "sent"] \in Bodies
        BY <1>4 DEF Bodies
    <2>4. QED
        BY <1>0, <1>2, <1>13, <2>1, <2>2, <2>3 DEF SetAutostart, SettingsTypes
<1>14. ASSUME NEW c \in settingsCalls, NEW works \in BOOLEAN, UpdateSettings(c, works)
       PROVE  SettingsTypes'
    <2>1. [c EXCEPT !.at = IF works THEN "ok" ELSE "failed"] \in Bodies
        BY <1>4 DEF Bodies
    <2>2. stored' \in Settings
        BY <1>0, <1>4, <1>14 DEF UpdateSettings
    <2>3. QED
        BY <1>0, <1>2, <1>14, <2>1, <2>2 DEF UpdateSettings, SettingsTypes
<1>15. CASE GetSettings
    BY <1>0, <1>15 DEF GetSettings, SettingsTypes
<1>16. CASE SettingsArrive
    <2>1. swr' \in Settings /\ DefaultSettings \in Settings
        BY <1>0, <1>16 DEF SettingsArrive, DefaultSettings, Settings
    <2>2. form' \in Settings
        BY <1>0, <1>16, <2>1, FollowIs DEF SettingsArrive
    <2>3. QED
        BY <1>0, <1>16, <2>1, <2>2 DEF SettingsArrive, NotAsked, SettingsTypes
<1>17. CASE UNCHANGED settingsVars
    BY <1>17 DEF settingsVars, SettingsTypes
<1>18. QED
    BY <1>5, <1>6, <1>7, <1>8, <1>9, <1>10, <1>11, <1>12, <1>13, <1>14, <1>15, <1>16, <1>17
       DEF SettingsNext

\* A call that is made when none is under way is made on an open page whose form
\* shows what is stored.
LEMMA MadeAlone ==
    ASSUME SettingsInv, ~mixed, faults = 0, chosen.theme = 0, NEW call,
           Calls(call), ~mixed'
    PROVE  /\ settingsCalls' = {call} /\ swrFetch.at = "none"
           /\ form.language = chosen.language /\ form.autostart = autostart
<1>1. settingsCalls = {} /\ swrFetch.at = "none" /\ settingsCalls' = {call}
    BY DEF Calls, Idle
<1>2. Opening
    BY <1>1 DEF SettingsInv
<1>3. QED
    BY <1>1, <1>2 DEF Opening

LEMMA SettingsNextInv == SettingsInv /\ [SettingsNext]_settingsVars => SettingsInv'
<1> SUFFICES ASSUME SettingsInv, [SettingsNext]_settingsVars,
                    ~mixed', faults' = 0, chosen'.theme = 0
             PROVE  Opening' \/ \E c \in settingsCalls' : Storing(c)'
    BY SettingsTypesNext DEF SettingsInv
<1>0. /\ stored \in Settings /\ swr \in Settings /\ form \in Settings
      /\ swrFetch \in [at : {"none", "asked", "answered"}, answer : Settings]
      /\ settingsCalls \subseteq Bodies
      /\ autostart \in BOOLEAN /\ autostartEnabled \in BOOLEAN /\ mixed \in BOOLEAN
      /\ choices \in 0..MaxChoices /\ faults \in Nat
      /\ chosen \in [language : 0..MaxChoices, theme : 0..MaxChoices]
    BY DEF SettingsInv, SettingsTypes
\* Nothing that is excluded has happened, and it does not happen now.
<1>1. /\ ~Fault /\ faults = 0
      /\ ~SetTheme /\ chosen.theme = 0
      /\ ~mixed
    <2>1. ~Fault
        BY <1>0 DEF Fault
    <2>2. faults = 0
        BY <2>1 DEF SettingsNext, settingsVars, ChooseLanguage, SetTheme, EditAdvanced,
           SwitchAutostart, SaveSettings, LeaveSettings, AutostartRead, SettingsAnswered,
           SetAutostart, UpdateSettings, GetSettings, SettingsArrive
    <2>3. ~SetTheme
        BY <1>0, SettingsBounds DEF SetTheme
    <2>4. chosen.theme = 0
        BY <1>0, <2>3 DEF SettingsNext, settingsVars, ChooseLanguage, EditAdvanced,
           SwitchAutostart, SaveSettings, LeaveSettings, AutostartRead, SettingsAnswered,
           SetAutostart, UpdateSettings, GetSettings, SettingsArrive
    <2>5. ~mixed
        BY <2>3 DEF SettingsNext, settingsVars, ChooseLanguage, EditAdvanced, Calls,
           SwitchAutostart, SaveSettings, LeaveSettings, AutostartRead, SettingsAnswered,
           SetAutostart, UpdateSettings, GetSettings, SettingsArrive
    <2>6. QED
        BY <2>1, <2>2, <2>3, <2>4, <2>5
<1>2. Opening \/ \E c \in settingsCalls : Storing(c)
    BY <1>1 DEF SettingsInv
\* Which of the two it is
<1>3. ASSUME NEW c \in settingsCalls, c # ReadAutostart
      PROVE  Storing(c)
    BY <1>2, <1>3 DEF Opening, Storing
<1>4. ASSUME swrFetch.at # "none" \/ ReadAutostart \in settingsCalls
      PROVE  Opening
    BY <1>2, <1>4 DEF Storing, ReadAutostart, SettingsCall
<1>5. \A op, at, body :
        LET call == SettingsCall(op, at, body)
        IN  call.op = op /\ call.at = at /\ call.body = body /\ call.live = TRUE
    BY DEF SettingsCall
<1>6. CASE ChooseLanguage
    <2>0. PICK call : call = SettingsCall("choose", "sent", form')
        OBVIOUS
    <2>1. /\ settingsCalls' = {call} /\ swrFetch' = swrFetch /\ swrFetch.at = "none"
          /\ form.autostart = autostart /\ autostart' = autostart
        BY <1>1, <1>6, <2>0, MadeAlone DEF ChooseLanguage
    <2>2. /\ form'.language = choices + 1 /\ form'.autostart = form.autostart
          /\ chosen'.language = choices + 1
        BY <1>0, <1>6 DEF ChooseLanguage, Settings
    <2>3. call.op = "choose" /\ call.at = "sent" /\ call.body = form' /\ call.live = TRUE
        BY <1>5, <2>0
    <2>4. Storing(call)'
        BY <2>1, <2>2, <2>3 DEF Storing
    <2>5. QED
        BY <2>1, <2>4
<1>7. CASE EditAdvanced
    <2>1. /\ form'.language = form.language /\ form'.autostart = form.autostart
          /\ UNCHANGED <<stored, autostart, swr, swrFetch, autostartEnabled,
                         settingsCalls, chosen>>
        BY <1>0, <1>7 DEF EditAdvanced, Settings
    <2>2. Opening => Opening'
        BY <2>1 DEF Opening
    <2>3. \A c \in settingsCalls : Storing(c) => Storing(c)'
        BY <2>1 DEF Storing
    <2>4. QED
        BY <1>2, <2>1, <2>2, <2>3
<1>8. CASE SwitchAutostart
    <2>0. PICK call : call = SettingsCall("autostart", "invoke", form')
        OBVIOUS
    <2>1. /\ settingsCalls' = {call} /\ swrFetch' = swrFetch /\ swrFetch.at = "none"
          /\ form.language = chosen.language /\ chosen' = chosen
        BY <1>1, <1>8, <2>0, MadeAlone DEF SwitchAutostart
    <2>2. form'.language = form.language
        BY <1>0, <1>8 DEF SwitchAutostart, Settings
    <2>3. call.op = "autostart" /\ call.at = "invoke" /\ call.body = form' /\ call.live = TRUE
        BY <1>5, <2>0
    <2>4. Storing(call)'
        BY <2>1, <2>2, <2>3 DEF Storing
    <2>5. QED
        BY <2>1, <2>4
<1>9. CASE SaveSettings
    <2>0. PICK at, call : /\ at = IF form.autostart # autostartEnabled THEN "invoke" ELSE "sent"
                          /\ call = SettingsCall("save", at, form)
        OBVIOUS
    <2>1. /\ settingsCalls' = {call} /\ swrFetch.at = "none"
          /\ form.language = chosen.language /\ form.autostart = autostart
          /\ UNCHANGED <<stored, autostart, swr, swrFetch, form, autostartEnabled, chosen>>
        BY <1>1, <1>9, <2>0, MadeAlone DEF SaveSettings
    <2>2. call.op = "save" /\ call.at = at /\ call.body = form /\ call.live = TRUE
        BY <1>5, <2>0
    <2>3. Storing(call)'
        BY <2>0, <2>1, <2>2 DEF Storing
    <2>4. QED
        BY <2>1, <2>3
<1>10. CASE LeaveSettings
    <2>1. settingsCalls = {} /\ swrFetch.at = "none"
        BY <1>1, <1>10 DEF LeaveSettings, Idle
    <2>2. Opening
        BY <1>2, <2>1
    <2>3. /\ settingsCalls' = {ReadAutostart} /\ swrFetch'.at = "asked"
          /\ stored' = stored /\ swr' = swr /\ chosen' = chosen
          /\ autostartEnabled' = FALSE
        BY <1>10, <2>1 DEF LeaveSettings, OnMount
    <2>4. form'.language = swr.language /\ form'.autostart = FALSE
        <3>1. form' = Synced(swr, FALSE) /\ FALSE \in BOOLEAN
            BY <1>10 DEF LeaveSettings
        <3>2. QED
            BY <1>0, <3>1, FollowIs
    <2>5. Opening'
        BY <2>2, <2>3, <2>4 DEF Opening
    <2>6. QED
        BY <2>5
<1>11. ASSUME NEW c \in settingsCalls, AutostartRead(c)
       PROVE  Opening'
    <2>1. c = ReadAutostart /\ Opening /\ settingsCalls' = {}
        BY <1>3, <1>4, <1>11 DEF AutostartRead, Storing, Opening
    <2>2. /\ autostartEnabled' = autostart /\ form' = Follow(swr, autostart, form)
          /\ UNCHANGED <<stored, autostart, swr, swrFetch, chosen>>
        BY <1>11, <2>1 DEF AutostartRead, ReadAutostart, SettingsCall
    <2>3. form'.language = swr.language /\ form'.autostart = autostart
        <3>1. form.language = swr.language /\ form.autostart = autostartEnabled
            BY <2>1, <1>11 DEF Opening
        <3>2. QED
            BY <1>0, <2>2, <3>1, FollowIs
    <2>4. QED
        BY <1>11, <2>1, <2>2, <2>3 DEF Opening
<1>12. ASSUME NEW c \in settingsCalls, SettingsAnswered(c)
       PROVE  Opening'
    <2>1. c.at = "ok" /\ Storing(c) /\ settingsCalls' = {}
        BY <1>3, <1>12 DEF SettingsAnswered, Storing, ReadAutostart, SettingsCall
    <2>2. /\ chosen.language = stored.language /\ autostart = c.body.autostart
          /\ form.autostart = c.body.autostart
          /\ UNCHANGED <<stored, autostart, autostartEnabled, chosen>>
          /\ swrFetch'.at = "none"
        BY <1>12, <2>1 DEF SettingsAnswered, Storing, NotAsked
    <2>3. c.body \in Settings /\ form.autostart \in BOOLEAN
        BY <1>0 DEF Bodies, Settings
    <2>4. CASE c.op # "save"
        <3>1. form' = Follow(swr, autostartEnabled, form) /\ swr' = swr
            BY <1>12, <2>4 DEF SettingsAnswered
        <3>2. form' = form
            BY <3>1 DEF Follow
        <3>3. QED
            BY <2>1, <2>2, <2>4, <3>2 DEF Opening, Storing
    <2>5. CASE c.op = "save"
        <3> DEFINE put == Synced(c.body, form.autostart)
        <3>1. form' = Follow(c.body, autostartEnabled, put) /\ autostartEnabled = autostart
            BY <1>12, <2>1, <2>5 DEF SettingsAnswered, Storing
        <3>2. put \in Settings /\ put.language = c.body.language /\ put.autostart = form.autostart
            BY <2>3, FollowIs
        <3>3. form' = put \/ form' = Synced(c.body, autostartEnabled)
            BY <1>0, <2>3, <3>1, <3>2, FollowIs
        <3>4. form'.language = c.body.language /\ form'.autostart = autostart
            BY <1>0, <2>2, <2>3, <3>1, <3>2, <3>3, FollowIs
        <3>5. QED
            BY <2>1, <2>2, <3>4 DEF Opening, Storing
    <2>6. QED
        BY <2>4, <2>5
<1>13. ASSUME NEW c \in settingsCalls, NEW works \in BOOLEAN, SetAutostart(c, works)
       PROVE  \E d \in settingsCalls' : Storing(d)'
    <2> DEFINE next == [c EXCEPT !.at = "sent"]
    <2>1. works /\ Storing(c) /\ c.at = "invoke"
        BY <1>1, <1>3, <1>13 DEF SetAutostart, ReadAutostart, SettingsCall
    <2>2. c \in Bodies /\ c.body \in Settings /\ c.body.autostart \in BOOLEAN
        BY <1>0 DEF Bodies, Settings
    <2>3. /\ next.op = c.op /\ next.at = "sent" /\ next.body = c.body /\ next.live = c.live
        BY <2>2 DEF Bodies
    <2>4. /\ settingsCalls' = {next} /\ swrFetch' = swrFetch /\ chosen' = chosen
          /\ autostart' = c.body.autostart
          /\ autostartEnabled' = IF c.op = "save" THEN c.body.autostart ELSE autostartEnabled
          /\ form' = Follow(swr, autostartEnabled', form)
        BY <1>13, <2>1 DEF SetAutostart, Storing
    <2>5. \/ form' = form
          \/ c.op = "save" /\ form' = Synced(swr, c.body.autostart)
        <3>1. CASE c.op = "save"
            <4>1. form' = Follow(swr, c.body.autostart, form)
                BY <2>4, <3>1
            <4>2. QED
                BY <1>0, <2>2, <3>1, <4>1, FollowIs
        <3>2. CASE c.op # "save"
            <4>1. form' = Follow(swr, autostartEnabled, form)
                BY <2>4, <3>2
            <4>2. QED
                BY <4>1 DEF Follow
        <3>3. QED
            BY <3>1, <3>2
    <2>6. form'.autostart = c.body.autostart /\ (c.op # "save" => form' = form)
        BY <1>0, <2>1, <2>2, <2>5, FollowIs DEF Storing
    <2>7. Storing(next)'
        BY <2>1, <2>3, <2>4, <2>6 DEF Storing
    <2>8. QED
        BY <2>4, <2>7
<1>14. ASSUME NEW c \in settingsCalls, NEW works \in BOOLEAN, UpdateSettings(c, works)
       PROVE  \E d \in settingsCalls' : Storing(d)'
    <2> DEFINE next == [c EXCEPT !.at = "ok"]
    <2>1. works /\ Storing(c) /\ c.at = "sent"
        BY <1>1, <1>3, <1>14 DEF UpdateSettings, ReadAutostart, SettingsCall
    <2>2. c \in Bodies
        BY <1>0
    <2>3. /\ next.op = c.op /\ next.at = "ok" /\ next.body = c.body /\ next.live = c.live
        BY <2>2 DEF Bodies
    <2>4. /\ settingsCalls' = {next} /\ stored' = c.body
          /\ UNCHANGED <<autostart, swrFetch, form, autostartEnabled, chosen>>
        BY <1>14, <2>1 DEF UpdateSettings, Storing
    <2>5. Storing(next)'
        BY <2>1, <2>3, <2>4 DEF Storing
    <2>6. QED
        BY <2>4, <2>5
<1>15. CASE GetSettings
    <2>1. Opening
        BY <1>4, <1>15 DEF GetSettings
    <2>2. /\ swrFetch.at = "asked" /\ swrFetch'.at = "answered" /\ swrFetch'.answer = stored
          /\ UNCHANGED <<stored, autostart, swr, form, autostartEnabled, settingsCalls, chosen>>
        BY <1>15 DEF GetSettings
    <2>3. QED
        BY <2>1, <2>2 DEF Opening
<1>16. CASE SettingsArrive
    <2>1. Opening /\ swrFetch.answer = stored
        BY <1>4, <1>16 DEF SettingsArrive, Opening
    <2>2. /\ swr' = stored /\ swrFetch'.at = "none"
          /\ form' = Follow(stored, autostartEnabled, form)
          /\ UNCHANGED <<stored, autostart, autostartEnabled, settingsCalls, chosen>>
        BY <1>16, <2>1 DEF SettingsArrive, NotAsked
    <2>3. form.language = swr.language /\ form.autostart = autostartEnabled
        BY <1>16, <2>1 DEF Opening, SettingsArrive
    <2>4. form'.language = stored.language /\ form'.autostart = autostartEnabled
        BY <1>0, <2>2, <2>3, FollowIs DEF Follow
    <2>5. QED
        BY <1>16, <2>1, <2>2, <2>4 DEF Opening, SettingsArrive
<1>17. CASE UNCHANGED settingsVars
    BY <1>2, <1>17 DEF settingsVars, Opening, Storing
<1>18. QED
    BY <1>1, <1>6, <1>7, <1>8, <1>9, <1>10, <1>11, <1>12, <1>13, <1>14, <1>15, <1>16, <1>17
       DEF SettingsNext

\* Every reachable state of the settings is one of opening the page or of one call
\* under way.
THEOREM SettingsInvariant == SettingsSpec => []SettingsInv
BY SettingsInitInv, SettingsNextInv, PTL DEF SettingsSpec

LEMMA SettingsInvTyped == SettingsInv => SettingsTypeOK
BY DEF SettingsInv, SettingsTypes, SettingsTypeOK, Bodies

LEMMA SettingsInvAgrees == SettingsInv => SettingsAgree
BY DEF SettingsInv, SettingsAgree, Orderly, Idle, Opening, Storing

\* Once the calls are answered, made one after the other and none failed, page,
\* backend and desktop agree on the language and on autostart, although choices go
\* past the cache that fills the form when the page is opened.
THEOREM SettingsOnOneStory == SettingsSpec => []SettingsAgree
BY SettingsInvAgrees, SettingsInvariant, PTL

-----------------------------------------------------------------------------
(***************************************************************************)
(* The editor of integration files.                                        *)
(***************************************************************************)
PageOps == {"load", "save", "reloadFile", "create", "delete"}
PageCalls == [op : PageOps, file : Files, text : Texts,
              at : {"sent", "ok", "failed", "reloading", "reloaded", "notReloaded"},
              live : BOOLEAN, selected : BOOLEAN]

PageTypes ==
    /\ files \in [Files -> Texts \cup {NotThere}]
    /\ selectedFile \in Files \cup {NoFile}
    /\ content \in Texts /\ originalContent \in Texts
    /\ blocked \subseteq Files
    /\ saving \in BOOLEAN /\ initialLoaded \in BOOLEAN
    /\ overlapped \in BOOLEAN /\ outlived \in BOOLEAN
    /\ pageCalls \subseteq PageCalls
    /\ pageEvents \in 0..MaxPageEvents

\* No text has an edit that is still to come.
EditsWere ==
    /\ \A t \in {content, originalContent} : t.edit <= pageEvents
    /\ \A f \in Files : files[f] # NotThere => files[f].edit <= pageEvents
    /\ \A c \in pageCalls : c.text.edit <= pageEvents

\* The texts of a file, in the backend, in the editor or under way
Holds(f, t) ==
    \/ files[f] = t
    \/ selectedFile = f /\ content = t
    \/ \E c \in pageCalls : c.file = f /\ c.text = t

\* A text is of its file; one that was typed before a file was loaded has the
\* name of none, and is of one file all the same.
TextsOfFile ==
    /\ \A f \in Files, t \in Texts : Holds(f, t) => t.of \in {f, NoFile}
    /\ \A f, g \in Files, t \in Texts :
          Holds(f, t) /\ Holds(g, t) /\ t # Blank => f = g

\* One request at a time is about a file, and its answer is what is stored.
OneAboutFile ==
    \A c, d \in pageCalls : c.file = d.file /\ AboutFile(c) /\ AboutFile(d) => c = d
AnswerIsStored ==
    \A c \in pageCalls :
        c.op \in {"load", "reloadFile", "save"} /\ c.at = "ok" => files[c.file] = c.text

\* A file that is being deleted is not opened meanwhile, a text that is being
\* saved is not the one that was loaded.
DeletionKnows ==
    \A c \in pageCalls :
        c.op = "delete" /\ AboutFile(c) /\ c.file = selectedFile => c.selected
SavingIsDirty ==
    \A c \in pageCalls :
        c.op = "save" /\ AboutFile(c) /\ c.file = selectedFile /\ content # Blank => Dirty

\* Only a file that has just been deleted is not stored as it is shown.
ShownIsStored ==
    selectedFile # NoFile /\ content # Blank /\ ~Dirty =>
        \/ files[selectedFile] = content
        \/ \E c \in pageCalls : c.op = "delete" /\ c.at = "ok" /\ c.file = selectedFile

FilesKept ==
    /\ TextsOfFile
    /\ OneAboutFile /\ AnswerIsStored
    /\ DeletionKnows /\ SavingIsDirty
    /\ ShownIsStored

\* A request of a page that was left is a save, or it outlived the page.
LeftIsSave == \A c \in pageCalls : ~c.live /\ c.op # "save" => outlived

EditorInv ==
    /\ PageTypes /\ EditsWere /\ LeftIsSave
    /\ ~overlapped /\ ~outlived => FilesKept

LEMMA TextsThere ==
    /\ Blank \in Texts /\ Blank.edit = 0 /\ Blank.of = NoFile
    /\ NotThere \notin Texts
    /\ \A f \in Files : [of |-> f, edit |-> 0] \in Texts
BY PageBounds DEF Texts, Blank, NotThere

LEMMA EditorInitInv == PageInit => EditorInv
<1> SUFFICES ASSUME PageInit
             PROVE  EditorInv
    OBVIOUS
<1>1. PICK there \in FirstFiles :
          files = [f \in Files |-> IF f \in there THEN [of |-> f, edit |-> 0] ELSE NotThere]
    BY DEF PageInit
<1>2. /\ selectedFile \in Files \cup {NoFile}
      /\ content = Blank /\ originalContent = Blank
      /\ saving = FALSE /\ blocked = {} /\ initialLoaded = FALSE
      /\ pageCalls = {} /\ pageEvents = 0 /\ overlapped = FALSE /\ outlived = FALSE
    BY DEF PageInit
<1>3. PageTypes
    <2>1. files \in [Files -> Texts \cup {NotThere}]
        BY <1>1, TextsThere
    <2>2. content \in Texts /\ originalContent \in Texts
        BY <1>2, TextsThere
    <2>3. pageCalls \subseteq PageCalls /\ blocked \subseteq Files
        BY <1>2
    <2>4. pageEvents \in 0..MaxPageEvents
        BY <1>2, PageBounds
    <2>5. QED
        BY <1>2, <2>1, <2>2, <2>3, <2>4 DEF PageTypes
<1>4. EditsWere /\ LeftIsSave
    BY <1>1, <1>2, TextsThere DEF EditsWere, LeftIsSave
<1>5. \A f \in Files, t \in Texts : Holds(f, t) => t = Blank \/ t = [of |-> f, edit |-> 0]
    BY <1>1, <1>2, TextsThere DEF Holds
<1>6. TextsOfFile
    BY <1>5, TextsThere DEF TextsOfFile
<1>7. FilesKept
    BY <1>2, <1>6 DEF FilesKept, OneAboutFile, AnswerIsStored, DeletionKnows, SavingIsDirty,
       ShownIsStored
<1>8. QED
    BY <1>3, <1>4, <1>7 DEF EditorInv

-----------------------------------------------------------------------------
(***************************************************************************)
(* Types, edits, and requests of pages that were left.                     *)
(***************************************************************************)
PageBasics == PageTypes /\ EditsWere /\ LeftIsSave

\* A request that was one before, or is about a text that was there, with the
\* variables it leaves alone
LEMMA BasicsKept ==
    ASSUME PageBasics,
           files' \in [Files -> Texts \cup {NotThere}],
           selectedFile' \in Files \cup {NoFile},
           content' \in Texts, originalContent' \in Texts, blocked' \subseteq Files,
           saving' \in BOOLEAN, initialLoaded' \in BOOLEAN,
           overlapped' \in BOOLEAN, outlived' \in BOOLEAN,
           pageEvents' \in 0..MaxPageEvents, pageEvents <= pageEvents',
           content'.edit <= pageEvents', originalContent'.edit <= pageEvents',
           \A f \in Files : files'[f] = files[f] \/ files'[f] = NotThere
                               \/ files'[f].edit <= pageEvents',
           \A c \in pageCalls' :
              \/ c \in pageCalls /\ (outlived => outlived')
              \/ /\ c \in PageCalls /\ c.text.edit <= pageEvents'
                 /\ ~c.live /\ c.op # "save" => outlived'
    PROVE  PageBasics'
<1> USE PageBounds
<1>1. PageTypes'
    BY DEF PageBasics, PageTypes
<1>2. EditsWere'
    <2>1. pageEvents \in Nat /\ pageEvents' \in Nat
        BY DEF PageBasics, PageTypes
    <2>2. ASSUME NEW c \in pageCalls'
          PROVE  c.text.edit <= pageEvents'
        <3>1. c \in pageCalls => c.text.edit \in Nat /\ c.text.edit <= pageEvents
            BY DEF PageBasics, PageTypes, PageCalls, Texts, EditsWere
        <3>2. QED
            BY <2>1, <3>1
    <2>3. ASSUME NEW f \in Files, files'[f] # NotThere
          PROVE  files'[f].edit <= pageEvents'
        <3>1. files[f] # NotThere => files[f].edit \in Nat /\ files[f].edit <= pageEvents
            BY DEF PageBasics, PageTypes, Texts, EditsWere
        <3>2. QED
            BY <2>1, <2>3, <3>1
    <2>4. QED
        BY <2>2, <2>3 DEF EditsWere
<1>3. LeftIsSave'
    BY DEF PageBasics, LeftIsSave
<1>4. QED
    BY <1>1, <1>2, <1>3 DEF PageBasics

LEMMA PageBasicsNext == PageBasics /\ [PageNext]_pageVars => PageBasics'
<1> SUFFICES ASSUME PageBasics, [PageNext]_pageVars
             PROVE  PageBasics'
    OBVIOUS
<1> USE PageBounds
<1>0. /\ files \in [Files -> Texts \cup {NotThere}]
      /\ selectedFile \in Files \cup {NoFile}
      /\ content \in Texts /\ originalContent \in Texts /\ blocked \subseteq Files
      /\ saving \in BOOLEAN /\ initialLoaded \in BOOLEAN
      /\ overlapped \in BOOLEAN /\ outlived \in BOOLEAN
      /\ pageEvents \in 0..MaxPageEvents
      /\ content.edit <= pageEvents /\ originalContent.edit <= pageEvents
    BY DEF PageBasics, PageTypes, EditsWere
<1>1. ASSUME NEW c \in pageCalls
      PROVE  /\ c \in PageCalls /\ c.text.edit <= pageEvents
             /\ ~c.live /\ c.op # "save" => outlived
    BY DEF PageBasics, PageTypes, EditsWere, LeftIsSave
<1>2. PageEvent => pageEvents' = pageEvents + 1 /\ pageEvents' \in 0..MaxPageEvents
    BY <1>0 DEF PageEvent
\* A request that is sent
<1>3. ASSUME NEW op \in PageOps, NEW f \in Files, NEW text \in Texts, text.edit <= pageEvents,
             Sends(PageCall(op, f, text), pageCalls),
             UNCHANGED <<files, selectedFile, content, originalContent, blocked, outlived>>,
             saving' \in BOOLEAN, initialLoaded' \in BOOLEAN, PageEvent \/ UNCHANGED pageEvents
      PROVE  PageBasics'
    <2>1. pageCalls' = pageCalls \cup {PageCall(op, f, text)} /\ overlapped' \in BOOLEAN
        BY <1>0, <1>3 DEF Sends
    <2>2. pageEvents' \in 0..MaxPageEvents /\ pageEvents <= pageEvents'
        BY <1>0, <1>2, <1>3
    <2>3. /\ PageCall(op, f, text) \in PageCalls /\ PageCall(op, f, text).text = text
          /\ PageCall(op, f, text).live = TRUE
        BY <1>3 DEF PageCall, PageCalls
    <2>4. text.edit <= pageEvents'
        BY <1>0, <1>3, <2>2 DEF Texts
    <2>5. content.edit <= pageEvents' /\ originalContent.edit <= pageEvents'
        BY <1>0, <2>2 DEF Texts
    <2>6. QED
        BY <1>0, <1>3, <2>1, <2>2, <2>3, <2>4, <2>5, BasicsKept
<1>4. ASSUME NEW f \in Files,
             OpenFile(f) \/ HandleCreateIntegration(f) \/ HandleDeleteIntegration(f)
      PROVE  PageBasics'
    <2>1. [of |-> f, edit |-> 0] \in Texts /\ 0 <= pageEvents
        BY <1>0, TextsThere
    <2>2. PICK op \in PageOps, text \in {Blank, [of |-> f, edit |-> 0]} :
              Sends(PageCall(op, f, text), pageCalls)
        BY <1>4 DEF OpenFile, HandleCreateIntegration, HandleDeleteIntegration, PageOps
    <2>3. text \in Texts /\ text.edit <= pageEvents
        BY <1>0, <2>1, TextsThere
    <2>4. QED
        BY <1>0, <1>3, <1>4, <2>2, <2>3
           DEF OpenFile, HandleCreateIntegration, HandleDeleteIntegration, editor
<1>5. CASE InitialLoad \/ HandleReloadFile
    <2>1. selectedFile \in Files /\ Blank \in Texts /\ Blank.edit <= pageEvents
        BY <1>0, <1>5, TextsThere DEF InitialLoad, HandleReloadFile
    <2>2. PICK op \in PageOps : Sends(PageCall(op, selectedFile, Blank), pageCalls)
        BY <1>5 DEF InitialLoad, HandleReloadFile, PageOps
    <2>3. QED
        BY <1>0, <1>3, <1>5, <2>1, <2>2 DEF InitialLoad, HandleReloadFile, editor
<1>6. ASSUME NEW byKey \in BOOLEAN, HandleSave(byKey)
      PROVE  PageBasics'
    <2>1. selectedFile \in Files /\ "save" \in PageOps
        BY <1>0, <1>6 DEF HandleSave, Dirty, PageOps
    <2>2. QED
        BY <1>0, <1>3, <1>6, <2>1 DEF HandleSave
<1>7. CASE Type
    <2>1. /\ content' \in Texts /\ content'.edit = pageEvents'
          /\ pageEvents' = pageEvents + 1 /\ pageEvents' \in 0..MaxPageEvents
        BY <1>0, <1>2, <1>7 DEF Type, Texts
    <2>2. originalContent.edit <= pageEvents' /\ pageEvents <= pageEvents'
        BY <1>0, <2>1 DEF Texts
    <2>3. QED
        BY <1>0, <1>7, <2>1, <2>2, BasicsKept DEF Type, pageHistory
<1>8. CASE LeavePage
    <2>1. pageEvents' \in 0..MaxPageEvents /\ pageEvents <= pageEvents' /\ 0 <= pageEvents'
        BY <1>0, <1>2, <1>8 DEF LeavePage
    <2>2. ASSUME NEW c \in pageCalls'
          PROVE  /\ c \in PageCalls /\ c.text.edit <= pageEvents'
                 /\ ~c.live /\ c.op # "save" => outlived'
        <3>1. PICK x \in pageCalls : c = [x EXCEPT !.live = FALSE]
            BY <1>8 DEF LeavePage
        <3>2. c \in PageCalls /\ c.text = x.text /\ c.op = x.op
            BY <1>1, <3>1 DEF PageCalls
        <3>3. x.text.edit \in Nat /\ x.text.edit <= pageEvents
            BY <1>1 DEF PageCalls, Texts
        <3>4. c.text.edit <= pageEvents'
            BY <1>0, <2>1, <3>2, <3>3
        <3>5. x.op # "save" => outlived'
            BY <1>8 DEF LeavePage
        <3>6. QED
            BY <3>2, <3>4, <3>5
    <2>3. /\ content' = Blank /\ originalContent' = Blank /\ blocked' = {}
          /\ saving' = FALSE /\ initialLoaded' = FALSE /\ outlived' \in BOOLEAN
          /\ UNCHANGED <<files, selectedFile, overlapped>>
        BY <1>0, <1>8 DEF LeavePage
    <2>4. QED
        BY <1>0, <2>1, <2>2, <2>3, TextsThere, BasicsKept
\* A request that goes on or ends
<1>9. ASSUME NEW c \in pageCalls, NEW d, d \in PageCalls, d.text.edit <= pageEvents,
             d.live = c.live, d.op = c.op \/ c.op # "save",
             pageCalls' \subseteq (pageCalls \ {c}) \cup {d},
             files' \in [Files -> Texts \cup {NotThere}],
             \A f \in Files : files'[f] \in {files[f], NotThere, c.text},
             selectedFile' \in Files \cup {NoFile},
             content' \in {content, c.text, Blank},
             originalContent' \in {originalContent, c.text},
             blocked' \subseteq Files, saving' \in BOOLEAN, overlapped' \in BOOLEAN,
             UNCHANGED <<initialLoaded, pageEvents, outlived>>
      PROVE  PageBasics'
    <2>1. c.text \in Texts /\ c.text.edit <= pageEvents
        BY <1>1 DEF PageCalls
    <2>2. Blank \in Texts /\ Blank.edit <= pageEvents
        BY <1>0, TextsThere
    <2>3. content' \in Texts /\ content'.edit <= pageEvents'
        BY <1>0, <1>9, <2>1, <2>2
    <2>4. originalContent' \in Texts /\ originalContent'.edit <= pageEvents'
        BY <1>0, <1>9, <2>1
    <2>5. ~d.live /\ d.op # "save" => outlived'
        BY <1>1, <1>9
    <2>6. \A e \in pageCalls' :
              \/ e \in pageCalls /\ (outlived => outlived')
              \/ /\ e \in PageCalls /\ e.text.edit <= pageEvents'
                 /\ ~e.live /\ e.op # "save" => outlived'
        BY <1>9, <2>5
    <2>7. pageEvents' \in 0..MaxPageEvents /\ pageEvents <= pageEvents'
        BY <1>0, <1>9
    <2>8. \A f \in Files : files'[f] = files[f] \/ files'[f] = NotThere
                               \/ files'[f].edit <= pageEvents'
        BY <1>9, <2>1
    <2>9. initialLoaded' \in BOOLEAN /\ outlived' \in BOOLEAN
        BY <1>0, <1>9
    <2>10. QED
        BY <1>9, <2>3, <2>4, <2>6, <2>7, <2>8, <2>9, BasicsKept
<1>10. ASSUME NEW c \in pageCalls, FilesHandle(c)
       PROVE  PageBasics'
    <2>1. c \in PageCalls /\ c.file \in Files /\ c.text \in Texts /\ c.text.edit <= pageEvents
        BY <1>1 DEF PageCalls
    <2>2. files[c.file] # NotThere => files[c.file] \in Texts /\ files[c.file].edit <= pageEvents
        BY <1>0, <2>1 DEF PageBasics, EditsWere
    <2>3. ~Refused(c) /\ c.op # "create" => files[c.file] # NotThere
        BY DEF Refused
    <2>4. PICK d : /\ pageCalls' = (pageCalls \ {c}) \cup {d}
                   /\ d = IF Refused(c) THEN [c EXCEPT !.at = "failed"]
                          ELSE IF c.op \in {"load", "reloadFile"}
                          THEN [c EXCEPT !.at = "ok", !.text = files[c.file]]
                          ELSE [c EXCEPT !.at = "ok"]
        BY <1>10 DEF FilesHandle
    <2>5. d \in PageCalls /\ d.text.edit <= pageEvents /\ d.live = c.live /\ d.op = c.op
        BY <2>1, <2>2, <2>3, <2>4 DEF PageCalls
    <2>6. /\ files' \in [Files -> Texts \cup {NotThere}]
          /\ \A f \in Files : files'[f] \in {files[f], NotThere, c.text}
        BY <1>0, <1>10, <2>1 DEF FilesHandle
    <2>7. QED
        BY <1>0, <1>9, <1>10, <2>4, <2>5, <2>6 DEF FilesHandle, editor, pageHistory
<1>11. ASSUME NEW c \in pageCalls, NEW works \in BOOLEAN, ReloadConfig(c, works)
       PROVE  PageBasics'
    <2> DEFINE d == [c EXCEPT !.at = IF works THEN "reloaded" ELSE "notReloaded"]
    <2>1. d \in PageCalls /\ d.text = c.text /\ d.live = c.live /\ d.op = c.op
        BY <1>1 DEF PageCalls
    <2>2. QED
        BY <1>0, <1>1, <1>9, <1>11, <2>1, ZenonT(60) DEF ReloadConfig, editor, pageHistory
<1>12. ASSUME NEW c \in pageCalls
       PROVE  /\ Reloading(c) \in PageCalls /\ Reloading(c).text.edit <= pageEvents
              /\ Reloading(c).live = c.live /\ Reloading(c).op = c.op
    <2>1. c \in PageCalls /\ Blank \in Texts
        BY <1>1, TextsThere
    <2>2. /\ Reloading(c) \in PageCalls /\ Reloading(c).text = Blank
          /\ Reloading(c).live = c.live /\ Reloading(c).op = c.op
        BY <2>1 DEF Reloading, PageCalls
    <2>3. Blank.edit <= pageEvents
        BY <1>0, TextsThere
    <2>4. QED
        BY <2>2, <2>3
<1>13. ASSUME NEW c \in pageCalls,
              LoadArrives(c) \/ SaveArrives(c) \/ ReloadArrives(c) \/ DeleteArrives(c)
       PROVE  PageBasics'
    <2>1. c.file \in Files
        BY <1>1 DEF PageCalls
    <2>2. pageCalls' \subseteq (pageCalls \ {c}) \cup {Reloading(c)}
        BY <1>13 DEF LoadArrives, SaveArrives, ReloadArrives, DeleteArrives
    <2>3. /\ UNCHANGED <<files, initialLoaded, pageEvents, overlapped, outlived>>
          /\ selectedFile' \in {selectedFile, c.file, NoFile}
          /\ content' \in {content, c.text, Blank}
          /\ originalContent' \in {originalContent, c.text}
        BY <1>13 DEF LoadArrives, SaveArrives, ReloadArrives, DeleteArrives, SavedAs, pageHistory
    <2>4. blocked' \subseteq Files /\ saving' \in BOOLEAN
        BY <1>0, <1>13, <2>1 DEF LoadArrives, SaveArrives, ReloadArrives, DeleteArrives,
           Cleared, Diagnosed
    <2>5. \A f \in Files : files'[f] \in {files[f], NotThere, c.text}
        BY <2>3
    <2>6. QED
        BY <1>0, <1>9, <1>12, <2>1, <2>2, <2>3, <2>4, <2>5
<1>14. ASSUME NEW c \in pageCalls, CreateArrives(c)
       PROVE  PageBasics'
    <2> DEFINE load == [c EXCEPT !.op = "load", !.at = "sent"]
    <2>1. PICK d \in {Reloading(c), load} :
              pageCalls' \subseteq (pageCalls \ {c}) \cup {d} /\ c.op = "create"
        BY <1>14 DEF CreateArrives, Sends
    <2>2. load \in PageCalls /\ load.text = c.text /\ load.live = c.live
        BY <1>1 DEF PageCalls, PageOps
    <2>3. d \in PageCalls /\ d.text.edit <= pageEvents /\ d.live = c.live
        BY <1>1, <1>12, <2>2
    <2>4. overlapped' \in BOOLEAN
        BY <1>0, <1>14 DEF CreateArrives, Sends
    <2>5. QED
        BY <1>0, <1>9, <1>14, <2>1, <2>3, <2>4 DEF CreateArrives, editor
<1>15. CASE UNCHANGED pageVars
    BY <1>15 DEF pageVars, editor, pageHistory, PageBasics, PageTypes, EditsWere, LeftIsSave
<1>16. QED
    BY <1>4, <1>5, <1>6, <1>7, <1>8, <1>10, <1>11, <1>13, <1>14, <1>15 DEF PageNext

-----------------------------------------------------------------------------
(***************************************************************************)
(* What is kept as long as requests do not overlap and no load outlives    *)
(* the page.                                                               *)
(***************************************************************************)
\* Texts that are held only where they were, or are new and of their file
LEMMA TextsKept ==
    ASSUME TextsOfFile,
           \A f \in Files, t \in Texts :
               Holds(f, t)' => Holds(f, t) \/ t \in {Blank, [of |-> f, edit |-> 0]}
    PROVE  TextsOfFile'
<1>1. Blank.of = NoFile /\ NoFile \notin Files
    BY FileAssumption DEF Blank
<1>2. ASSUME NEW f \in Files, NEW t \in Texts, Holds(f, t)'
      PROVE  t.of \in {f, NoFile}
    BY <1>1, <1>2 DEF TextsOfFile
<1>3. ASSUME NEW f \in Files, NEW g \in Files, NEW t \in Texts,
             Holds(f, t)', Holds(g, t)', t # Blank
      PROVE  f = g
    <2>1. t.of \in {f, NoFile} /\ t.of \in {g, NoFile}
        BY <1>2, <1>3
    <2>2. CASE t = [of |-> f, edit |-> 0] \/ t = [of |-> g, edit |-> 0]
        BY <1>1, <2>1, <2>2
    <2>3. CASE Holds(f, t) /\ Holds(g, t)
        BY <1>3, <2>3 DEF TextsOfFile
    <2>4. QED
        BY <1>3, <2>2, <2>3
<1>4. QED
    BY <1>2, <1>3 DEF TextsOfFile

\* A request that goes on or ends is still the only one about its file.
LEMMA StillAlone ==
    ASSUME OneAboutFile, NEW c \in pageCalls, NEW d,
           d.file = c.file, AboutFile(d) => AboutFile(c),
           pageCalls' \subseteq (pageCalls \ {c}) \cup {d}
    PROVE  OneAboutFile'
BY DEF OneAboutFile, AboutFile

\* A request that is sent meets none about its file.
LEMMA SentAlone ==
    ASSUME OneAboutFile, NEW calls \in SUBSET pageCalls, NEW call,
           Sends(call, calls), ~overlapped'
    PROVE  /\ OneAboutFile' /\ ~overlapped
           /\ pageCalls' = calls \cup {call}
           /\ \A c \in calls : AboutFile(c) => c.file # call.file
BY DEF OneAboutFile, AboutFile, Sends

\* A request of the page
LEMMA RequestKeeps ==
    ASSUME PageBasics, FilesKept, ~overlapped', NEW op \in PageOps, NEW f \in Files,
           NEW text \in Texts,
           Sends(PageCall(op, f, text), pageCalls),
           \/ text \in {Blank, [of |-> f, edit |-> 0]} /\ op # "save"
           \/ op = "save" /\ f = selectedFile /\ text = content /\ Dirty,
           UNCHANGED <<files, selectedFile, content, originalContent>>
    PROVE  FilesKept'
<1>0. PICK call : call = PageCall(op, f, text)
    OBVIOUS
<1>1. /\ call.op = op /\ call.file = f /\ call.text = text /\ call.at = "sent"
      /\ call.selected = (op = "delete" /\ f = selectedFile)
    BY <1>0 DEF PageCall
<1>2. Sends(call, pageCalls) /\ OneAboutFile /\ pageCalls \in SUBSET pageCalls
    BY <1>0 DEF FilesKept
<1>3. OneAboutFile' /\ pageCalls' = pageCalls \cup {call}
    BY <1>2, SentAlone
<1>4. TextsOfFile'
    <2>1. ASSUME NEW g \in Files, NEW t \in Texts, Holds(g, t)'
          PROVE  Holds(g, t) \/ t \in {Blank, [of |-> g, edit |-> 0]}
        BY <1>1, <1>3, <2>1 DEF Holds
    <2>2. QED
        BY <2>1, TextsKept DEF FilesKept
<1>5. AnswerIsStored' /\ DeletionKnows'
    BY <1>1, <1>3 DEF FilesKept, AnswerIsStored, DeletionKnows
<1>6. SavingIsDirty'
    BY <1>1, <1>3 DEF FilesKept, SavingIsDirty, Dirty
<1>7. ShownIsStored'
    BY <1>3 DEF FilesKept, ShownIsStored, Dirty
<1>8. QED
    BY <1>3, <1>4, <1>5, <1>6, <1>7 DEF FilesKept

LEMMA TypeKeeps ==
    ASSUME PageBasics, FilesKept, Type
    PROVE  FilesKept'
<1>0. /\ selectedFile \in Files /\ content \in Texts /\ originalContent \in Texts
      /\ pageEvents \in 0..MaxPageEvents
    BY DEF PageBasics, PageTypes, Type
<1>1. /\ content'.of = content.of /\ content'.edit = pageEvents + 1 /\ content' \in Texts
      /\ UNCHANGED <<files, selectedFile, originalContent, pageCalls>>
    BY <1>0, PageBounds DEF Type, PageEvent, Texts
\* The new text is new.
<1>2. ASSUME NEW f \in Files
      PROVE  ~Holds(f, content')
    <2>1. files[f] # content'
        <3>1. files[f] # NotThere => files[f].edit \in Nat /\ files[f].edit <= pageEvents
            BY DEF PageBasics, PageTypes, EditsWere, Texts
        <3>2. QED
            BY <1>0, <1>1, <3>1, TextsThere
    <2>2. content # content'
        BY <1>0, <1>1 DEF PageBasics, EditsWere, Texts
    <2>3. ASSUME NEW c \in pageCalls
          PROVE  c.text # content'
        <3>1. c.text.edit \in Nat /\ c.text.edit <= pageEvents
            BY DEF PageBasics, PageTypes, EditsWere, PageCalls, Texts
        <3>2. QED
            BY <1>0, <1>1, <3>1
    <2>4. QED
        BY <2>1, <2>2, <2>3 DEF Holds
<1>3. ASSUME NEW f \in Files, NEW t \in Texts, Holds(f, t)'
      PROVE  Holds(f, t) \/ (f = selectedFile /\ t = content')
    BY <1>1, <1>3 DEF Holds
<1>4. TextsOfFile'
    <2>1. content.of \in {selectedFile, NoFile}
        BY <1>0 DEF FilesKept, TextsOfFile, Holds
    <2>2. \A f \in Files, t \in Texts : Holds(f, t)' => t.of \in {f, NoFile}
        BY <1>1, <1>3, <2>1 DEF FilesKept, TextsOfFile
    <2>3. \A f, g \in Files, t \in Texts : Holds(f, t)' /\ Holds(g, t)' /\ t # Blank => f = g
        BY <1>2, <1>3 DEF FilesKept, TextsOfFile
    <2>4. QED
        BY <2>2, <2>3 DEF TextsOfFile
<1>5. Dirty'
    <2>1. originalContent.edit \in Nat /\ originalContent.edit <= pageEvents
        BY <1>0 DEF PageBasics, EditsWere, Texts
    <2>2. content' # originalContent
        BY <1>0, <1>1, <2>1
    <2>3. selectedFile # NoFile
        BY <1>0, FileAssumption
    <2>4. QED
        BY <1>1, <2>2, <2>3 DEF Dirty
<1>6. QED
    BY <1>1, <1>4, <1>5 DEF FilesKept, OneAboutFile, AnswerIsStored, DeletionKnows,
       SavingIsDirty, ShownIsStored, AboutFile

\* A page is left in peace only when nothing but saves is under way.
LEMMA LeaveKeeps ==
    ASSUME PageBasics, FilesKept, LeavePage, ~outlived'
    PROVE  FilesKept'
<1>1. /\ content' = Blank /\ originalContent' = Blank
      /\ UNCHANGED <<files, selectedFile>>
      /\ \A c \in pageCalls : c.op = "save"
    BY DEF LeavePage
<1>2. ASSUME NEW c \in pageCalls'
      PROVE  \E x \in pageCalls : /\ c = [x EXCEPT !.live = FALSE]
                                  /\ c.op = "save" /\ c.file = x.file /\ c.text = x.text
                                  /\ c.at = x.at
    <2>1. PICK x \in pageCalls : c = [x EXCEPT !.live = FALSE]
        BY DEF LeavePage
    <2>2. x \in PageCalls
        BY DEF PageBasics, PageTypes
    <2>3. QED
        BY <1>1, <2>1, <2>2 DEF PageCalls
<1>3. TextsOfFile'
    <2>1. ASSUME NEW f \in Files, NEW t \in Texts, Holds(f, t)'
          PROVE  Holds(f, t) \/ t \in {Blank, [of |-> f, edit |-> 0]}
        BY <1>1, <1>2, <2>1 DEF Holds
    <2>2. QED
        BY <2>1, TextsKept DEF FilesKept
<1>4. OneAboutFile'
    <2>1. ASSUME NEW c \in pageCalls', NEW d \in pageCalls',
                 c.file = d.file, AboutFile(c), AboutFile(d)
          PROVE  c = d
        <3>1. PICK x \in pageCalls : /\ c = [x EXCEPT !.live = FALSE]
                                     /\ c.file = x.file /\ c.at = x.at
            BY <1>2
        <3>2. PICK y \in pageCalls : /\ d = [y EXCEPT !.live = FALSE]
                                     /\ d.file = y.file /\ d.at = y.at
            BY <1>2
        <3>3. x = y
            BY <2>1, <3>1, <3>2 DEF FilesKept, OneAboutFile, AboutFile
        <3>4. QED
            BY <3>1, <3>2, <3>3
    <2>2. QED
        BY <2>1 DEF OneAboutFile, AboutFile
<1>5. AnswerIsStored'
    BY <1>1, <1>2 DEF FilesKept, AnswerIsStored
<1>6. DeletionKnows' /\ SavingIsDirty' /\ ShownIsStored'
    BY <1>1, <1>2 DEF DeletionKnows, SavingIsDirty, ShownIsStored
<1>7. QED
    BY <1>3, <1>4, <1>5, <1>6 DEF FilesKept

\* The backend handles a request: the file it is about is not the one of another
\* request, nor one that is shown and saved, or that is there and created.
LEMMA HandleKeeps ==
    ASSUME PageBasics, FilesKept, NEW c \in pageCalls, FilesHandle(c)
    PROVE  FilesKept'
<1>0. c \in PageCalls /\ c.file \in Files /\ files \in [Files -> Texts \cup {NotThere}]
    BY DEF PageBasics, PageTypes, PageCalls
<1>1. PICK d : /\ pageCalls' = (pageCalls \ {c}) \cup {d}
               /\ d = IF Refused(c) THEN [c EXCEPT !.at = "failed"]
                      ELSE IF c.op \in {"load", "reloadFile"}
                      THEN [c EXCEPT !.at = "ok", !.text = files[c.file]]
                      ELSE [c EXCEPT !.at = "ok"]
    BY DEF FilesHandle
<1>2. /\ d.op = c.op /\ d.file = c.file /\ d.selected = c.selected
      /\ d.at = IF Refused(c) THEN "failed" ELSE "ok"
      /\ d.text = IF ~Refused(c) /\ c.op \in {"load", "reloadFile"}
                  THEN files[c.file] ELSE c.text
    BY <1>0, <1>1 DEF PageCalls
<1>3. /\ \A f \in Files : f # c.file => files'[f] = files[f]
      /\ files'[c.file] = IF Refused(c) THEN files[c.file]
                          ELSE IF c.op \in {"save", "create"} THEN c.text
                          ELSE IF c.op = "delete" THEN NotThere ELSE files[c.file]
      /\ UNCHANGED <<selectedFile, content, originalContent>>
    BY <1>0 DEF FilesHandle, editor
<1>4. c.at = "sent" /\ AboutFile(c) /\ AboutFile(d)
    BY <1>2 DEF FilesHandle, AboutFile
<1>5. \A x \in pageCalls : AboutFile(x) /\ x # c => x.file # c.file
    BY <1>4 DEF FilesKept, OneAboutFile
<1>6. TextsOfFile'
    <2>1. ASSUME NEW f \in Files, NEW t \in Texts, Holds(f, t)'
          PROVE  Holds(f, t)
        <3>1. CASE files'[f] = t
            BY <1>2, <1>3, <3>1, TextsThere DEF Holds
        <3>2. CASE selectedFile' = f /\ content' = t
            BY <1>3, <3>2 DEF Holds
        <3>3. CASE \E x \in pageCalls' : x.file = f /\ x.text = t
            BY <1>1, <1>2, <3>3, ZenonT(60) DEF Holds
        <3>4. QED
            BY <2>1, <3>1, <3>2, <3>3 DEF Holds
    <2>2. QED
        BY <2>1, TextsKept DEF FilesKept
<1>7. OneAboutFile'
    BY <1>1, <1>2, <1>4, StillAlone DEF FilesKept
<1>8. AnswerIsStored'
    <2>1. ASSUME NEW x \in pageCalls', x.op \in {"load", "reloadFile", "save"}, x.at = "ok"
          PROVE  files'[x.file] = x.text
        <3>1. CASE x = d
            BY <1>2, <1>3, <2>1, <3>1
        <3>2. CASE x \in pageCalls /\ x # c
            <4>1. x.file # c.file /\ x.file \in Files
                BY <1>5, <2>1, <3>2 DEF AboutFile, PageBasics, PageTypes, PageCalls
            <4>2. QED
                BY <1>3, <2>1, <3>2, <4>1 DEF FilesKept, AnswerIsStored
        <3>3. QED
            BY <1>1, <3>1, <3>2
    <2>2. QED
        BY <2>1 DEF AnswerIsStored
<1>9. ASSUME NEW x \in pageCalls', AboutFile(x), x.file = selectedFile
      PROVE  /\ x.op = "delete" => x.selected
             /\ x.op = "save" /\ content # Blank => Dirty
    <2>1. DeletionKnows /\ SavingIsDirty
        BY DEF FilesKept
    <2>2. CASE x = d
        BY <1>2, <1>4, <1>9, <2>1, <2>2 DEF DeletionKnows, SavingIsDirty
    <2>3. CASE x \in pageCalls
        BY <1>9, <2>1, <2>3 DEF DeletionKnows, SavingIsDirty
    <2>4. QED
        BY <1>1, <2>2, <2>3
<1>10. DeletionKnows' /\ SavingIsDirty'
    BY <1>3, <1>9 DEF DeletionKnows, SavingIsDirty, AboutFile, Dirty
<1>11. ShownIsStored'
    <2> SUFFICES ASSUME selectedFile # NoFile, content # Blank, ~Dirty
                 PROVE  \/ files'[selectedFile] = content
                        \/ \E x \in pageCalls' : /\ x.op = "delete" /\ x.at = "ok"
                                                 /\ x.file = selectedFile
        BY <1>3 DEF ShownIsStored, Dirty
    <2>1. \/ files[selectedFile] = content
          \/ \E x \in pageCalls : x.op = "delete" /\ x.at = "ok" /\ x.file = selectedFile
        BY DEF FilesKept, ShownIsStored
    <2>2. selectedFile \in Files /\ content \in Texts
        BY DEF PageBasics, PageTypes
    <2>3. CASE selectedFile # c.file
        BY <1>1, <1>3, <1>4, <2>1, <2>2, <2>3
    <2>4. CASE selectedFile = c.file
        <3>1. files[selectedFile] = content /\ files[selectedFile] # NotThere
            BY <1>4, <1>5, <2>1, <2>2, <2>4, TextsThere DEF AboutFile
        <3>2. c.op # "save"
            BY <1>4, <2>4 DEF FilesKept, SavingIsDirty
        <3>3. CASE Refused(c) \/ c.op \in {"load", "reloadFile"}
            BY <1>3, <2>4, <3>1, <3>3
        <3>4. CASE ~Refused(c) /\ c.op = "create"
            BY <2>4, <3>1, <3>4 DEF Refused
        <3>5. CASE ~Refused(c) /\ c.op = "delete"
            BY <1>1, <1>2, <2>4, <3>5
        <3>6. QED
            BY <1>0, <3>2, <3>3, <3>4, <3>5 DEF PageCalls, PageOps
    <2>5. QED
        BY <2>3, <2>4
<1>12. QED
    BY <1>6, <1>7, <1>8, <1>9, <1>10, <1>11 DEF FilesKept

\* A request that is no more about its file, and leaves files and editor alone
LEMMA MovesOn ==
    ASSUME PageBasics, FilesKept, NEW c \in pageCalls, NEW d,
           d.file = c.file, d.text \in {c.text, Blank}, ~AboutFile(d),
           pageCalls' \subseteq (pageCalls \ {c}) \cup {d},
           ~(c.op = "delete" /\ c.at = "ok"),
           pageCalls \ {c} \subseteq pageCalls',
           UNCHANGED <<files, selectedFile, content, originalContent>>
    PROVE  FilesKept'
<1>1. TextsOfFile'
    <2>1. ASSUME NEW f \in Files, NEW t \in Texts, Holds(f, t)'
          PROVE  Holds(f, t) \/ t \in {Blank, [of |-> f, edit |-> 0]}
        BY <2>1 DEF Holds
    <2>2. QED
        BY <2>1, TextsKept DEF FilesKept
<1>2. OneAboutFile'
    BY StillAlone DEF FilesKept
<1>3. AnswerIsStored' /\ DeletionKnows' /\ SavingIsDirty'
    BY DEF FilesKept, AnswerIsStored, DeletionKnows, SavingIsDirty, AboutFile, Dirty
<1>4. ShownIsStored'
    BY DEF FilesKept, ShownIsStored, Dirty
<1>5. QED
    BY <1>1, <1>2, <1>3, <1>4 DEF FilesKept

\* The file that is loaded is stored as it is shown, and no request about it is
\* under way.
LEMMA LoadKeeps ==
    ASSUME PageBasics, FilesKept, ~outlived, NEW c \in pageCalls, LoadArrives(c)
    PROVE  FilesKept'
<1>0. /\ c \in PageCalls /\ c.file \in Files /\ c.text \in Texts /\ c.live
      /\ c.op \in {"load", "reloadFile"} /\ AboutFile(c)
    BY DEF PageBasics, PageTypes, PageCalls, LeftIsSave, LoadArrives, AboutFile
<1>1. /\ Reloading(c).file = c.file /\ Reloading(c).text = Blank /\ ~AboutFile(Reloading(c))
    BY <1>0 DEF Reloading, PageCalls, AboutFile
<1>2. /\ pageCalls' \subseteq (pageCalls \ {c}) \cup {Reloading(c)}
      /\ pageCalls \ {c} \subseteq pageCalls' /\ files' = files
    BY DEF LoadArrives
<1>3. CASE c.at = "failed"
    <2>1. UNCHANGED <<files, selectedFile, content, originalContent>>
        BY <1>3 DEF LoadArrives
    <2>2. QED
        BY <1>0, <1>1, <1>2, <2>1, MovesOn
<1>4. CASE c.at = "ok"
    <2>1. selectedFile' = c.file /\ content' = c.text /\ originalContent' = c.text
        BY <1>0, <1>4 DEF LoadArrives
    <2>2. \A x \in pageCalls' : AboutFile(x) => x \in pageCalls /\ x.file # c.file
        BY <1>0, <1>1, <1>2 DEF FilesKept, OneAboutFile
    <2>3. TextsOfFile'
        <3>1. ASSUME NEW f \in Files, NEW t \in Texts, Holds(f, t)'
              PROVE  Holds(f, t) \/ t \in {Blank, [of |-> f, edit |-> 0]}
            BY <1>1, <1>2, <2>1, <3>1 DEF Holds
        <3>2. QED
            BY <3>1, TextsKept DEF FilesKept
    <2>4. OneAboutFile'
        BY <1>1, <1>2, StillAlone DEF FilesKept
    <2>5. AnswerIsStored'
        BY <1>2, <2>2 DEF FilesKept, AnswerIsStored, AboutFile
    <2>6. DeletionKnows' /\ SavingIsDirty'
        BY <2>1, <2>2 DEF DeletionKnows, SavingIsDirty, AboutFile
    <2>7. ShownIsStored'
        BY <1>0, <1>2, <1>4, <2>1 DEF FilesKept, AnswerIsStored, ShownIsStored
    <2>8. QED
        BY <2>3, <2>4, <2>5, <2>6, <2>7 DEF FilesKept
<1>5. QED
    BY <1>3, <1>4 DEF LoadArrives

\* What counts as saved is stored; when another file was opened meanwhile it is
\* not the text in the editor.
LEMMA SaveKeeps ==
    ASSUME PageBasics, FilesKept, NEW c \in pageCalls, SaveArrives(c)
    PROVE  FilesKept'
<1>0. /\ c \in PageCalls /\ c.file \in Files /\ c.text \in Texts
      /\ c.op = "save" /\ AboutFile(c)
      /\ selectedFile \in Files \cup {NoFile} /\ content \in Texts
    BY DEF PageBasics, PageTypes, PageCalls, SaveArrives, AboutFile
<1>1. /\ Reloading(c).file = c.file /\ Reloading(c).text = Blank /\ ~AboutFile(Reloading(c))
    BY <1>0 DEF Reloading, PageCalls, AboutFile
<1>2. /\ pageCalls' \subseteq (pageCalls \ {c}) \cup {Reloading(c)}
      /\ pageCalls \ {c} \subseteq pageCalls'
      /\ UNCHANGED <<files, selectedFile, content>>
    BY DEF SaveArrives
<1>3. CASE originalContent' = originalContent
    BY <1>0, <1>1, <1>2, <1>3, MovesOn
<1>4. CASE c.at = "ok" /\ originalContent' = c.text
    <2>1. selectedFile # NoFile /\ content # Blank /\ content = c.text => selectedFile = c.file
        BY <1>0 DEF FilesKept, TextsOfFile, Holds
    <2>2. \A x \in pageCalls' : AboutFile(x) => x \in pageCalls /\ x.file # c.file
        BY <1>0, <1>1, <1>2 DEF FilesKept, OneAboutFile
    <2>3. TextsOfFile'
        <3>1. ASSUME NEW f \in Files, NEW t \in Texts, Holds(f, t)'
              PROVE  Holds(f, t) \/ t \in {Blank, [of |-> f, edit |-> 0]}
            BY <1>1, <1>2, <3>1 DEF Holds
        <3>2. QED
            BY <3>1, TextsKept DEF FilesKept
    <2>4. OneAboutFile'
        BY <1>1, <1>2, StillAlone DEF FilesKept
    <2>5. AnswerIsStored' /\ DeletionKnows'
        BY <1>2, <2>2 DEF FilesKept, AnswerIsStored, DeletionKnows, AboutFile
    <2>6. SavingIsDirty'
        <3>1. ASSUME NEW x \in pageCalls', x.op = "save", AboutFile(x), x.file = selectedFile,
                     content # Blank
              PROVE  selectedFile # NoFile /\ content # originalContent'
            <4>1. x \in pageCalls /\ x.file # c.file
                BY <2>2, <3>1
            <4>2. selectedFile # NoFile
                BY <3>1, <4>1 DEF FilesKept, SavingIsDirty, Dirty
            <4>3. QED
                BY <1>4, <2>1, <3>1, <4>1, <4>2
        <3>2. QED
            BY <1>2, <3>1 DEF SavingIsDirty, AboutFile, Dirty
    <2>7. ShownIsStored'
        BY <1>0, <1>2, <1>4, <2>1 DEF FilesKept, AnswerIsStored, ShownIsStored, Dirty
    <2>8. QED
        BY <2>3, <2>4, <2>5, <2>6, <2>7 DEF FilesKept
<1>5. QED
    BY <1>3, <1>4 DEF SaveArrives, SavedAs

\* A deletion knows that its file is shown, and takes it from the editor.
LEMMA DeleteKeeps ==
    ASSUME PageBasics, FilesKept, ~outlived, NEW c \in pageCalls, DeleteArrives(c)
    PROVE  FilesKept'
<1>0. /\ c.op = "delete" /\ c.live /\ AboutFile(c)
      /\ pageCalls' = pageCalls \ {c} /\ UNCHANGED <<files, originalContent>>
    BY DEF PageBasics, PageTypes, PageCalls, LeftIsSave, DeleteArrives, AboutFile
<1>1. TextsOfFile'
    <2>1. ASSUME NEW f \in Files, NEW t \in Texts, Holds(f, t)'
          PROVE  Holds(f, t) \/ t \in {Blank, [of |-> f, edit |-> 0]}
        BY <1>0, <2>1 DEF DeleteArrives, Holds
    <2>2. QED
        BY <2>1, TextsKept DEF FilesKept
<1>2. OneAboutFile' /\ AnswerIsStored'
    BY <1>0 DEF FilesKept, OneAboutFile, AnswerIsStored, AboutFile
<1>3. CASE c.at = "ok" /\ c.selected
    <2>1. selectedFile' = NoFile
        BY <1>3 DEF DeleteArrives
    <2>2. \A x \in pageCalls' : x.file # NoFile
        BY <1>0, FileAssumption DEF PageBasics, PageTypes, PageCalls
    <2>3. DeletionKnows' /\ SavingIsDirty' /\ ShownIsStored'
        BY <2>1, <2>2 DEF DeletionKnows, SavingIsDirty, ShownIsStored
    <2>4. QED
        BY <1>1, <1>2, <2>3 DEF FilesKept
<1>4. CASE ~(c.at = "ok" /\ c.selected)
    <2>1. selectedFile' = selectedFile /\ content' = content
        BY <1>4 DEF DeleteArrives
    <2>2. DeletionKnows' /\ SavingIsDirty'
        BY <1>0, <2>1 DEF FilesKept, DeletionKnows, SavingIsDirty, AboutFile, Dirty
    <2>3. c.at = "ok" => c.file # selectedFile
        BY <1>0, <1>4 DEF FilesKept, DeletionKnows
    <2>4. ShownIsStored'
        BY <1>0, <2>1, <2>3 DEF FilesKept, ShownIsStored, Dirty
    <2>5. QED
        BY <1>1, <1>2, <2>2, <2>4 DEF FilesKept
<1>5. QED
    BY <1>3, <1>4

\* With the configuration reloaded the new file is asked for, unless something
\* else is.
LEMMA CreateKeeps ==
    ASSUME PageBasics, FilesKept, NEW c \in pageCalls, CreateArrives(c), ~overlapped'
    PROVE  FilesKept'
<1>0. /\ c \in PageCalls /\ c.op = "create" /\ c.at # "sent"
      /\ UNCHANGED <<files, selectedFile, content, originalContent>>
    BY DEF PageBasics, PageTypes, CreateArrives, editor
<1>1. /\ Reloading(c).file = c.file /\ Reloading(c).text = Blank /\ ~AboutFile(Reloading(c))
    BY <1>0 DEF Reloading, PageCalls, AboutFile
<1>2. CASE c.at # "reloaded"
    <2>1. /\ pageCalls' \subseteq (pageCalls \ {c}) \cup {Reloading(c)}
          /\ pageCalls \ {c} \subseteq pageCalls'
        BY <1>2 DEF CreateArrives
    <2>2. QED
        BY <1>0, <1>1, <2>1, MovesOn
<1>3. CASE c.at = "reloaded"
    <2>0. PICK load : load = [c EXCEPT !.op = "load", !.at = "sent"]
        OBVIOUS
    <2>1. load.op = "load" /\ load.at = "sent" /\ load.file = c.file /\ load.text = c.text
        BY <1>0, <2>0 DEF PageCalls
    <2>2. Sends(load, pageCalls \ {c}) /\ pageCalls \ {c} \in SUBSET pageCalls /\ OneAboutFile
        BY <1>3, <2>0 DEF CreateArrives, FilesKept
    <2>3. OneAboutFile' /\ pageCalls' = (pageCalls \ {c}) \cup {load}
        BY <2>2, SentAlone
    <2>4. TextsOfFile'
        <3>1. ASSUME NEW f \in Files, NEW t \in Texts, Holds(f, t)'
              PROVE  Holds(f, t) \/ t \in {Blank, [of |-> f, edit |-> 0]}
            BY <1>0, <2>1, <2>3, <3>1 DEF Holds
        <3>2. QED
            BY <3>1, TextsKept DEF FilesKept
    <2>5. AnswerIsStored' /\ DeletionKnows' /\ SavingIsDirty'
        BY <1>0, <2>1, <2>3 DEF FilesKept, AnswerIsStored, DeletionKnows, SavingIsDirty,
           AboutFile, Dirty
    <2>6. ShownIsStored'
        BY <1>0, <2>3 DEF FilesKept, ShownIsStored, Dirty
    <2>7. QED
        BY <2>3, <2>4, <2>5, <2>6 DEF FilesKept
<1>4. QED
    BY <1>2, <1>3

LEMMA EditorNextInv == EditorInv /\ [PageNext]_pageVars => EditorInv'
<1> SUFFICES ASSUME EditorInv, [PageNext]_pageVars, ~overlapped', ~outlived'
             PROVE  FilesKept'
    BY PageBasicsNext DEF EditorInv, PageBasics
<1>0. PageBasics
    BY DEF EditorInv, PageBasics
<1>1. ~overlapped /\ ~outlived
    <2>1. ASSUME NEW call, NEW calls, Sends(call, calls)
          PROVE  ~overlapped
        BY <2>1 DEF Sends
    <2>2. ASSUME NEW c \in pageCalls, CreateArrives(c)
          PROVE  ~overlapped /\ ~outlived
        BY <2>1, <2>2 DEF CreateArrives
    <2>3. ASSUME NEW c \in pageCalls,
                 \/ FilesHandle(c) \/ \E works \in BOOLEAN : ReloadConfig(c, works)
                 \/ LoadArrives(c) \/ SaveArrives(c) \/ ReloadArrives(c) \/ DeleteArrives(c)
          PROVE  ~overlapped /\ ~outlived
        BY <2>3 DEF FilesHandle, ReloadConfig, LoadArrives, SaveArrives, ReloadArrives,
           DeleteArrives, pageHistory
    <2>4. CASE UNCHANGED pageVars \/ Type \/ LeavePage
        <3>1. UNCHANGED pageVars \/ Type => UNCHANGED <<overlapped, outlived>>
            BY DEF pageVars, pageHistory, Type
        <3>2. LeavePage => UNCHANGED overlapped /\ (outlived => outlived')
            BY DEF LeavePage
        <3>3. QED
            BY <2>4, <3>1, <3>2
    <2>5. CASE \/ InitialLoad \/ HandleReloadFile \/ \E byKey \in BOOLEAN : HandleSave(byKey)
               \/ \E f \in Files : \/ OpenFile(f) \/ HandleCreateIntegration(f)
                                   \/ HandleDeleteIntegration(f)
        <3>1. UNCHANGED outlived /\ \E call : Sends(call, pageCalls)
            BY <2>5 DEF InitialLoad, HandleReloadFile, HandleSave, OpenFile,
               HandleCreateIntegration, HandleDeleteIntegration
        <3>2. QED
            BY <2>1, <3>1
    <2>6. QED
        BY <2>2, <2>3, <2>4, <2>5 DEF PageNext
<1>2. FilesKept
    BY <1>1 DEF EditorInv
<1>3. /\ selectedFile \in Files \cup {NoFile} /\ Blank \in Texts
      /\ content \in Texts
      /\ \A f \in Files : [of |-> f, edit |-> 0] \in Texts
    BY <1>0, TextsThere DEF PageBasics, PageTypes
<1>4. ASSUME NEW f \in Files,
             OpenFile(f) \/ HandleCreateIntegration(f) \/ HandleDeleteIntegration(f)
      PROVE  FilesKept'
    <2>1. PICK op \in PageOps \ {"save"}, text \in {Blank, [of |-> f, edit |-> 0]} :
              Sends(PageCall(op, f, text), pageCalls)
        BY <1>4 DEF OpenFile, HandleCreateIntegration, HandleDeleteIntegration, PageOps
    <2>2. UNCHANGED <<files, selectedFile, content, originalContent>> /\ text \in Texts
        BY <1>3, <1>4 DEF OpenFile, HandleCreateIntegration, HandleDeleteIntegration, editor
    <2>3. QED
        BY <1>0, <1>2, <2>1, <2>2, RequestKeeps
<1>5. CASE InitialLoad \/ HandleReloadFile
    <2>1. PICK op \in PageOps \ {"save"} : Sends(PageCall(op, selectedFile, Blank), pageCalls)
        BY <1>5 DEF InitialLoad, HandleReloadFile, PageOps
    <2>2. UNCHANGED <<files, selectedFile, content, originalContent>> /\ selectedFile \in Files
        BY <1>3, <1>5 DEF InitialLoad, HandleReloadFile, editor
    <2>3. QED
        BY <1>0, <1>2, <1>3, <2>1, <2>2, RequestKeeps
<1>6. ASSUME NEW byKey \in BOOLEAN, HandleSave(byKey)
      PROVE  FilesKept'
    <2>1. /\ UNCHANGED <<files, selectedFile, content, originalContent>>
          /\ Dirty /\ selectedFile \in Files /\ "save" \in PageOps
          /\ Sends(PageCall("save", selectedFile, content), pageCalls)
        BY <1>3, <1>6 DEF HandleSave, Dirty, PageOps
    <2>2. QED
        BY <1>0, <1>2, <1>3, <2>1, RequestKeeps
<1>7. CASE Type
    BY <1>0, <1>2, <1>7, TypeKeeps
<1>8. CASE LeavePage
    BY <1>0, <1>2, <1>8, LeaveKeeps
<1>9. ASSUME NEW c \in pageCalls, FilesHandle(c)
      PROVE  FilesKept'
    BY <1>0, <1>2, <1>9, HandleKeeps
<1>10. ASSUME NEW c \in pageCalls,
              ReloadArrives(c) \/ \E works \in BOOLEAN : ReloadConfig(c, works)
       PROVE  FilesKept'
    <2>1. c \in PageCalls /\ c.at \notin {"sent", "ok", "failed"}
        BY <1>0, <1>10 DEF PageBasics, PageTypes, ReloadArrives, ReloadConfig
    <2>2. PICK d \in {c} \cup {[c EXCEPT !.at = at] : at \in {"reloaded", "notReloaded"}} :
              pageCalls' \subseteq (pageCalls \ {c}) \cup {d}
        BY <1>10 DEF ReloadArrives, ReloadConfig
    <2>3. d.file = c.file /\ d.text = c.text /\ ~AboutFile(d)
        BY <2>1, <2>2 DEF PageCalls, AboutFile
    <2>4. /\ pageCalls \ {c} \subseteq pageCalls'
          /\ UNCHANGED <<files, selectedFile, content, originalContent>>
        BY <1>10 DEF ReloadArrives, ReloadConfig, editor
    <2>5. QED
        BY <1>0, <1>2, <2>1, <2>2, <2>3, <2>4, MovesOn
<1>11. ASSUME NEW c \in pageCalls,
              \/ LoadArrives(c) \/ SaveArrives(c)
              \/ CreateArrives(c) \/ DeleteArrives(c)
       PROVE  FilesKept'
    BY <1>0, <1>1, <1>2, <1>11, LoadKeeps, SaveKeeps, CreateKeeps, DeleteKeeps
<1>12. CASE UNCHANGED pageVars
    BY <1>2, <1>12 DEF pageVars, editor, pageHistory, FilesKept, TextsOfFile, Holds,
       OneAboutFile, AnswerIsStored, DeletionKnows, SavingIsDirty, ShownIsStored,
       AboutFile, Dirty
<1>13. QED
    BY <1>4, <1>5, <1>6, <1>7, <1>8, <1>9, <1>10, <1>11, <1>12 DEF PageNext

\* Requests and texts of the editor are of their files in every reachable state.
THEOREM EditorInvariant == PageSpec => []EditorInv
BY EditorInitInv, EditorNextInv, PTL DEF PageSpec

LEMMA EditorInvTyped == EditorInv => PageTypeOK
BY DEF EditorInv, PageTypes, PageTypeOK, PageCalls, AboutFile

LEMMA EditorInvKeeps == EditorInv => EditorKeepsFiles
<1> SUFFICES ASSUME EditorInv, ~overlapped, ~outlived
             PROVE  NoFileCrossed /\ SavedIsStored
    BY DEF EditorKeepsFiles
<1>1. TextsOfFile /\ ShownIsStored /\ files \in [Files -> Texts \cup {NotThere}]
    BY DEF EditorInv, FilesKept, PageTypes
<1>2. NoFileCrossed
    <2>1. ASSUME NEW f \in Files
          PROVE  files[f].of \in {f, NoFile}
        <3>1. CASE files[f] = NotThere
            BY <3>1 DEF NotThere
        <3>2. CASE files[f] \in Texts
            BY <1>1, <3>2 DEF TextsOfFile, Holds
        <3>3. QED
            BY <1>1, <3>1, <3>2
    <2>2. QED
        BY <2>1 DEF NoFileCrossed
<1>3. SavedIsStored
    BY <1>1 DEF ShownIsStored, SavedIsStored, AboutFile
<1>4. QED
    BY <1>2, <1>3

\* As long as no two requests about one file are under way and no load outlives
\* its page, the text of a file never becomes that of another, and a text that
\* counts as saved is what the backend has.
THEOREM FilesStayApart == PageSpec => []EditorKeepsFiles
BY EditorInvKeeps, EditorInvariant, PTL

-----------------------------------------------------------------------------
(***************************************************************************)
(* The views, as long as they are edited only.                             *)
(***************************************************************************)
\* A view, a save of one that is under way, and a store of the views there were
IsView(view) == view = [edits |-> view.edits, name |-> view.name, rank |-> view.rank]
IsSave(c) ==
    \E at \in {"sent", "ok"} : c = [op |-> "save", id |-> c.id, view |-> c.view, at |-> at]
StoresFirst(store) ==
    /\ DOMAIN store = FirstViews /\ store = [v \in FirstViews |-> store[v]]
    /\ \A v \in FirstViews : IsView(store[v])

\* One save is under way, and an answer that is there is what the backend has.
ViewsTypes ==
    /\ StoresFirst(views) /\ StoresFirst(viewCache)
    /\ viewFetch \in {NoFetch, Asked, [at |-> "answered", answer |-> views]}
    /\ \/ viewPending = NothingPending
       \/ viewPending.id \in FirstViews /\ IsView(viewPending.view)
    /\ \A c \in viewCalls : IsSave(c) /\ c.id \in FirstViews /\ IsView(c.view)
    /\ \A c, d \in viewCalls : c = d
    /\ edited = [v \in Views |-> edited[v]]
    /\ \A v \in Views : edited[v] # {} => v \in FirstViews

\* Nothing is pending without a save, and no list is asked for before the queue
\* is idle.
QueueDrains ==
    /\ viewCalls = {} => viewPending = NothingPending
    /\ viewFetch # NoFetch => viewCalls = {}

\* The last save of a view that is under way or pending has all its edits; if
\* there is none the backend has them.
LastSaveHas(v) ==
    IF viewPending.id = v THEN edited[v] \subseteq viewPending.view.edits
    ELSE /\ \A c \in viewCalls : c.id = v => edited[v] \subseteq c.view.edits
         /\ (\A c \in viewCalls : c.id = v => c.at = "ok") => edited[v] \subseteq views[v].edits

EditsKept ==
    /\ ViewsTypes
    /\ QueueDrains
    /\ \A v \in Views \ overtaken :
          edited[v] # {} => edited[v] \subseteq viewCache[v].edits /\ LastSaveHas(v)

ViewsInv ==
    /\ edits \in Nat /\ viewCommands \in Nat /\ viewFailures \in Nat
    /\ viewFailures = 0 /\ viewCommands = 0 => EditsKept

LEMMA ViewsInitInv == ViewsInit => ViewsInv
<1> SUFFICES ASSUME ViewsInit
             PROVE  ViewsInv
    OBVIOUS
<1>1. StoresFirst(FirstStore)
    BY DEF StoresFirst, FirstStore, IsView
<1>2. /\ views = FirstStore /\ viewCache = FirstStore
      /\ viewFetch = NoFetch /\ viewPending = NothingPending /\ viewCalls = {}
      /\ edited = [v \in Views |-> {}]
      /\ edits = 0 /\ viewCommands = 0 /\ viewFailures = 0
    BY DEF ViewsInit
<1>3. \A v \in Views : edited[v] = {}
    BY <1>2
<1>4. ViewsTypes /\ QueueDrains
    BY <1>1, <1>2, <1>3 DEF ViewsTypes, QueueDrains
<1>5. QED
    BY <1>2, <1>3, <1>4 DEF ViewsInv, EditsKept

\* An edit is shown with all the edits of its view there were, and what it takes
\* the place of is a save of this view, or the other view is marked.
LEMMA EditKeeps ==
    ASSUME EditsKept, edits \in Nat, NEW v \in DOMAIN viewCache, EditLayout(v)
    PROVE  EditsKept'
<1>0. PICK view : view = [viewCache[v] EXCEPT !.edits = @ \cup {edits + 1}]
    OBVIOUS
<1>1. v \in FirstViews /\ v \in Views /\ IsView(viewCache[v]) /\ StoresFirst(viewCache)
    BY ViewsAssumption DEF EditsKept, ViewsTypes, StoresFirst
<1>2. IsView(view) /\ view.edits = viewCache[v].edits \cup {edits + 1}
    BY <1>0, <1>1 DEF IsView
<1>3. /\ edited' = [edited EXCEPT ![v] = @ \cup {edits + 1}]
      /\ viewCache' = [viewCache EXCEPT ![v] = view]
      /\ viewFetch' = NoFetch /\ views' = views
      /\ Enqueue(v, view)
    BY <1>0 DEF EditLayout
<1>4. /\ edited'[v] = edited[v] \cup {edits + 1} /\ viewCache'[v] = view
      /\ \A u \in Views : u # v => edited'[u] = edited[u]
      /\ \A u \in FirstViews : u # v => viewCache'[u] = viewCache[u]
      /\ StoresFirst(viewCache') /\ edited' = [u \in Views |-> edited'[u]]
    BY <1>1, <1>2, <1>3 DEF EditsKept, ViewsTypes, StoresFirst
<1>5. \A u \in Views : edited'[u] # {} => u \in FirstViews
    BY <1>1, <1>4 DEF EditsKept, ViewsTypes
<1>6. overtaken \subseteq overtaken'
    BY <1>3 DEF Enqueue
<1>7. ASSUME v \notin overtaken
      PROVE  edited'[v] \subseteq view.edits
    BY <1>1, <1>2, <1>4, <1>7 DEF EditsKept
<1>8. ASSUME NEW u \in Views \ overtaken', edited'[u] # {}
      PROVE  edited'[u] \subseteq viewCache'[u].edits
    BY <1>1, <1>4, <1>5, <1>6, <1>7, <1>8 DEF EditsKept
<1>9. CASE Running
    <2>1. /\ viewPending' = [id |-> v, view |-> view] /\ viewCalls' = viewCalls
          /\ overtaken' = overtaken \cup ({viewPending.id} \ {v, NoView})
        BY <1>3, <1>9 DEF Enqueue
    <2>2. viewCalls # {}
        BY <1>9 DEF Running
    <2>3. ViewsTypes' /\ QueueDrains'
        BY <1>1, <1>2, <1>3, <1>4, <1>5, <2>1, <2>2
           DEF EditsKept, ViewsTypes, QueueDrains, StoresFirst
    <2>4. ASSUME NEW u \in Views \ overtaken', edited'[u] # {}
          PROVE  LastSaveHas(u)'
        <3>1. CASE u = v
            BY <1>6, <1>7, <2>1, <2>4, <3>1 DEF LastSaveHas
        <3>2. CASE u # v
            <4>1. viewPending.id # u
                BY <2>1, <2>4, <3>2, ViewsAssumption
            <4>2. LastSaveHas(u)
                BY <1>4, <1>6, <2>4, <3>2 DEF EditsKept
            <4>3. QED
                BY <1>3, <1>4, <2>1, <2>4, <3>2, <4>1, <4>2 DEF LastSaveHas
        <3>3. QED
            BY <3>1, <3>2
    <2>5. QED
        BY <1>8, <2>3, <2>4 DEF EditsKept
<1>10. CASE ~Running
    <2>0. PICK call : call = Request("save", v, view)
        OBVIOUS
    <2>1. IsSave(call) /\ call.id = v /\ call.view = view /\ call.at = "sent"
        BY <2>0 DEF Request, IsSave
    <2>2. viewCalls = {} /\ viewPending = NothingPending
        BY <1>10 DEF Running, EditsKept, ViewsTypes, QueueDrains, IsSave
    <2>3. viewCalls' = {call} /\ viewPending' = NothingPending /\ overtaken' = overtaken
        BY <1>3, <1>10, <2>0, <2>2 DEF Enqueue
    <2>4. ViewsTypes' /\ QueueDrains'
        BY <1>1, <1>2, <1>3, <1>4, <1>5, <2>1, <2>3
           DEF EditsKept, ViewsTypes, QueueDrains, StoresFirst
    <2>5. ASSUME NEW u \in Views \ overtaken', edited'[u] # {}
          PROVE  LastSaveHas(u)'
        <3>1. viewPending.id # u
            BY <2>2, ViewsAssumption DEF NothingPending
        <3>2. CASE u = v
            BY <1>7, <2>1, <2>2, <2>3, <2>5, <3>1, <3>2 DEF LastSaveHas
        <3>3. CASE u # v
            <4>1. LastSaveHas(u)
                BY <1>4, <2>3, <2>5, <3>3 DEF EditsKept
            <4>2. QED
                BY <1>3, <1>4, <2>1, <2>2, <2>3, <2>5, <3>1, <3>3, <4>1 DEF LastSaveHas
        <3>4. QED
            BY <3>2, <3>3
    <2>6. QED
        BY <1>8, <2>4, <2>5 DEF EditsKept
<1>11. QED
    BY <1>9, <1>10

\* The backend stores the save there is.
LEMMA SaveHandledKeeps ==
    ASSUME EditsKept, NEW c \in viewCalls, HandleCall(c)
    PROVE  EditsKept'
<1>1. /\ IsSave(c) /\ c.id \in FirstViews /\ IsView(c.view) /\ c.at = "sent"
      /\ viewCalls = {c} /\ viewFetch = NoFetch
    BY DEF EditsKept, ViewsTypes, QueueDrains, HandleCall
<1>2. c = [op |-> "save", id |-> c.id, view |-> c.view, at |-> "sent"]
    BY <1>1 DEF IsSave
<1>3. PICK d : viewCalls' = {d} /\ d = [c EXCEPT !.at = "ok", !.view = c.view]
    <2>1. c.op = "save"
        BY <1>2
    <2>2. AnswerOf(c) = c.view
        BY <2>1 DEF AnswerOf
    <2>3. viewCalls' = (viewCalls \ {c}) \cup {[c EXCEPT !.at = "ok", !.view = AnswerOf(c)]}
        BY DEF HandleCall
    <2>4. viewCalls' = {[c EXCEPT !.at = "ok", !.view = c.view]}
        BY <1>1, <2>2, <2>3, Zenon
    <2>5. QED
        BY <2>4
<1>4. IsSave(d) /\ d.id = c.id /\ d.view = c.view /\ d.at = "ok"
    <2>0. PICK ok : ok = [c EXCEPT !.at = "ok"]
        OBVIOUS
    <2>1. ok = [op |-> "save", id |-> c.id, view |-> c.view, at |-> "ok"]
        BY <1>2, <2>0
    <2>2. d = [ok EXCEPT !.view = c.view]
        BY <1>2, <1>3, <2>0
    <2>3. d = ok
        BY <2>1, <2>2
    <2>4. QED
        BY <2>1, <2>3 DEF IsSave
<1>5. /\ views' = Put(views, c.id, c.view)
      /\ UNCHANGED <<viewCache, viewFetch, viewPending, edited, overtaken>>
    BY <1>2 DEF HandleCall, Handled
<1>6. /\ StoresFirst(views') /\ views'[c.id] = c.view
      /\ \A u \in FirstViews : u # c.id => views'[u] = views[u]
    <2>1. /\ DOMAIN views = FirstViews /\ \A u \in FirstViews : IsView(views[u])
          /\ DOMAIN views \cup {c.id} = FirstViews
        BY <1>1 DEF EditsKept, ViewsTypes, StoresFirst
    <2>2. views' = [u \in FirstViews |-> IF u = c.id THEN c.view ELSE views[u]]
        BY <1>5, <2>1 DEF Put
    <2>3. QED
        BY <1>1, <2>1, <2>2 DEF StoresFirst
<1>7. ViewsTypes' /\ QueueDrains'
    BY <1>1, <1>3, <1>4, <1>5, <1>6 DEF EditsKept, ViewsTypes, QueueDrains
<1>8. ASSUME NEW u \in Views \ overtaken, edited[u] # {}
      PROVE  LastSaveHas(u)'
    <2>1. LastSaveHas(u) /\ u \in FirstViews
        BY <1>8 DEF EditsKept, ViewsTypes
    <2>2. QED
        BY <1>1, <1>3, <1>4, <1>5, <1>6, <2>1 DEF LastSaveHas
<1>9. QED
    BY <1>5, <1>7, <1>8 DEF EditsKept

\* The page hears of it and sends what is pending, or asks for the views.
LEMMA SaveAnsweredKeeps ==
    ASSUME EditsKept, NEW c \in viewCalls, AnswerSave(c)
    PROVE  EditsKept'
<1>1. IsSave(c) /\ c.at = "ok" /\ viewCalls = {c} /\ viewFetch = NoFetch
    BY DEF EditsKept, ViewsTypes, QueueDrains, AnswerSave, IsSave
<1>2. /\ viewPending' = NothingPending
      /\ UNCHANGED <<views, viewCache, edited, overtaken>>
    BY DEF AnswerSave
<1>3. ASSUME NEW u \in Views
      PROVE  viewPending'.id # u
    BY <1>2, ViewsAssumption DEF NothingPending
<1>4. ASSUME NEW u \in Views \ overtaken, edited[u] # {}, viewPending.id # u
      PROVE  edited[u] \subseteq views[u].edits
    BY <1>1, <1>4 DEF EditsKept, LastSaveHas
<1>5. CASE viewPending = NothingPending
    <2>1. viewCalls' = {} /\ viewFetch' = Asked
        BY <1>1, <1>5 DEF AnswerSave, AfterDrain
    <2>2. ViewsTypes' /\ QueueDrains'
        BY <1>2, <2>1 DEF EditsKept, ViewsTypes, QueueDrains
    <2>3. \A u \in Views : viewPending.id # u
        BY <1>5, ViewsAssumption DEF NothingPending
    <2>4. QED
        BY <1>2, <1>3, <1>4, <2>1, <2>2, <2>3 DEF EditsKept, LastSaveHas
<1>6. CASE viewPending # NothingPending
    <2>0. PICK call : call = Request("save", viewPending.id, viewPending.view)
        OBVIOUS
    <2>1. /\ IsSave(call) /\ call.id = viewPending.id /\ call.view = viewPending.view
          /\ call.at = "sent"
        BY <2>0 DEF Request, IsSave
    <2>2. viewCalls' = {call} /\ viewFetch' = viewFetch
        BY <1>1, <1>6, <2>0 DEF AnswerSave
    <2>3. call.id \in FirstViews /\ IsView(call.view)
        BY <1>6, <2>1 DEF EditsKept, ViewsTypes
    <2>4. ViewsTypes' /\ QueueDrains'
        BY <1>1, <1>2, <2>1, <2>2, <2>3 DEF EditsKept, ViewsTypes, QueueDrains
    <2>5. ASSUME NEW u \in Views \ overtaken, edited[u] # {}
          PROVE  LastSaveHas(u)'
        <3>1. CASE viewPending.id = u
            BY <1>2, <1>3, <2>1, <2>2, <2>5, <3>1 DEF EditsKept, LastSaveHas
        <3>2. CASE viewPending.id # u
            BY <1>2, <1>3, <1>4, <2>1, <2>2, <2>5, <3>2 DEF LastSaveHas
        <3>3. QED
            BY <3>1, <3>2
    <2>6. QED
        BY <1>2, <2>4, <2>5 DEF EditsKept
<1>7. QED
    BY <1>5, <1>6

LEMMA ViewsNextInv == ViewsInv /\ [ViewsNext]_viewVars => ViewsInv'
<1> SUFFICES ASSUME ViewsInv, [ViewsNext]_viewVars
             PROVE  ViewsInv'
    OBVIOUS
<1>1. edits \in Nat /\ viewCommands \in Nat /\ viewFailures \in Nat
    BY DEF ViewsInv
<1>2. Command => viewCommands' = viewCommands + 1 /\ viewCommands' # 0 /\ viewCommands' \in Nat
    BY <1>1 DEF Command
<1>3. CASE \/ \E v \in Views : CreateDashboard(v)
           \/ \E v \in DOMAIN viewCache : RenameDashboard(v) \/ DeleteDashboard(v)
           \/ \E rank \in Orders(DOMAIN viewCache) : ReorderDashboards(rank)
           \/ ReorderUnchanged
    <2>1. Command /\ UNCHANGED <<edits, viewFailures>>
        BY <1>3 DEF CreateDashboard, RenameDashboard, DeleteDashboard, ReorderDashboards,
                    ReorderUnchanged
    <2>2. QED
        BY <1>1, <1>2, <2>1 DEF ViewsInv
<1>4. ASSUME NEW v \in DOMAIN viewCache, EditLayout(v)
      PROVE  ViewsInv'
    <2>1. edits' \in Nat /\ UNCHANGED <<viewCommands, viewFailures>>
        BY <1>1, <1>4 DEF EditLayout
    <2>2. QED
        BY <1>1, <1>4, <2>1, EditKeeps DEF ViewsInv
<1>5. ASSUME NEW c \in viewCalls, HandleCall(c)
      PROVE  ViewsInv'
    <2>1. UNCHANGED <<edits, viewCommands, viewFailures>>
        BY <1>5 DEF HandleCall, viewBounds
    <2>2. QED
        BY <1>1, <1>5, <2>1, SaveHandledKeeps DEF ViewsInv
<1>6. ASSUME NEW c \in viewCalls, FailCall(c) \/ LoseAnswer(c)
      PROVE  ViewsInv'
    <2>1. UNCHANGED <<edits, viewCommands>> /\ viewFailures' \in {viewFailures, viewFailures + 1}
        BY <1>6 DEF FailCall, LoseAnswer
    <2>2. ASSUME viewCommands = 0, viewFailures = 0
          PROVE  viewFailures' = 1
        <3>1. IsSave(c)
            BY <2>2 DEF ViewsInv, EditsKept, ViewsTypes
        <3>2. ~Rejected(c)
            BY <3>1 DEF IsSave, Rejected
        <3>3. QED
            BY <1>6, <2>2, <3>2 DEF FailCall, LoseAnswer
    <2>3. QED
        BY <1>1, <2>1, <2>2 DEF ViewsInv
<1>7. ASSUME NEW c \in viewCalls, AnswerSave(c)
      PROVE  ViewsInv'
    <2>1. UNCHANGED <<edits, viewCommands, viewFailures>>
        BY <1>7 DEF AnswerSave, viewBounds
    <2>2. QED
        BY <1>1, <1>7, <2>1, SaveAnsweredKeeps DEF ViewsInv
<1>8. ASSUME NEW c \in viewCalls, AnswerCommand(c) \/ AnswerReorder(c)
      PROVE  ViewsInv'
    <2>1. UNCHANGED <<edits, viewCommands, viewFailures>>
        BY <1>8 DEF AnswerCommand, AnswerReorder, viewBounds
    <2>2. viewCommands = 0 /\ viewFailures = 0 => IsSave(c)
        BY DEF ViewsInv, EditsKept, ViewsTypes
    <2>3. ~IsSave(c)
        BY <1>8 DEF AnswerCommand, AnswerReorder, IsSave
    <2>4. QED
        BY <1>1, <2>1, <2>2, <2>3 DEF ViewsInv
<1>9. CASE ListViews
    <2>1. /\ UNCHANGED <<edits, viewCommands, viewFailures, views, viewCache, viewPending,
                         viewCalls, edited, overtaken>>
          /\ viewFetch # NoFetch /\ viewFetch' = [at |-> "answered", answer |-> views]
        BY <1>9 DEF ListViews, NoFetch, viewBounds
    <2>2. EditsKept => EditsKept'
        BY <2>1 DEF EditsKept, ViewsTypes, QueueDrains, LastSaveHas
    <2>3. QED
        BY <1>1, <2>1, <2>2 DEF ViewsInv
<1>10. CASE ViewsArrive
    <2>1. /\ UNCHANGED <<edits, viewCommands, viewFailures, views, viewPending, viewCalls,
                         edited, overtaken>>
          /\ viewFetch.at = "answered" /\ viewFetch' = NoFetch
          /\ viewCache' = viewFetch.answer
        BY <1>10 DEF ViewsArrive, viewBounds
    <2>2. ASSUME EditsKept
          PROVE  EditsKept'
        <3>1. viewCache' = views /\ viewCalls = {} /\ viewPending = NothingPending
            BY <2>1, <2>2 DEF EditsKept, ViewsTypes, QueueDrains, NoFetch, Asked
        <3>2. \A u \in Views : viewPending.id # u
            BY <3>1, ViewsAssumption DEF NothingPending
        <3>3. ViewsTypes' /\ QueueDrains'
            BY <2>1, <2>2, <3>1 DEF EditsKept, ViewsTypes, QueueDrains
        <3>4. \A u \in Views : LastSaveHas(u)' = LastSaveHas(u)
            BY <2>1 DEF LastSaveHas
        <3>5. QED
            BY <2>1, <2>2, <3>1, <3>2, <3>3, <3>4 DEF EditsKept, LastSaveHas
    <2>3. QED
        BY <1>1, <2>1, <2>2 DEF ViewsInv
<1>11. CASE UNCHANGED viewVars
    BY <1>11 DEF viewVars, viewBounds, ViewsInv, EditsKept, ViewsTypes, QueueDrains, LastSaveHas
<1>12. QED
    BY <1>3, <1>4, <1>5, <1>6, <1>7, <1>8, <1>9, <1>10, <1>11 DEF ViewsNext, ViewsAnswer

\* In every reachable state the last save of a view has all its edits.
THEOREM ViewsInvariant == ViewsSpec => []ViewsInv
BY ViewsInitInv, ViewsNextInv, PTL DEF ViewsSpec

LEMMA ViewsInvKeeps == ViewsInv => NoEditLost
<1> SUFFICES ASSUME ViewsInv, viewFailures = 0, viewCommands = 0,
                    NEW v \in Views \ overtaken, edited[v] # {}
             PROVE  /\ edited[v] \subseteq viewCache[v].edits
                    /\ ~Running => edited[v] \subseteq views[v].edits
    BY DEF NoEditLost
<1>1. EditsKept
    BY DEF ViewsInv
<1>2. ~Running => viewCalls = {} /\ viewPending.id # v
    BY <1>1, ViewsAssumption
       DEF EditsKept, ViewsTypes, QueueDrains, Running, IsSave, NothingPending
<1>3. QED
    BY <1>1, <1>2 DEF EditsKept, LastSaveHas

\* As long as views are only edited, every edit of a view is shown, and stored when
\* the queue is idle, unless the pending edit of this view gave way to another view.
THEOREM EditsNotLost == ViewsSpec => []NoEditLost
BY ViewsInvKeeps, ViewsInvariant, PTL

-----------------------------------------------------------------------------
(***************************************************************************)
(* The views, whatever is done and fails.                                  *)
(***************************************************************************)
\* The types, whatever commands there are and whatever fails.  A store has views;
\* a call for a view has that view, one for an order has its ranks until it is
\* answered and the store after.
Stores == UNION {[vs -> View] : vs \in SUBSET Views}
RankMaps == UNION {[vs -> 0..Cardinality(Views)] : vs \in SUBSET Views}
ViewRequests ==
    [op : {"save", "create", "rename", "delete"}, id : Views, view : View,
     at : {"sent", "ok", "failed"}]
OrderRequests ==
    [op : {"reorder"}, id : {NoView}, view : RankMaps, at : {"sent", "failed"}]
    \cup [op : {"reorder"}, id : {NoView}, view : Stores, at : {"ok"}]

ViewsTyped ==
    /\ views \in Stores /\ viewCache \in Stores
    /\ viewFetch \in [at : {"none", "asked", "answered"}, answer : Stores]
    /\ viewPending = NothingPending \/ viewPending \in [id : Views, view : View]
    /\ viewCalls \subseteq ViewRequests \cup OrderRequests
    /\ \A c, d \in viewCalls : c.op = "save" /\ d.op = "save" => c = d
    /\ reorders \in Seq(RankMaps)
    /\ edits \in Nat /\ viewCommands \in Nat /\ viewFailures \in Nat
    /\ edits + viewCommands + viewFailures <= MaxViewEvents
    /\ overtaken \subseteq Views /\ unread \in BOOLEAN

\* Sets of views are finite, and no larger than all of them.
LEMMA ViewsCounted ==
    /\ Cardinality(Views) \in Nat
    /\ \A vs \in SUBSET Views : Cardinality(vs) \in Nat /\ Cardinality(vs) <= Cardinality(Views)
<1>1. ASSUME NEW vs \in SUBSET Views
      PROVE  Cardinality(vs) \in Nat /\ Cardinality(vs) <= Cardinality(Views)
    <2>1. IsFiniteSet(vs) /\ Cardinality(vs) <= Cardinality(Views)
        BY ViewsFinite, FS_Subset
    <2>2. QED
        BY <2>1, FS_CardinalityType
<1>2. QED
    BY <1>1, ViewsFinite, FS_CardinalityType

\* An order ranks views.
LEMMA OrdersRank == \A vs \in SUBSET Views : Orders(vs) \subseteq RankMaps
<1>1. ASSUME NEW vs \in SUBSET Views, NEW rank \in Orders(vs)
      PROVE  rank \in RankMaps
    <2>1. rank \in [vs -> 0..(Cardinality(vs) - 1)]
        BY DEF Orders
    <2>2. 0..(Cardinality(vs) - 1) \subseteq 0..Cardinality(Views)
        BY ViewsCounted
    <2>3. rank \in [vs -> 0..Cardinality(Views)]
        BY <2>1, <2>2
    <2>4. QED
        BY <2>3 DEF RankMaps
<1>2. QED
    BY <1>1

\* Stores
LEMMA StoresAre ==
    /\ NoViews \in Stores
    /\ \A store \in Stores :
          /\ IsStore(store) /\ DOMAIN store \in SUBSET Views
          /\ \A v \in Views, view \in View : Put(store, v, view) \in Stores
          /\ \A v \in DOMAIN store, view \in View : [store EXCEPT ![v] = view] \in Stores
          /\ \A v : [w \in DOMAIN store \ {v} |-> store[w]] \in Stores
          /\ \A rank \in RankMaps : Ranked(store, rank) \in Stores
<1>1. NoViews \in [{} -> View] /\ {} \in SUBSET Views
    BY DEF NoViews
<1>2. NoViews \in Stores
    BY <1>1 DEF Stores
<1>3. ASSUME NEW store \in Stores
      PROVE  /\ IsStore(store) /\ DOMAIN store \in SUBSET Views
             /\ \A v \in Views, view \in View : Put(store, v, view) \in Stores
             /\ \A v \in DOMAIN store, view \in View : [store EXCEPT ![v] = view] \in Stores
             /\ \A v : [w \in DOMAIN store \ {v} |-> store[w]] \in Stores
             /\ \A rank \in RankMaps : Ranked(store, rank) \in Stores
    <2>1. PICK vs \in SUBSET Views : store \in [vs -> View]
        BY DEF Stores
    <2>2. DOMAIN store = vs /\ \A v \in vs : store[v] \in View
        BY <2>1
    <2>3. ASSUME NEW v \in Views, NEW view \in View
          PROVE  Put(store, v, view) \in Stores
        <3>1. vs \cup {v} \in SUBSET Views /\ Put(store, v, view) \in [vs \cup {v} -> View]
            BY <2>2 DEF Put
        <3>2. QED
            BY <3>1 DEF Stores
    <2>4. ASSUME NEW v \in vs, NEW view \in View
          PROVE  [store EXCEPT ![v] = view] \in Stores
        <3>1. [store EXCEPT ![v] = view] \in [vs -> View]
            BY <2>1
        <3>2. QED
            BY <3>1 DEF Stores
    <2>5. ASSUME NEW v
          PROVE  [w \in DOMAIN store \ {v} |-> store[w]] \in Stores
        <3>1. vs \ {v} \in SUBSET Views
              /\ [w \in DOMAIN store \ {v} |-> store[w]] \in [vs \ {v} -> View]
            BY <2>2
        <3>2. QED
            BY <3>1 DEF Stores
    <2>6. ASSUME NEW rank \in RankMaps
          PROVE  Ranked(store, rank) \in Stores
        <3>1. \A v \in DOMAIN rank : rank[v] \in 0..Cardinality(Views)
            BY DEF RankMaps
        <3>2. ASSUME NEW v \in vs, v \in DOMAIN rank
              PROVE  [store[v] EXCEPT !.rank = rank[v]] \in View
            BY <2>2, <3>1, <3>2 DEF View
        <3>3. Ranked(store, rank) \in [vs -> View]
            BY <2>2, <3>2 DEF Ranked
        <3>4. QED
            BY <3>3 DEF Stores
    <2>7. QED
        BY <2>2, <2>3, <2>4, <2>5, <2>6 DEF IsStore
<1>4. QED
    BY <1>2, <1>3

\* Some order ranks the first views.
LEMMA FirstStoreIs == FirstStore \in Stores
<1>1. FirstViews \in SUBSET Views /\ IsFiniteSet(FirstViews)
    BY ViewsAssumption, ViewsFinite, FS_Subset
<1>2. PICK n \in Nat : n = Cardinality(FirstViews)
    BY <1>1, ViewsCounted
<1>3. ExistsBijection(FirstViews, 1..n)
    BY <1>1, <1>2, FS_CardinalityType, Fun_ExistsBijSymmetric
<1>4. PICK f \in [FirstViews -> 1..n] : IsInjective(f)
    BY <1>3 DEF ExistsBijection, Bijection, Injection
<1>5. [v \in FirstViews |-> f[v] - 1] \in Orders(FirstViews)
    <2>1. \A v \in FirstViews : f[v] - 1 \in 0..(n - 1)
        BY <1>2, <1>4
    <2>2. ASSUME NEW v \in FirstViews, NEW w \in FirstViews, f[v] - 1 = f[w] - 1
          PROVE  v = w
        <3>1. f[v] = f[w]
            BY <1>4, <2>2
        <3>2. QED
            BY <1>4, <3>1 DEF IsInjective
    <2>3. QED
        BY <1>2, <2>1, <2>2 DEF Orders
<1>6. PICK rank : rank = CHOOSE r \in Orders(FirstViews) : TRUE
    OBVIOUS
<1>7. rank \in Orders(FirstViews)
    BY <1>5, <1>6
<1>8. \A v \in FirstViews : rank[v] \in 0..Cardinality(Views)
    <2>1. rank \in [FirstViews -> 0..(n - 1)]
        BY <1>2, <1>7 DEF Orders
    <2>2. n <= Cardinality(Views) /\ Cardinality(Views) \in Nat
        BY <1>1, <1>2, ViewsCounted
    <2>3. QED
        BY <1>2, <2>1, <2>2
<1>9. FirstStore = [v \in FirstViews |-> [edits |-> {}, name |-> 0, rank |-> rank[v]]]
    BY <1>6, Zenon DEF FirstStore
<1>10. \A v \in FirstViews : [edits |-> {}, name |-> 0, rank |-> rank[v]] \in View
    BY <1>8, ViewsBounds DEF View
<1>11. FirstStore \in [FirstViews -> View]
    BY <1>9, <1>10
<1>12. QED
    BY <1>1, <1>11 DEF Stores

LEMMA ViewsInitTyped == ViewsInit => ViewsTyped
<1> SUFFICES ASSUME ViewsInit PROVE ViewsTyped
    OBVIOUS
<1>1. views \in Stores /\ viewCache \in Stores
    BY FirstStoreIs DEF ViewsInit
<1>2. viewFetch \in [at : {"none", "asked", "answered"}, answer : Stores]
    BY StoresAre DEF ViewsInit, NoFetch
<1>3. reorders \in Seq(RankMaps)
    BY DEF ViewsInit
<1>4. /\ edits \in Nat /\ viewCommands \in Nat /\ viewFailures \in Nat
      /\ edits + viewCommands + viewFailures <= MaxViewEvents
    BY ViewsBounds DEF ViewsInit
<1>5. QED
    BY <1>1, <1>2, <1>3, <1>4 DEF ViewsInit, ViewsTyped

\* What a request is, when it is made and when it was handled
LEMMA RequestsAre ==
    /\ \A op \in {"save", "create", "rename", "delete"}, v \in Views, view \in View :
          Request(op, v, view) \in ViewRequests /\ Request(op, v, view).op = op
    /\ \A rank \in RankMaps :
          Request("reorder", NoView, rank) \in OrderRequests
          /\ Request("reorder", NoView, rank).op = "reorder"
    /\ \A c \in ViewRequests :
          /\ [c EXCEPT !.at = "failed"] \in ViewRequests /\ [c EXCEPT !.at = "failed"].op = c.op
          /\ [c EXCEPT !.at = "ok", !.view = c.view] \in ViewRequests
          /\ [c EXCEPT !.at = "ok", !.view = c.view].op = c.op
    /\ \A c \in OrderRequests : c.at = "sent" =>
          /\ [c EXCEPT !.at = "failed"] \in OrderRequests /\ [c EXCEPT !.at = "failed"].op = c.op
          /\ \A store \in Stores :
                [c EXCEPT !.at = "ok", !.view = store] \in OrderRequests
                /\ [c EXCEPT !.at = "ok", !.view = store].op = c.op
<1>1. \A op \in {"save", "create", "rename", "delete"}, v \in Views, view \in View :
          Request(op, v, view) \in ViewRequests /\ Request(op, v, view).op = op
    BY DEF Request, ViewRequests
<1>2. \A rank \in RankMaps :
          Request("reorder", NoView, rank) \in OrderRequests
          /\ Request("reorder", NoView, rank).op = "reorder"
    BY DEF Request, OrderRequests
<1>3. ASSUME NEW c \in ViewRequests
      PROVE  /\ [c EXCEPT !.at = "failed"] \in ViewRequests /\ [c EXCEPT !.at = "failed"].op = c.op
             /\ [c EXCEPT !.at = "ok", !.view = c.view] \in ViewRequests
             /\ [c EXCEPT !.at = "ok", !.view = c.view].op = c.op
    BY DEF ViewRequests
<1>4. ASSUME NEW c \in OrderRequests, c.at = "sent"
      PROVE  /\ [c EXCEPT !.at = "failed"] \in OrderRequests /\ [c EXCEPT !.at = "failed"].op = c.op
             /\ \A store \in Stores :
                   [c EXCEPT !.at = "ok", !.view = store] \in OrderRequests
                   /\ [c EXCEPT !.at = "ok", !.view = store].op = c.op
    BY <1>4 DEF OrderRequests
<1>5. QED
    BY <1>1, <1>2, <1>3, <1>4

\* What the calls have in common
CallsTyped(calls) ==
    /\ calls \subseteq ViewRequests \cup OrderRequests
    /\ \A c, d \in calls : c.op = "save" /\ d.op = "save" => c = d

\* A call is added, answered, or gone.
LEMMA CallsChange ==
    ASSUME NEW calls, CallsTyped(calls)
    PROVE  /\ \A d \in ViewRequests \cup OrderRequests :
                 d.op # "save" \/ (\A c \in calls : c.op # "save") => CallsTyped(calls \cup {d})
           /\ \A c \in calls : CallsTyped(calls \ {c})
           /\ \A c \in calls, d \in ViewRequests \cup OrderRequests :
                 d.op = c.op => CallsTyped((calls \ {c}) \cup {d})
BY DEF CallsTyped

LEMMA ViewsNextTyped == ViewsTyped /\ [ViewsNext]_viewVars => ViewsTyped'
<1> SUFFICES ASSUME ViewsTyped, [ViewsNext]_viewVars
             PROVE  ViewsTyped'
    OBVIOUS
<1>0. CallsTyped(viewCalls)
    BY DEF ViewsTyped, CallsTyped
<1>1. ASSUME MoreEvents
      PROVE  edits + 1 \in 1..MaxViewEvents /\ viewCommands + 1 \in 0..MaxViewEvents
    BY <1>1, ViewsBounds DEF ViewsTyped, MoreEvents
<1>2. ASSUME Command, edits' = edits, viewFailures' = viewFailures
      PROVE  /\ edits' \in Nat /\ viewCommands' \in Nat /\ viewFailures' \in Nat
             /\ edits' + viewCommands' + viewFailures' <= MaxViewEvents
    BY <1>2, ViewsBounds DEF ViewsTyped, MoreEvents, Command
<1>3. Asked \in [at : {"none", "asked", "answered"}, answer : Stores]
      /\ NoFetch \in [at : {"none", "asked", "answered"}, answer : Stores]
    BY StoresAre DEF Asked, NoFetch
<1>4. ASSUME NEW v \in DOMAIN viewCache, EditLayout(v)
      PROVE  ViewsTyped'
    <2>0. PICK view : view = [viewCache[v] EXCEPT !.edits = @ \cup {edits + 1}]
        OBVIOUS
    <2>1. v \in Views /\ viewCache[v] \in View
        BY StoresAre DEF ViewsTyped, IsStore
    <2>2. view \in View
        BY <1>1, <1>4, <2>0, <2>1 DEF View, EditLayout
    <2>3. /\ MoreEvents /\ edits' = edits + 1
          /\ viewCache' = [viewCache EXCEPT ![v] = view]
          /\ viewFetch' = NoFetch
          /\ Enqueue(v, view)
          /\ UNCHANGED <<views, reorders, unread, viewCommands, viewFailures>>
        BY <1>4, <2>0 DEF EditLayout
    <2>4. viewCache' \in Stores
        BY <2>2, <2>3, StoresAre DEF ViewsTyped
    <2>5. /\ edits' \in Nat /\ edits' + viewCommands' + viewFailures' <= MaxViewEvents
        BY <2>3, ViewsBounds DEF ViewsTyped, MoreEvents
    <2>6. /\ CallsTyped(viewCalls') /\ overtaken' \subseteq Views
          /\ viewPending' = NothingPending \/ viewPending' \in [id : Views, view : View]
        <3>1. CASE Running
            <4>1. viewPending.id \in Views \cup {NoView}
                BY DEF ViewsTyped, NothingPending
            <4>2. QED
                BY <1>0, <2>1, <2>2, <2>3, <3>1, <4>1 DEF Enqueue, ViewsTyped
        <3>2. CASE ~Running
            <4>1. /\ Request("save", v, view) \in ViewRequests
                  /\ \A c \in viewCalls : c.op # "save"
                BY <2>1, <2>2, <3>2, RequestsAre DEF Running
            <4>2. CallsTyped(viewCalls \cup {Request("save", v, view)})
                BY <1>0, <4>1, CallsChange
            <4>3. QED
                BY <2>3, <3>2, <4>2 DEF Enqueue, ViewsTyped
        <3>3. QED
            BY <3>1, <3>2
    <2>7. QED
        BY <1>3, <2>3, <2>4, <2>5, <2>6 DEF ViewsTyped, CallsTyped
<1>5. ASSUME NEW v \in Views, NEW op \in {"create", "rename", "delete"}, NEW view \in View,
             Command, viewCalls' = viewCalls \cup {Request(op, v, view)},
             UNCHANGED <<views, viewCache, viewFetch, viewPending, reorders, edits, edited,
                         overtaken, unread, viewFailures>>
      PROVE  ViewsTyped'
    <2>1. Request(op, v, view) \in ViewRequests /\ Request(op, v, view).op # "save"
        BY RequestsAre
    <2>2. CallsTyped(viewCalls')
        BY <1>0, <1>5, <2>1, CallsChange
    <2>3. QED
        BY <1>2, <1>5, <2>2 DEF ViewsTyped, CallsTyped
<1>6. ASSUME NEW v \in Views, CreateDashboard(v)
      PROVE  ViewsTyped'
    <2>1. Cardinality(DOMAIN viewCache) \in 0..Cardinality(Views)
        BY StoresAre, ViewsCounted DEF ViewsTyped
    <2>2. [edits |-> {}, name |-> 0, rank |-> Cardinality(DOMAIN viewCache)] \in View
        BY <2>1, ViewsBounds DEF View
    <2>3. QED
        BY <1>5, <1>6, <2>2 DEF CreateDashboard
<1>7. ASSUME NEW v \in DOMAIN viewCache, RenameDashboard(v)
      PROVE  ViewsTyped'
    <2>1. v \in Views /\ viewCache[v] \in View
        BY StoresAre DEF ViewsTyped, IsStore
    <2>2. viewCommands + 1 \in 0..MaxViewEvents
        BY <1>1, <1>7 DEF RenameDashboard, Command
    <2>3. [viewCache[v] EXCEPT !.name = viewCommands + 1] \in View
        BY <2>1, <2>2 DEF View
    <2>4. QED
        BY <1>5, <1>7, <2>1, <2>3 DEF RenameDashboard
<1>8. ASSUME NEW v \in DOMAIN viewCache, DeleteDashboard(v)
      PROVE  ViewsTyped'
    <2>1. v \in Views /\ viewCache[v] \in View
        BY StoresAre DEF ViewsTyped, IsStore
    <2>2. QED
        BY <1>5, <1>8, <2>1 DEF DeleteDashboard
<1>9. ASSUME NEW rank \in Orders(DOMAIN viewCache), ReorderDashboards(rank)
      PROVE  ViewsTyped'
    <2>1. rank \in RankMaps
        BY OrdersRank, StoresAre DEF ViewsTyped
    <2>2. /\ Command /\ viewCache' = Ranked(viewCache, rank) /\ viewFetch' = NoFetch
          /\ UNCHANGED <<views, viewPending, edits, overtaken, unread, viewFailures>>
        BY <1>9 DEF ReorderDashboards
    <2>3. viewCache' \in Stores
        BY <2>1, <2>2, StoresAre DEF ViewsTyped
    <2>4. CallsTyped(viewCalls') /\ reorders' \in Seq(RankMaps)
        <3>1. CASE Reordering
            BY <1>0, <1>9, <2>1, <3>1 DEF ReorderDashboards, ViewsTyped
        <3>2. CASE ~Reordering
            <4>1. /\ viewCalls' = viewCalls \cup {Request("reorder", NoView, rank)}
                  /\ reorders' = reorders
                BY <1>9, <3>2 DEF ReorderDashboards
            <4>2. /\ Request("reorder", NoView, rank) \in OrderRequests
                  /\ Request("reorder", NoView, rank).op # "save"
                BY <2>1, RequestsAre
            <4>3. CallsTyped(viewCalls')
                BY <1>0, <4>1, <4>2, CallsChange
            <4>4. QED
                BY <4>1, <4>3 DEF ViewsTyped
        <3>3. QED
            BY <3>1, <3>2
    <2>5. QED
        BY <1>2, <1>3, <2>2, <2>3, <2>4 DEF ViewsTyped, CallsTyped
<1>10. CASE ReorderUnchanged
    <2>1. /\ Command /\ viewFetch' = NoFetch /\ unread' = (unread \/ viewFetch # NoFetch)
          /\ UNCHANGED <<views, viewCache, viewPending, viewCalls, reorders, edits, overtaken,
                         viewFailures>>
        BY <1>10 DEF ReorderUnchanged
    <2>2. QED
        BY <1>2, <1>3, <2>1 DEF ViewsTyped
<1>11. ASSUME NEW c \in viewCalls, c.at = "sent"
       PROVE  Handled(c) \in Stores
    <2>1. CASE c \in ViewRequests
        <3>1. /\ c.op \in {"save", "create", "rename", "delete"} /\ c.id \in Views
              /\ c.view \in View
            BY <2>1 DEF ViewRequests
        <3>2. CASE c.op = "delete"
            BY <3>2, StoresAre DEF Handled, ViewsTyped
        <3>3. CASE c.op # "delete"
            BY <3>1, <3>3, StoresAre DEF Handled, ViewsTyped
        <3>4. QED
            BY <3>2, <3>3
    <2>2. CASE c \in OrderRequests
        <3>1. c.op = "reorder" /\ c.view \in RankMaps
            BY <1>11, <2>2 DEF OrderRequests
        <3>2. QED
            BY <3>1, StoresAre DEF Handled, ViewsTyped
    <2>3. QED
        BY <2>1, <2>2 DEF ViewsTyped
<1>12. ASSUME NEW c \in viewCalls, HandleCall(c)
       PROVE  ViewsTyped'
    <2>1. /\ c.at = "sent" /\ views' = Handled(c)
          /\ viewCalls' = (viewCalls \ {c}) \cup {[c EXCEPT !.at = "ok", !.view = AnswerOf(c)]}
          /\ UNCHANGED <<viewCache, viewFetch, viewPending, reorders, overtaken, unread,
                         viewBounds>>
        BY <1>12 DEF HandleCall
    <2>2. views' \in Stores /\ CallsTyped(viewCalls')
        <3>1. CASE c \in ViewRequests
            <4>1. c.op \in {"save", "create", "rename", "delete"}
                BY <3>1 DEF ViewRequests
            <4>2. Handled(c) \in Stores
                BY <1>11, <2>1
            <4>3. AnswerOf(c) = c.view
                BY <4>1 DEF AnswerOf
            <4>4. PICK d : d = [c EXCEPT !.at = "ok", !.view = c.view]
                OBVIOUS
            <4>5. d \in ViewRequests /\ d.op = c.op
                BY <3>1, <4>4, RequestsAre
            <4>6. viewCalls' = (viewCalls \ {c}) \cup {d}
                BY <2>1, <4>3, <4>4, Zenon
            <4>7. QED
                BY <1>0, <2>1, <4>2, <4>5, <4>6, CallsChange
        <3>2. CASE c \in OrderRequests
            <4>1. c.op = "reorder"
                BY <3>2 DEF OrderRequests
            <4>2. Handled(c) \in Stores /\ AnswerOf(c) = Handled(c)
                BY <1>11, <2>1, <4>1 DEF AnswerOf
            <4>3. PICK d : d = [c EXCEPT !.at = "ok", !.view = AnswerOf(c)]
                OBVIOUS
            <4>4. d \in OrderRequests /\ d.op = c.op
                BY <2>1, <3>2, <4>2, <4>3, RequestsAre, ZenonT(60)
            <4>5. viewCalls' = (viewCalls \ {c}) \cup {d}
                BY <2>1, <4>3, Zenon
            <4>6. QED
                BY <1>0, <2>1, <4>2, <4>4, <4>5, CallsChange
        <3>3. QED
            BY <3>1, <3>2 DEF ViewsTyped
    <2>3. QED
        BY <2>1, <2>2 DEF ViewsTyped, CallsTyped, viewBounds
<1>13. ASSUME NEW c \in viewCalls, c.at = "sent",
              viewCalls' = (viewCalls \ {c}) \cup {[c EXCEPT !.at = "failed"]}
       PROVE  CallsTyped(viewCalls')
    <2>1. PICK d : d = [c EXCEPT !.at = "failed"]
        OBVIOUS
    <2>2. d \in ViewRequests \cup OrderRequests /\ d.op = c.op
        <3>1. CASE c \in ViewRequests
            BY <2>1, <3>1, RequestsAre
        <3>2. CASE c \in OrderRequests
            BY <1>13, <2>1, <3>2, RequestsAre
        <3>3. QED
            BY <3>1, <3>2 DEF ViewsTyped
    <2>3. QED
        BY <1>0, <1>13, <2>1, <2>2, CallsChange
<1>14. ASSUME MoreEvents, viewFailures' = viewFailures + 1, UNCHANGED <<edits, viewCommands>>
       PROVE  viewFailures' \in Nat /\ edits' + viewCommands' + viewFailures' <= MaxViewEvents
    BY <1>14, ViewsBounds DEF MoreEvents, ViewsTyped
<1>15. ASSUME NEW c \in viewCalls, FailCall(c)
       PROVE  ViewsTyped'
    <2>1. /\ c.at = "sent"
          /\ viewCalls' = (viewCalls \ {c}) \cup {[c EXCEPT !.at = "failed"]}
          /\ UNCHANGED <<views, viewCache, viewFetch, viewPending, reorders, edits, overtaken,
                         unread, viewCommands>>
        BY <1>15 DEF FailCall
    <2>2. CallsTyped(viewCalls')
        BY <1>13, <2>1
    <2>3. viewFailures' \in Nat /\ edits' + viewCommands' + viewFailures' <= MaxViewEvents
        <3>1. CASE Rejected(c)
            BY <1>15, <2>1, <3>1 DEF FailCall, ViewsTyped
        <3>2. CASE ~Rejected(c)
            BY <1>15, <1>14, <2>1, <3>2 DEF FailCall
        <3>3. QED
            BY <3>1, <3>2
    <2>4. QED
        BY <2>1, <2>2, <2>3 DEF ViewsTyped, CallsTyped
<1>16. ASSUME NEW c \in viewCalls, LoseAnswer(c)
       PROVE  ViewsTyped'
    <2>1. /\ c.at = "sent" /\ views' = Handled(c)
          /\ viewCalls' = (viewCalls \ {c}) \cup {[c EXCEPT !.at = "failed"]}
          /\ MoreEvents /\ viewFailures' = viewFailures + 1
          /\ unread' = (unread \/ c.op \in {"create", "rename", "delete"})
          /\ UNCHANGED <<viewCache, viewFetch, viewPending, reorders, edits, overtaken,
                         viewCommands>>
        BY <1>16 DEF LoseAnswer
    <2>2. views' \in Stores /\ CallsTyped(viewCalls')
        BY <1>11, <1>13, <2>1
    <2>3. viewFailures' \in Nat /\ edits' + viewCommands' + viewFailures' <= MaxViewEvents
        BY <1>14, <2>1
    <2>4. unread' \in BOOLEAN
        BY <2>1
    <2>5. QED
        BY <2>1, <2>2, <2>3, <2>4 DEF ViewsTyped, CallsTyped
<1>17. ASSUME NEW c \in viewCalls, AnswerSave(c)
       PROVE  ViewsTyped'
    <2>1. /\ c.op = "save" /\ viewPending' = NothingPending
          /\ UNCHANGED <<views, viewCache, reorders, overtaken, unread, viewBounds>>
        BY <1>17 DEF AnswerSave
    <2>2. /\ CallsTyped(viewCalls')
          /\ viewFetch' \in [at : {"none", "asked", "answered"}, answer : Stores]
        <3>1. CASE viewPending = NothingPending
            <4>1. viewCalls' = viewCalls \ {c} /\ viewFetch' = Asked
                BY <1>17, <3>1 DEF AnswerSave, AfterDrain
            <4>2. QED
                BY <1>0, <1>3, <4>1, CallsChange
        <3>2. CASE viewPending # NothingPending
            <4>1. viewPending.id \in Views /\ viewPending.view \in View
                BY <3>2 DEF ViewsTyped
            <4>2. PICK d : d = Request("save", viewPending.id, viewPending.view)
                OBVIOUS
            <4>3. d \in ViewRequests /\ d.op = c.op
                BY <2>1, <4>1, <4>2, RequestsAre
            <4>4. viewCalls' = (viewCalls \ {c}) \cup {d} /\ viewFetch' = viewFetch
                BY <1>17, <3>2, <4>2 DEF AnswerSave
            <4>5. QED
                BY <1>0, <4>3, <4>4, CallsChange DEF ViewsTyped
        <3>3. QED
            BY <3>1, <3>2
    <2>3. QED
        BY <2>1, <2>2 DEF ViewsTyped, CallsTyped, viewBounds
<1>18. ASSUME NEW c \in viewCalls, AnswerCommand(c)
       PROVE  ViewsTyped'
    <2>1. /\ c.op \in {"create", "rename", "delete"} /\ viewCalls' = viewCalls \ {c}
          /\ viewFetch' \in {Asked, viewFetch}
          /\ viewCache' \in {Put(viewCache, c.id, c.view), viewCache}
          /\ UNCHANGED <<views, viewPending, reorders, overtaken, unread, viewBounds>>
        BY <1>18 DEF AnswerCommand
    <2>2. c \in ViewRequests
        BY <2>1 DEF ViewsTyped, OrderRequests
    <2>3. c.id \in Views /\ c.view \in View
        BY <2>2 DEF ViewRequests
    <2>4. viewCache' \in Stores
        BY <2>1, <2>3, StoresAre DEF ViewsTyped
    <2>5. CallsTyped(viewCalls')
        BY <1>0, <2>1, CallsChange
    <2>6. QED
        BY <1>3, <2>1, <2>4, <2>5 DEF ViewsTyped, CallsTyped, viewBounds
<1>19. ASSUME NEW c \in viewCalls, AnswerReorder(c)
       PROVE  ViewsTyped'
    <2>1. /\ c.op = "reorder" /\ viewCache' = IF c.at = "ok" THEN c.view ELSE viewCache
          /\ viewFetch' = Asked
          /\ UNCHANGED <<views, viewPending, overtaken, unread, viewBounds>>
        BY <1>19 DEF AnswerReorder
    <2>2. c \in OrderRequests
        BY <2>1 DEF ViewsTyped, ViewRequests
    <2>3. c.at = "ok" => c.view \in Stores
        BY <2>2 DEF OrderRequests
    <2>4. viewCache' \in Stores
        BY <2>1, <2>3 DEF ViewsTyped
    <2>5. CallsTyped(viewCalls') /\ reorders' \in Seq(RankMaps)
        <3>1. CASE reorders = <<>>
            <4>1. viewCalls' = viewCalls \ {c} /\ reorders' = reorders
                BY <1>19, <3>1 DEF AnswerReorder
            <4>2. QED
                BY <1>0, <4>1, CallsChange DEF ViewsTyped
        <3>2. CASE reorders # <<>>
            <4>1. PICK d : d = Request("reorder", NoView, Head(reorders))
                OBVIOUS
            <4>2. viewCalls' = (viewCalls \ {c}) \cup {d} /\ reorders' = Tail(reorders)
                BY <1>19, <3>2, <4>1 DEF AnswerReorder
            <4>3. Head(reorders) \in RankMaps /\ Tail(reorders) \in Seq(RankMaps)
                BY <3>2 DEF ViewsTyped
            <4>4. d \in OrderRequests /\ d.op = c.op
                BY <2>1, <4>1, <4>3, RequestsAre
            <4>5. QED
                BY <1>0, <4>2, <4>3, <4>4, CallsChange
        <3>3. QED
            BY <3>1, <3>2
    <2>6. QED
        BY <1>3, <2>1, <2>4, <2>5 DEF ViewsTyped, CallsTyped, viewBounds
<1>20. CASE ListViews
    <2>1. /\ viewFetch' = [at |-> "answered", answer |-> views]
          /\ unread' = FALSE
          /\ UNCHANGED <<views, viewCache, viewPending, viewCalls, reorders, overtaken,
                         viewBounds>>
        BY <1>20 DEF ListViews
    <2>2. QED
        BY <2>1 DEF ViewsTyped, viewBounds
<1>21. CASE ViewsArrive
    <2>1. /\ viewCache' = viewFetch.answer /\ viewFetch' = NoFetch
          /\ UNCHANGED <<views, viewPending, viewCalls, reorders, overtaken, unread, viewBounds>>
        BY <1>21 DEF ViewsArrive
    <2>2. viewCache' \in Stores
        BY <2>1 DEF ViewsTyped
    <2>3. QED
        BY <1>3, <2>1, <2>2 DEF ViewsTyped, viewBounds
<1>22. CASE UNCHANGED viewVars
    BY <1>22 DEF viewVars, viewBounds, ViewsTyped
<1>23. QED
    BY <1>4, <1>6, <1>7, <1>8, <1>9, <1>12, <1>15, <1>17, <1>18, <1>19, <1>20, <1>21, <1>22,
       <1>10, <1>16 DEF ViewsNext, ViewsAnswer

LEMMA ViewsTypedOK == ViewsTyped => ViewsTypeOK
<1> SUFFICES ASSUME ViewsTyped PROVE ViewsTypeOK
    OBVIOUS
<1>1. IsStore(views) /\ IsStore(viewCache) /\ IsStore(viewFetch.answer)
    BY StoresAre DEF ViewsTyped
<1>2. \A c \in viewCalls : /\ c.op \in {"save", "create", "rename", "delete", "reorder"}
                           /\ c.at \in {"sent", "ok", "failed"}
    BY DEF ViewsTyped, ViewRequests, OrderRequests
<1>3. Cardinality({c \in viewCalls : c.op = "save"}) <= 1
    <2>1. PICK saves : saves = {c \in viewCalls : c.op = "save"}
        OBVIOUS
    <2>2. CASE saves = {}
        BY <2>1, <2>2, FS_EmptySet
    <2>3. CASE saves # {}
        <3>1. PICK c : c \in saves
            BY <2>3
        <3>2. \A d \in saves : d = c
            BY <2>1, <3>1 DEF ViewsTyped
        <3>3. saves = {c}
            BY <3>1, <3>2
        <3>4. Cardinality(saves) = 1
            BY <3>3, FS_Singleton, Zenon
        <3>5. Cardinality(saves) <= 1
            BY <3>4
        <3>6. QED
            BY <2>1, <3>5, Zenon
    <2>4. QED
        BY <2>2, <2>3
<1>4. QED
    BY <1>1, <1>2, <1>3 DEF ViewsTyped, ViewsTypeOK

\* Stores and requests stay of their types whatever fails, and no two saves are
\* under way (viewSaveQueue: running).
THEOREM ViewsAreTyped == ViewsSpec => []ViewsTypeOK
BY ViewsTypedOK, ViewsInitTyped, ViewsNextTyped, PTL DEF ViewsSpec

-----------------------------------------------------------------------------
(***************************************************************************)
(* The layout.  Its operators fold over sequences, so that what they do is *)
(* shown by induction.                                                     *)
(*                                                                         *)
(* Bottom is above no item.                                                *)
(***************************************************************************)
Ends(nodes, k) == nodes[k].y + nodes[k].h
BottomStep(nodes, k, before) == Higher(before, Ends(nodes, k))
Bottoms == INSTANCE Recursion WITH Step <- BottomStep

LEMMA BottomIs ==
    ASSUME NEW nodes, NEW n \in Nat, DOMAIN nodes = 1..n
    PROVE  Bottom(nodes) = Bottoms!Folded(nodes, 0, n, n)
<1>1. Bottom(nodes)
        = (CHOOSE g : g = [s \in SUBSET DOMAIN nodes |->
              IF s = {} THEN 0
              ELSE Higher(g[s \ {Max(s)}], nodes[Max(s)].y + nodes[Max(s)].h)])[DOMAIN nodes]
    BY Zenon DEF Bottom, FoldLeft, MapThenFoldSet
<1>2. QED
    BY <1>1, Zenon DEF Bottoms!Folded, Bottoms!Folds, Bottoms!Max, Max, BottomStep, Ends

LEMMA BottomAbove ==
    ASSUME NEW nodes, NEW n \in Nat, DOMAIN nodes = 1..n,
           \A k \in 1..n : Ends(nodes, k) \in Int
    PROVE  Bottom(nodes) \in Nat /\ \A k \in 1..n : Ends(nodes, k) <= Bottom(nodes)
<1>1. PICK bottom : bottom = [m \in Nat |-> Bottoms!Folded(nodes, 0, n, m)]
    OBVIOUS
<1>2. /\ Bottom(nodes) = bottom[n] /\ bottom[0] = 0
      /\ \A m \in Nat : m + 1 <= n => bottom[m + 1] = Higher(bottom[m], Ends(nodes, m + 1))
    BY <1>1, BottomIs, Bottoms!FoldSteps DEF BottomStep
<1> DEFINE Above(m) == bottom[m] \in Nat /\ \A k \in 1..m : Ends(nodes, k) <= bottom[m]
           S == {m \in Nat : Above(m)}
<1>3. 0 \in S
    BY <1>2
<1>4. ASSUME NEW m \in Nat, m + 1 <= n, m \in S
      PROVE  m + 1 \in S
    <2>1. bottom[m + 1] = Higher(bottom[m], Ends(nodes, m + 1)) /\ Ends(nodes, m + 1) \in Int
        BY <1>2, <1>4
    <2>2. /\ Ends(nodes, m + 1) <= bottom[m + 1] /\ bottom[m] <= bottom[m + 1]
          /\ bottom[m + 1] \in Nat
        BY <1>4, <2>1 DEF Higher
    <2>3. \A k \in 1..m : Ends(nodes, k) \in Int /\ Ends(nodes, k) <= bottom[m]
        BY <1>4
    <2>4. \A k \in 1..m : Ends(nodes, k) <= bottom[m + 1]
        BY <1>4, <2>2, <2>3
    <2>5. QED
        BY <2>2, <2>4, OneMore
<1>5. n \in S
    <2> HIDE DEF S
    <2> QED
        BY <1>3, <1>4, InductionTo
<1>6. QED
    BY <1>2, <1>5

-----------------------------------------------------------------------------
(***************************************************************************)
(* Items inside the columns, apart from each other.                        *)
(***************************************************************************)
Items == [x : Int, y : Int, w : Nat, h : Nat]
InGrid == {node \in [x : Nat, y : Nat, w : 1..Columns, h : Nat \ {0}] : node.x + node.w <= Columns}

LEMMA GridSizes ==
    /\ Columns \in Nat \ {0} /\ FallbackW \in Nat \ {0} /\ FallbackH \in Nat \ {0}
    /\ NewW \in Nat \ {0} /\ NewH \in Nat \ {0}
    /\ MaxY \in Nat /\ MaxH \in Nat
BY GridAssumption

\* What is read is in the grid, and what is in the grid is read as it is.
LEMMA SanitizeIs ==
    ASSUME NEW node \in Items
    PROVE  /\ Sanitize(node) \in InGrid
           /\ node \in InGrid => Sanitize(node) = node
<1>1. PICK w : w = Clamp(IF node.w > 0 THEN node.w ELSE FallbackW, 1, Columns)
    OBVIOUS
<1>2. PICK x : x = Clamp(node.x, 0, Columns - w)
    OBVIOUS
<1>3. PICK y : y = Higher(0, node.y)
    OBVIOUS
<1>4. PICK h : h = IF node.h > 0 THEN node.h ELSE FallbackH
    OBVIOUS
<1>5. Sanitize(node) = [x |-> x, y |-> y, w |-> w, h |-> h]
    BY <1>1, <1>2, <1>3, <1>4 DEF Sanitize
<1>6. /\ node.x \in Int /\ node.y \in Int /\ node.w \in Int /\ node.h \in Int
      /\ node = [x |-> node.x, y |-> node.y, w |-> node.w, h |-> node.h]
    BY DEF Items
<1>7. w \in 1..Columns
    BY <1>1, <1>6, GridSizes DEF Clamp
<1>8. x \in Nat /\ x + w <= Columns
    BY <1>2, <1>6, <1>7, GridSizes DEF Clamp
<1>9. y \in Nat /\ h \in Nat \ {0}
    BY <1>3, <1>4, <1>6, GridSizes DEF Higher
<1>10. Sanitize(node) \in InGrid
    BY <1>5, <1>7, <1>8, <1>9 DEF InGrid
<1>11. ASSUME node \in InGrid
       PROVE  Sanitize(node) = node
    <2>1. /\ node.x \in Nat /\ node.y \in Nat /\ node.w \in 1..Columns
          /\ node.h \in Nat \ {0} /\ node.x + node.w <= Columns
        BY <1>11 DEF InGrid
    <2>2. w = node.w
        BY <1>1, <2>1, GridSizes DEF Clamp
    <2>3. x = node.x
        BY <1>2, <2>1, <2>2, GridSizes DEF Clamp
    <2>4. y = node.y /\ h = node.h
        BY <1>3, <1>4, <2>1 DEF Higher
    <2>5. QED
        BY <1>5, <1>6, <2>2, <2>3, <2>4
<1>12. QED
    BY <1>10, <1>11

\* Items that are in the grid and apart
Apart(items) == \A j, k \in DOMAIN items : j # k => ~Overlaps(items[j], items[k])
Legal(items) == items \in Seq(InGrid) /\ Apart(items)

LEMMA InGridIs ==
    ASSUME NEW node \in InGrid
    PROVE  /\ node \in Items
           /\ node.x \in Nat /\ node.y \in Nat /\ node.w \in Nat /\ node.h \in Nat
           /\ \A y \in Nat : /\ [node EXCEPT !.y = y] \in InGrid
                             /\ [node EXCEPT !.y = y].y = y
BY GridSizes DEF InGrid, Items

\* Below all items there is place.
LEMMA BelowFits ==
    ASSUME NEW items \in Seq(InGrid), NEW node \in InGrid, node.y >= Bottom(items)
    PROVE  Fits(node, items)
<1>1. Len(items) \in Nat /\ DOMAIN items = 1..Len(items)
    OBVIOUS
<1>2. \A k \in 1..Len(items) : items[k] \in InGrid
    OBVIOUS
<1>3. \A k \in 1..Len(items) : Ends(items, k) \in Int
    BY <1>2, InGridIs DEF Ends
<1>4. \A k \in 1..Len(items) : Ends(items, k) <= Bottom(items)
    BY <1>1, <1>3, BottomAbove
<1>5. ASSUME NEW k \in 1..Len(items)
      PROVE  ~Overlaps(node, items[k])
    <2>1. items[k].y + items[k].h <= Bottom(items) /\ Bottom(items) \in Nat
        BY <1>1, <1>3, <1>4, BottomAbove DEF Ends
    <2>2. items[k].y \in Nat /\ items[k].h \in Nat /\ node.y \in Nat
        BY <1>2, InGridIs
    <2>3. ~(node.y < items[k].y + items[k].h)
        BY <2>1, <2>2
    <2>4. QED
        BY <2>3 DEF Overlaps
<1>6. QED
    BY <1>1, <1>5 DEF Fits

\* An item settles on the first row where it is free.
LEMMA SettleIs ==
    ASSUME NEW items \in Seq(InGrid), NEW node \in InGrid
    PROVE  Settle(node, items) \in InGrid /\ Fits(Settle(node, items), items)
<1> DEFINE Moved(y) == [node EXCEPT !.y = y]
           Rows == node.y..Higher(node.y, Bottom(items))
           T == {y \in Rows : Fits(Moved(y), items)}
<1>1. /\ node.y \in Nat /\ Bottom(items) \in Nat
      /\ Higher(node.y, Bottom(items)) \in Nat
      /\ node.y <= Higher(node.y, Bottom(items))
      /\ Bottom(items) <= Higher(node.y, Bottom(items))
    <2>1. Len(items) \in Nat /\ DOMAIN items = 1..Len(items)
        OBVIOUS
    <2>2. \A k \in 1..Len(items) : Ends(items, k) \in Int
        BY InGridIs DEF Ends
    <2>3. Bottom(items) \in Nat
        BY <2>1, <2>2, BottomAbove
    <2>4. QED
        BY <2>3, InGridIs DEF Higher
<1>2. \A y \in Nat : Moved(y) \in InGrid /\ Moved(y).y = y
    BY InGridIs
<1>3. \E y \in Rows : Fits(Moved(y), items)
    <2>1. PICK y : y = Higher(node.y, Bottom(items))
        OBVIOUS
    <2>2. y \in Rows /\ y \in Nat /\ Bottom(items) <= y
        BY <1>1, <2>1
    <2>3. Moved(y) \in InGrid /\ Moved(y).y >= Bottom(items)
        BY <1>1, <1>2, <2>2
    <2>4. Fits(Moved(y), items)
        BY <2>3, BelowFits
    <2>5. QED
        BY <2>2, <2>4
<1>4. T \subseteq Nat /\ T # {}
    BY <1>1, <1>3
<1>5. PICK low \in T : \A y \in T : low <= y
    <2> HIDE DEF T
    <2> QED
        BY <1>4, LeastNumber
<1>6. \A y \in node.y..(low - 1) : ~Fits(Moved(y), items)
    <2> SUFFICES ASSUME NEW y \in node.y..(low - 1)
                 PROVE  ~Fits(Moved(y), items)
        OBVIOUS
    <2>1. low \in Nat /\ low <= Higher(node.y, Bottom(items)) /\ y \in Int
        BY <1>1, <1>5
    <2>2. y \in Rows /\ ~(low <= y)
        BY <1>1, <2>1
    <2>3. QED
        BY <1>5, <2>2
<1>7. Moved(low).y = low /\ low \in Rows /\ low \in Nat
    BY <1>2, <1>4, <1>5
<1>8. \E settled \in {Moved(y) : y \in Rows} :
          /\ Fits(settled, items)
          /\ \A y \in node.y..(settled.y - 1) : ~Fits(Moved(y), items)
    BY <1>5, <1>6, <1>7
<1>9. Settle(node, items) \in {Moved(y) : y \in Rows} /\ Fits(Settle(node, items), items)
    BY <1>8 DEF Settle
<1>10. QED
    BY <1>1, <1>2, <1>9

-----------------------------------------------------------------------------
(***************************************************************************)
(* What mergeViewItemsWithGridNodes makes of items is legal.               *)
(***************************************************************************)
NoPlaces == [kept |-> <<>>, items |-> <<>>]
MergeStep(nodes, k, before) == Placed(before, Sanitize(nodes[k]))
Merges == INSTANCE Recursion WITH Step <- MergeStep

LEMMA MergeIs ==
    ASSUME NEW nodes, NEW n \in Nat, DOMAIN nodes = 1..n
    PROVE  Merge(nodes) = Merges!Folded(nodes, NoPlaces, n, n).items
<1>1. Merge(nodes)
        = (CHOOSE g : g = [s \in SUBSET DOMAIN nodes |->
              IF s = {} THEN [kept |-> <<>>, items |-> <<>>]
              ELSE Placed(g[s \ {Max(s)}], Sanitize(nodes[Max(s)]))])[DOMAIN nodes].items
    BY Zenon DEF Merge, FoldLeft, MapThenFoldSet
<1>2. QED
    BY <1>1, Zenon DEF Merges!Folded, Merges!Folds, Merges!Max, Max, MergeStep, NoPlaces

\* One item more
LEMMA AppendIsLegal ==
    ASSUME NEW items, Legal(items), NEW node \in InGrid, Fits(node, items)
    PROVE  Legal(Append(items, node))
<1>1. PICK all : all = Append(items, node)
    OBVIOUS
<1>2. /\ items \in Seq(InGrid) /\ Len(items) \in Nat /\ DOMAIN items = 1..Len(items)
      /\ all \in Seq(InGrid) /\ DOMAIN all = 1..(Len(items) + 1)
      /\ all[Len(items) + 1] = node
      /\ \A k \in 1..Len(items) : all[k] = items[k]
    BY <1>1 DEF Legal
<1>3. \A k \in 1..(Len(items) + 1) : k \in 1..Len(items) \/ k = Len(items) + 1
    BY <1>2
<1>4. \A j, k \in 1..Len(items) : j # k => ~Overlaps(all[j], all[k])
    BY <1>2 DEF Legal, Apart
<1>5. ASSUME NEW k \in 1..Len(items)
      PROVE  ~Overlaps(all[Len(items) + 1], all[k]) /\ ~Overlaps(all[k], all[Len(items) + 1])
    <2>1. ~Overlaps(node, items[k]) /\ items[k] \in InGrid
        BY <1>2 DEF Fits
    <2>2. /\ node.x \in Nat /\ node.y \in Nat /\ node.w \in Nat /\ node.h \in Nat
          /\ items[k].x \in Nat /\ items[k].y \in Nat /\ items[k].w \in Nat /\ items[k].h \in Nat
        BY <2>1, InGridIs
    <2>3. ~Overlaps(items[k], node)
        BY <2>1, <2>2 DEF Overlaps
    <2>4. QED
        BY <1>2, <2>1, <2>3
<1>6. Apart(all)
    BY <1>2, <1>3, <1>4, <1>5 DEF Apart
<1>7. QED
    BY <1>1, <1>2, <1>6 DEF Legal

LEMMA MergeIsLegal ==
    ASSUME NEW items \in Seq(Items)
    PROVE  Legal(Merge(items))
<1> DEFINE n == Len(items)
<1>1. n \in Nat /\ DOMAIN items = 1..n /\ \A k \in 1..n : items[k] \in Items
    OBVIOUS
<1>2. PICK placed : placed = [m \in Nat |-> Merges!Folded(items, NoPlaces, n, m)]
    OBVIOUS
<1>3. /\ Merge(items) = placed[n].items /\ placed[0] = NoPlaces
      /\ \A m \in Nat : m + 1 <= n => placed[m + 1] = Placed(placed[m], Sanitize(items[m + 1]))
    BY <1>1, <1>2, MergeIs, Merges!FoldSteps DEF MergeStep
<1> DEFINE Good(m) == /\ placed[m] = [kept |-> placed[m].items, items |-> placed[m].items]
                      /\ Legal(placed[m].items)
           S == {m \in Nat : Good(m)}
<1>4. 0 \in S
    <2>1. Legal(<<>>)
        BY DEF Legal, Apart
    <2>2. QED
        BY <1>3, <2>1 DEF NoPlaces
<1>5. ASSUME NEW m \in Nat, m + 1 <= n, m \in S
      PROVE  m + 1 \in S
    <2>1. placed[m + 1] = Placed(placed[m], Sanitize(items[m + 1]))
        BY <1>3, <1>5
    <2>2. PICK before : before = placed[m].items
        OBVIOUS
    <2>3. placed[m] = [kept |-> before, items |-> before] /\ Legal(before)
        BY <1>5, <2>2
    <2>4. PICK node : node = Sanitize(items[m + 1])
        OBVIOUS
    <2>5. node \in InGrid
        BY <1>1, <1>5, <2>4, SanitizeIs
    <2>6. PICK settled : settled = Settle(node, before)
        OBVIOUS
    <2>7. settled \in InGrid /\ Fits(settled, before)
        BY <2>3, <2>5, <2>6, SettleIs DEF Legal
    <2>8. Legal(Append(before, settled))
        BY <2>3, <2>7, AppendIsLegal
    <2>9. placed[m + 1] = [kept |-> Append(before, settled), items |-> Append(before, settled)]
        BY <2>1, <2>3, <2>4, <2>6 DEF Placed
    <2>10. m + 1 \in Nat
        OBVIOUS
    <2>11. placed[m + 1].items = Append(before, settled)
        BY <2>9
    <2>12. Good(m + 1)
        BY <2>8, <2>9, <2>11
    <2>13. QED
        BY <2>10, <2>12
<1>6. n \in S
    <2> HIDE DEF S
    <2> QED
        BY <1>1, <1>4, <1>5, InductionTo
<1>7. QED
    BY <1>3, <1>6

-----------------------------------------------------------------------------
(***************************************************************************)
(* Where a widget is added                                                 *)
(***************************************************************************)
LEMMA FirstAvailableIs ==
    ASSUME NEW items \in Seq(Items)
    PROVE  /\ FirstAvailable(items) \in InGrid
           /\ items \in Seq(InGrid) => Fits(FirstAvailable(items), items)
<1> DEFINE w == Clamp(NewW, 1, Columns)
           occupied == [k \in DOMAIN items |-> Sanitize(items[k])]
           PutAt(x, y) == [x |-> x, y |-> y, w |-> w, h |-> NewH]
           Spots(y) == {x \in 0..(Columns - w) : Fits(PutAt(x, y), occupied)}
           Rows == 0..Bottom(occupied)
           Free(y) == Spots(y) # {} /\ \A above \in 0..(y - 1) : Spots(above) = {}
           row == CHOOSE y \in Rows : Free(y)
           column == CHOOSE x \in Spots(row) : \A other \in Spots(row) : x <= other
<1>1. FirstAvailable(items) = PutAt(column, row)
    BY Zenon DEF FirstAvailable
<1>2. /\ Len(items) \in Nat /\ DOMAIN items = 1..Len(items)
      /\ \A k \in 1..Len(items) : items[k] \in Items
    OBVIOUS
<1>3. occupied \in Seq(InGrid) /\ DOMAIN occupied = 1..Len(items)
    BY <1>2, SanitizeIs
<1>4. Bottom(occupied) \in Nat
    <2>1. \A k \in 1..Len(items) : occupied[k] \in InGrid
        BY <1>3
    <2> HIDE DEF occupied
    <2>2. \A k \in 1..Len(items) : Ends(occupied, k) \in Int
        BY <2>1, InGridIs DEF Ends
    <2>3. QED
        BY <1>2, <1>3, <2>2, BottomAbove
<1>5. w \in 1..Columns /\ Columns - w \in Nat
    BY GridSizes DEF Clamp
<1> HIDE DEF w, occupied
<1>6. ASSUME NEW x \in 0..(Columns - w), NEW y \in Nat
      PROVE  PutAt(x, y) \in InGrid /\ PutAt(x, y).y = y
    <2>1. x \in Nat /\ x + w <= Columns
        BY <1>5, GridSizes
    <2>2. QED
        BY <1>5, <2>1, GridSizes DEF InGrid
<1>7. 0 \in Spots(Bottom(occupied))
    <2>1. 0 \in 0..(Columns - w)
        BY <1>5
    <2>2. PutAt(0, Bottom(occupied)) \in InGrid /\ PutAt(0, Bottom(occupied)).y = Bottom(occupied)
        BY <1>4, <1>6, <2>1
    <2>3. PutAt(0, Bottom(occupied)).y >= Bottom(occupied)
        BY <1>4, <2>2
    <2>4. Fits(PutAt(0, Bottom(occupied)), occupied)
        BY <1>3, <2>2, <2>3, BelowFits
    <2>5. QED
        BY <2>1, <2>4
<1>8. \E y \in Rows : Free(y)
    <2> DEFINE T == {y \in Rows : Spots(y) # {}}
    <2>1. T \subseteq Nat /\ T # {}
        BY <1>4, <1>7
    <2>2. PICK y \in T : \A other \in T : y <= other
        <3> HIDE DEF T
        <3> QED
            BY <2>1, LeastNumber
    <2>3. ASSUME NEW above \in 0..(y - 1)
          PROVE  Spots(above) = {}
        <3>1. above \in Rows /\ ~(y <= above)
            BY <1>4, <2>2
        <3>2. QED
            BY <2>2, <3>1
    <2>4. QED
        BY <2>2, <2>3
<1>9. row \in Rows /\ Free(row)
    <2> HIDE DEF Free, Rows
    <2> QED
        BY <1>8
<1>10. row \in Nat
    BY <1>4, <1>9
<1> HIDE DEF row
<1>11. column \in Spots(row)
    <2>1. Spots(row) \subseteq Nat /\ Spots(row) # {}
        BY <1>5, <1>9
    <2> HIDE DEF Spots
    <2>2. \E x \in Spots(row) : \A other \in Spots(row) : x <= other
        BY <2>1, LeastNumber
    <2>3. QED
        BY <2>2
<1> HIDE DEF column
<1>12. PutAt(column, row) \in InGrid /\ Fits(PutAt(column, row), occupied)
    BY <1>6, <1>10, <1>11
<1>13. ASSUME items \in Seq(InGrid)
       PROVE  Fits(PutAt(column, row), items)
    <2>1. \A k \in 1..Len(items) : items[k] \in InGrid /\ items[k] \in Items
        BY <1>2, <1>13
    <2>2. \A k \in 1..Len(items) : occupied[k] = items[k]
        BY <1>2, <2>1, SanitizeIs DEF occupied
    <2>3. QED
        BY <1>2, <1>3, <1>12, <2>2 DEF Fits
<1>14. QED
    BY <1>1, <1>12, <1>13

-----------------------------------------------------------------------------
\* What is stored may be anything; once it was read from the grid it is legal.
GridInv ==
    /\ merged \in BOOLEAN
    /\ grid \in Seq(Items)
    /\ merged => Legal(grid)

LEMMA NodesAre ==
    Nodes \subseteq Items /\ Read \subseteq InGrid /\ InGrid \subseteq Items
<1>1. ASSUME NEW node \in Nodes
      PROVE  node \in Items
    <2>1. /\ -1..(Columns - 1) \subseteq Int /\ -1..MaxY \subseteq Int
          /\ 0..Columns \subseteq Nat /\ 0..MaxH \subseteq Nat
        OBVIOUS
    <2>2. QED
        BY <2>1 DEF Nodes, Items
<1>2. QED
    BY <1>1, SanitizeIs, InGridIs DEF Read

LEMMA GridInitInv == GridInit => GridInv
<1> SUFFICES ASSUME GridInit
             PROVE  GridInv
    OBVIOUS
<1>1. grid = <<>> \/ \E a, b \in Nodes : grid = <<a, b>>
    BY DEF GridInit
<1>2. \A a, b \in Nodes : a \in Items /\ b \in Items
    BY NodesAre
<1>3. grid \in Seq(Items)
    <2>1. \A a, b \in Items : <<a, b>> \in Seq(Items)
        OBVIOUS
    <2>2. CASE grid = <<>>
        BY <2>2
    <2>3. CASE grid # <<>>
        <3>1. PICK a \in Nodes, b \in Nodes : grid = <<a, b>>
            BY <1>1, <2>3, Zenon
        <3>2. QED
            BY <1>2, <2>1, <3>1, Zenon
    <2>4. QED
        BY <2>2, <2>3
<1>4. merged \in BOOLEAN /\ (merged => grid = <<>>)
    BY DEF GridInit
<1>5. Legal(<<>>)
    BY DEF Legal, Apart
<1>6. QED
    BY <1>3, <1>4, <1>5 DEF GridInv

LEMMA GridNextInv == GridInv /\ [GridNext]_gridVars => GridInv'
<1> SUFFICES ASSUME GridInv, [GridNext]_gridVars
             PROVE  GridInv'
    OBVIOUS
<1>1. ASSUME NEW items \in Seq(Items), grid' = Merge(items), merged' = TRUE
      PROVE  GridInv'
    <2>1. Legal(grid')
        BY <1>1, MergeIsLegal
    <2>2. grid' \in Seq(Items)
        BY <2>1, NodesAre DEF Legal
    <2>3. QED
        BY <1>1, <2>1, <2>2 DEF GridInv, Legal, Apart
<1>2. CASE HandleAddWidget
    <2>1. PICK node : node = FirstAvailable(grid)
        OBVIOUS
    <2>2. /\ grid \in Seq(Items) /\ node \in InGrid /\ node \in Items
          /\ grid \in Seq(InGrid) => Fits(node, grid)
        BY <2>1, FirstAvailableIs, NodesAre DEF GridInv
    <2>3. grid' = Append(grid, node) /\ merged' = merged
        BY <1>2, <2>1 DEF HandleAddWidget
    <2>4. grid' \in Seq(Items)
        BY <2>2, <2>3
    <2>5. merged => Legal(grid')
        BY <2>2, <2>3, AppendIsLegal DEF GridInv, Legal
    <2>6. QED
        BY <2>3, <2>4, <2>5 DEF GridInv, Legal, Apart
<1>3. ASSUME NEW k \in DOMAIN grid, HandleDeleteWidget(k)
      PROVE  GridInv'
    <2>1. PICK items : items = [i \in 1..(Len(grid) - 1) |-> IF i < k THEN grid[i] ELSE grid[i + 1]]
        OBVIOUS
    <2>2. Len(grid) \in Nat /\ DOMAIN grid = 1..Len(grid) /\ grid \in Seq(Items)
        BY DEF GridInv
    <2>3. Len(grid) - 1 \in Nat /\ k \in 1..Len(grid)
        BY <2>2
    <2>4. \A i \in 1..(Len(grid) - 1) : items[i] \in Items
        BY <2>1, <2>2, <2>3
    <2>5. items \in Seq(Items)
        BY <2>1, <2>3, <2>4
    <2>6. QED
        BY <1>1, <1>3, <2>1, <2>5 DEF HandleDeleteWidget
<1>4. ASSUME NEW k \in DOMAIN grid, NEW node \in Read, HandleGridChange(k, node)
      PROVE  GridInv'
    <2>1. [grid EXCEPT ![k] = node] \in Seq(Items)
        BY NodesAre DEF GridInv
    <2>2. QED
        BY <1>1, <1>4, <2>1 DEF HandleGridChange
<1>5. CASE UNCHANGED gridVars
    BY <1>5 DEF gridVars, GridInv, Legal, Apart
<1>6. QED
    BY <1>2, <1>3, <1>4, <1>5 DEF GridNext

\* Once the items were read from the grid they are legal, in every reachable state.
THEOREM GridInvariant == GridSpec => []GridInv
BY GridInitInv, GridNextInv, PTL DEF GridSpec

LEMMA GridInvLegal == GridInv => GridLegal
<1> SUFFICES ASSUME GridInv, merged
             PROVE  /\ \A k \in DOMAIN grid : grid[k] = Sanitize(grid[k])
                    /\ \A j, k \in DOMAIN grid : j # k => ~Overlaps(grid[j], grid[k])
    BY DEF GridLegal
<1>1. grid \in Seq(InGrid) /\ Apart(grid)
    BY DEF GridInv, Legal
<1>2. \A k \in DOMAIN grid : grid[k] \in InGrid /\ grid[k] \in Items
    BY <1>1, NodesAre
<1>3. QED
    BY <1>1, <1>2, SanitizeIs DEF Apart

LEMMA GridInvTyped == GridInv => GridTypeOK
<1> SUFFICES ASSUME GridInv PROVE \A k \in DOMAIN grid : grid[k] \in Items
    BY DEF GridTypeOK, Items
<1>1. grid \in Seq(Items)
    BY DEF GridInv
<1>2. QED
    BY <1>1

\* Once the items were read from the grid they are inside the columns and apart,
\* whatever was stored, whatever GridStack reports and wherever a widget is added,
\* for any sizes of the grid and any number of widgets.
THEOREM WidgetsStayApart == GridSpec => []GridLegal
BY GridInvLegal, GridInvariant, PTL

-----------------------------------------------------------------------------
(***************************************************************************)
(* The tabs.  The order that is kept and the views are merged by a fold    *)
(* over both, one after the other.                                         *)
(***************************************************************************)
OrderStep(p, k, before) == Seen(p.views, before, p.named[k])
Namings == INSTANCE Recursion WITH Step <- OrderStep

LEMMA OrderIs ==
    ASSUME NEW l, NEW ids, NEW n \in Nat, DOMAIN (ids \o l) = 1..n
    PROVE  MergeOrderedViewIds(l, ids)
             = Namings!Folded([views |-> l, named |-> ids \o l], <<>>, n, n)
<1> DEFINE all == ids \o l
           p == [views |-> l, named |-> all]
           InOrder(g) ==
               g = [s \in SUBSET DOMAIN all |->
                       IF s = {} THEN <<>> ELSE Seen(l, g[s \ {Max(s)}], all[Max(s)])]
<1>1. MergeOrderedViewIds(l, ids) = (CHOOSE g : InOrder(g))[DOMAIN all]
    BY Zenon DEF MergeOrderedViewIds, FoldLeft, MapThenFoldSet
<1>2. \A g : InOrder(g) <=> Namings!Folds(p, <<>>, n, g)
    BY DEF Namings!Folds, Namings!Max, Max, OrderStep
<1>3. (CHOOSE g : InOrder(g)) = (CHOOSE g : Namings!Folds(p, <<>>, n, g))
    <2> HIDE DEF InOrder
    <2> QED
        BY <1>2, Zenon
<1>4. QED
    <2> HIDE DEF InOrder
    <2> QED
        BY <1>1, <1>3, Zenon DEF Namings!Folded

DashboardLists == {l \in Seq(Dashboards) : IsInjective(l)}

\* A view comes after those that are named before it.
InTurn(all, seen) ==
    \A i, j \in DOMAIN seen : \A m \in DOMAIN all :
        i < j /\ all[m] = seen[j] => \E h \in 1..(m - 1) : all[h] = seen[i]

\* What the first n ids are merged to
MergedOf(l, all, n, seen) ==
    /\ seen \in DashboardLists
    /\ ToSet(seen) = {all[m] : m \in 1..n} \cap ToSet(l)
    /\ InTurn(all, seen)

LEMMA ListIs ==
    ASSUME NEW l \in Seq(Dashboards)
    PROVE  /\ Len(l) \in Nat /\ DOMAIN l = 1..Len(l)
           /\ ToSet(l) \subseteq Dashboards
           /\ \A i \in 1..Len(l) : l[i] \in Dashboards /\ l[i] \in ToSet(l)
           /\ \A v : Contains(l, v) <=> v \in ToSet(l)
BY DEF ToSet, Contains

LEMMA SeenKeeps ==
    ASSUME NEW l \in Seq(Dashboards), NEW all \in Seq(Dashboards),
           NEW n \in Nat, n + 1 \in DOMAIN all,
           NEW seen, MergedOf(l, all, n, seen)
    PROVE  MergedOf(l, all, n + 1, Seen(l, seen, all[n + 1]))
<1> DEFINE v == all[n + 1]
<1>1. /\ seen \in Seq(Dashboards) /\ Len(seen) \in Nat /\ DOMAIN seen = 1..Len(seen)
      /\ v \in Dashboards /\ DOMAIN all = 1..Len(all) /\ Len(all) \in Nat
      /\ \A u : Contains(seen, u) <=> u \in ToSet(seen)
      /\ \A u : Contains(l, u) <=> u \in ToSet(l)
    BY ListIs DEF MergedOf, DashboardLists
<1>2. {all[m] : m \in 1..(n + 1)} = {all[m] : m \in 1..n} \cup {v}
    <2>1. 1..(n + 1) = (1..n) \cup {n + 1}
        OBVIOUS
    <2>2. QED
        BY <2>1
<1>3. CASE v \in ToSet(l) /\ v \notin ToSet(seen)
    <2>1. PICK new : new = Append(seen, v)
        OBVIOUS
    <2>2. Seen(l, seen, v) = new
        BY <1>1, <1>3, <2>1 DEF Seen
    <2>3. /\ new \in Seq(Dashboards) /\ DOMAIN new = 1..(Len(seen) + 1)
          /\ new[Len(seen) + 1] = v
          /\ \A i \in 1..Len(seen) : new[i] = seen[i]
        BY <1>1, <2>1
    <2>4. \A i \in 1..(Len(seen) + 1) : i \in 1..Len(seen) \/ i = Len(seen) + 1
        BY <1>1
    <2>5. \A i \in 1..Len(seen) : new[i] \in ToSet(seen)
        BY <1>1, <2>3 DEF ToSet
    <2>6. IsInjective(new)
        <3>1. \A i, j \in 1..Len(seen) : new[i] = new[j] => i = j
            BY <1>1, <2>3 DEF MergedOf, DashboardLists, IsInjective
        <3>2. \A i \in 1..Len(seen) : new[i] # new[Len(seen) + 1]
            BY <1>3, <2>3, <2>5
        <3>3. QED
            BY <2>3, <2>4, <3>1, <3>2 DEF IsInjective
    <2>7. ToSet(new) = ToSet(seen) \cup {v}
        <3>1. ToSet(seen) = {seen[i] : i \in 1..Len(seen)}
            BY <1>1 DEF ToSet
        <3>2. ToSet(new) = {new[i] : i \in 1..(Len(seen) + 1)}
            BY <2>3 DEF ToSet
        <3>3. 1..Len(seen) \subseteq 1..(Len(seen) + 1) /\ Len(seen) + 1 \in 1..(Len(seen) + 1)
            BY <1>1
        <3>4. QED
            BY <2>3, <2>4, <3>1, <3>2, <3>3
    <2>8. ToSet(new) = {all[m] : m \in 1..(n + 1)} \cap ToSet(l)
        BY <1>2, <1>3, <2>7 DEF MergedOf
    <2>9. ASSUME NEW i \in DOMAIN new, NEW j \in DOMAIN new, NEW m \in DOMAIN all,
                 i < j, all[m] = new[j]
          PROVE  \E h \in 1..(m - 1) : all[h] = new[i]
        <3>1. i \in 1..Len(seen) /\ m \in Nat
            BY <1>1, <2>3, <2>9
        <3>2. CASE j \in 1..Len(seen)
            BY <1>1, <2>3, <2>9, <3>1, <3>2 DEF MergedOf, InTurn
        <3>3. CASE j = Len(seen) + 1
            <4>1. all[m] = v
                BY <2>3, <2>9, <3>3
            <4>2. m \notin 1..n
                BY <1>3, <4>1 DEF MergedOf
            <4>3. n < m
                BY <1>1, <3>1, <4>2
            <4>4. PICK h \in 1..n : all[h] = new[i]
                BY <2>5, <3>1 DEF MergedOf
            <4>5. h \in 1..(m - 1)
                BY <3>1, <4>3
            <4>6. QED
                BY <4>4, <4>5
        <3>4. QED
            BY <2>3, <2>4, <3>2, <3>3
    <2>10. InTurn(all, new)
        BY <2>9 DEF InTurn
    <2>11. QED
        BY <2>2, <2>3, <2>6, <2>8, <2>10 DEF MergedOf, DashboardLists
<1>4. CASE ~(v \in ToSet(l) /\ v \notin ToSet(seen))
    <2>1. Seen(l, seen, v) = seen
        BY <1>1, <1>4 DEF Seen
    <2>2. ToSet(seen) = {all[m] : m \in 1..(n + 1)} \cap ToSet(l)
        BY <1>2, <1>4 DEF MergedOf
    <2>3. QED
        BY <2>1, <2>2, SMTT(30) DEF MergedOf
<1>5. QED
    BY <1>3, <1>4

\* The views that are there, each one once, in the order in which they are named
\* first by the order that is kept or by the list.
LEMMA MergedIs ==
    ASSUME NEW l \in Seq(Dashboards), NEW ids \in Seq(Dashboards)
    PROVE  /\ MergeOrderedViewIds(l, ids) \in DashboardLists
           /\ ToSet(MergeOrderedViewIds(l, ids)) = ToSet(l)
           /\ InTurn(ids \o l, MergeOrderedViewIds(l, ids))
<1>1. PICK all : all = ids \o l
    OBVIOUS
<1>2. PICK n : n = Len(all)
    OBVIOUS
<1>3. all \in Seq(Dashboards) /\ n \in Nat /\ DOMAIN all = 1..n
    BY <1>1, <1>2
<1> DEFINE of == [views |-> l, named |-> all]
<1>4. PICK seen : seen = [m \in Nat |-> Namings!Folded(of, <<>>, n, m)]
    OBVIOUS
<1>5. /\ MergeOrderedViewIds(l, ids) = seen[n] /\ seen[0] = <<>>
      /\ \A m \in Nat : m + 1 <= n => seen[m + 1] = Seen(l, seen[m], all[m + 1])
    <2>1. of.views = l /\ of.named = all
        OBVIOUS
    <2>2. MergeOrderedViewIds(l, ids) = seen[n]
        BY <1>1, <1>3, <1>4, OrderIs
    <2>3. PICK p : p = of
        OBVIOUS
    <2>4. p.views = l /\ p.named = all /\ seen = [m \in Nat |-> Namings!Folded(p, <<>>, n, m)]
        BY <1>4, <2>1, <2>3
    <2> HIDE DEF of
    <2>5. /\ Namings!Folded(p, <<>>, n, 0) = <<>>
          /\ \A m \in Nat : m + 1 <= n =>
                Namings!Folded(p, <<>>, n, m + 1)
                  = OrderStep(p, m + 1, Namings!Folded(p, <<>>, n, m))
        BY <1>3, Namings!FoldSteps, ZenonT(60)
    <2>6. \A m, before : OrderStep(p, m, before) = Seen(l, before, all[m])
        BY <2>4, Zenon DEF OrderStep
    <2>7. seen[0] = <<>>
        BY <2>4, <2>5
    <2>8. ASSUME NEW m \in Nat, m + 1 <= n
          PROVE  seen[m + 1] = Seen(l, seen[m], all[m + 1])
        <3>1. /\ seen[m] = Namings!Folded(p, <<>>, n, m)
              /\ seen[m + 1] = Namings!Folded(p, <<>>, n, m + 1)
            BY <2>4, OneMore, Zenon
        <3>2. QED
            BY <2>5, <2>6, <2>8, <3>1, Zenon
    <2>9. QED
        BY <2>2, <2>7, <2>8
<1> HIDE DEF of
<1> DEFINE S == {m \in Nat : MergedOf(l, all, m, seen[m])}
<1>6. 0 \in S
    <2>1. MergedOf(l, all, 0, <<>>)
        BY DEF MergedOf, DashboardLists, IsInjective, ToSet, InTurn
    <2>2. QED
        BY <1>5, <2>1
<1>7. ASSUME NEW m \in Nat, m + 1 <= n, m \in S
      PROVE  m + 1 \in S
    <2>1. m + 1 \in Nat /\ m + 1 \in DOMAIN all /\ MergedOf(l, all, m, seen[m])
        BY <1>3, <1>7
    <2>2. MergedOf(l, all, m + 1, seen[m + 1])
        BY <1>3, <1>5, <1>7, <2>1, SeenKeeps
    <2>3. QED
        BY <2>1, <2>2
<1>8. n \in S
    <2> HIDE DEF S
    <2> QED
        BY <1>3, <1>6, <1>7, InductionTo
<1>9. MergedOf(l, all, n, seen[n])
    BY <1>8
<1>10. ToSet(l) \subseteq {all[m] : m \in 1..n}
    <2>1. ASSUME NEW i \in DOMAIN l
          PROVE  \E m \in 1..n : l[i] = all[m]
        <3>1. Len(ids) + i \in 1..n /\ all[Len(ids) + i] = l[i]
            BY <1>1, <1>2
        <3>2. QED
            BY <3>1
    <2>2. QED
        BY <2>1 DEF ToSet
<1>11. QED
    BY <1>1, <1>5, <1>9, <1>10 DEF MergedOf

\* A list has as many entries as views.
LEMMA ListSize ==
    ASSUME NEW l \in DashboardLists
    PROVE  IsFiniteSet(ToSet(l)) /\ Cardinality(ToSet(l)) = Len(l)
<1>1. l \in Seq(Dashboards) /\ Len(l) \in Nat /\ DOMAIN l = 1..Len(l) /\ IsInjective(l)
    BY ListIs DEF DashboardLists
<1>2. l \in [1..Len(l) -> ToSet(l)]
    BY <1>1 DEF ToSet
<1>3. l \in Surjection(1..Len(l), ToSet(l))
    BY <1>1, <1>2 DEF ToSet, Surjection
<1>4. l \in Injection(1..Len(l), ToSet(l))
    BY <1>1, <1>2 DEF Injection, IsInjective
<1>5. IsFiniteSet(1..Len(l)) /\ Cardinality(1..Len(l)) = Len(l)
    BY <1>1, FS_Interval, SMTT(30)
<1>6. QED
    BY <1>3, <1>4, <1>5, FS_Surjection

LEMMA MoreViews ==
    ASSUME NEW k \in DashboardLists, NEW l \in DashboardLists, ToSet(k) \subseteq ToSet(l)
    PROVE  Len(k) <= Len(l)
BY ListSize, FS_Subset

\* A list that lacks one view of another and is shorter brings no other view.
LEMMA LosesOne ==
    ASSUME NEW k \in DashboardLists, NEW l \in DashboardLists,
           Cardinality(ToSet(k) \ ToSet(l)) = 1, Len(l) < Len(k)
    PROVE  ToSet(l) \subseteq ToSet(k) /\ Len(k) = Len(l) + 1
<1>1. /\ IsFiniteSet(ToSet(k)) /\ Cardinality(ToSet(k)) = Len(k)
      /\ IsFiniteSet(ToSet(l)) /\ Cardinality(ToSet(l)) = Len(l)
      /\ Len(k) \in Nat /\ Len(l) \in Nat
    BY ListSize, ListIs DEF DashboardLists
<1>2. PICK both : both = ToSet(k) \cap ToSet(l)
    OBVIOUS
<1>3. Cardinality(both) = Len(k) - 1 /\ both \in SUBSET ToSet(l)
    <2>1. /\ Cardinality(ToSet(k) \ ToSet(l)) = Cardinality(ToSet(k)) - Cardinality(both)
          /\ IsFiniteSet(both)
        BY <1>1, <1>2, FS_Difference, FS_Intersection
    <2>2. Cardinality(both) \in Nat
        BY <2>1, FS_CardinalityType
    <2>3. QED
        BY <1>1, <1>2, <2>1, <2>2
<1>4. Cardinality(both) <= Len(l) /\ (Len(l) = Cardinality(both) => ToSet(l) = both)
    BY <1>1, <1>3, FS_Subset
<1>5. QED
    BY <1>1, <1>2, <1>3, <1>4

LEMMA JoinIs ==
    ASSUME NEW s \in Seq(Dashboards), NEW t \in Seq(Dashboards)
    PROVE  /\ DOMAIN (s \o t) = 1..(Len(s) + Len(t))
           /\ \A m \in 1..Len(s) : (s \o t)[m] = s[m]
           /\ \A m \in 1..Len(t) : (s \o t)[Len(s) + m] = t[m]
OBVIOUS

\* A view keeps the last place when the views that go leave the others in order.
LEMMA LastStays ==
    ASSUME NEW k \in DashboardLists, NEW l \in DashboardLists, NEW ids \in Seq(Dashboards),
           ToSet(l) \subseteq ToSet(k), SameOrder(k, l),
           NEW v \in ToSet(l),
           MergeOrderedViewIds(k, ids)[Len(MergeOrderedViewIds(k, ids))] = v
    PROVE  MergeOrderedViewIds(l, ids)[Len(MergeOrderedViewIds(l, ids))] = v
<1> DEFINE old == MergeOrderedViewIds(k, ids)
           new == MergeOrderedViewIds(l, ids)
<1>1. old[Len(old)] = v
    OBVIOUS
<1>2. /\ old \in DashboardLists /\ ToSet(old) = ToSet(k) /\ InTurn(ids \o k, old)
      /\ new \in DashboardLists /\ ToSet(new) = ToSet(l) /\ InTurn(ids \o l, new)
    BY MergedIs DEF DashboardLists
<1> SUFFICES new[Len(new)] = v
    BY SMTT(30)
<1> HIDE DEF old, new
<1>3. PICK a \in Nat, b \in Nat, c \in Nat, d \in Nat, e \in Nat :
            /\ a = Len(old) /\ DOMAIN old = 1..a
            /\ b = Len(new) /\ DOMAIN new = 1..b
            /\ c = Len(k) /\ DOMAIN k = 1..c
            /\ d = Len(l) /\ DOMAIN l = 1..d
            /\ e = Len(ids) /\ DOMAIN ids = 1..e
    <2>1. /\ old \in Seq(Dashboards) /\ new \in Seq(Dashboards)
          /\ k \in Seq(Dashboards) /\ l \in Seq(Dashboards)
        BY <1>2 DEF DashboardLists
    <2>2. /\ Len(old) \in Nat /\ DOMAIN old = 1..Len(old)
          /\ Len(new) \in Nat /\ DOMAIN new = 1..Len(new)
          /\ Len(k) \in Nat /\ DOMAIN k = 1..Len(k)
          /\ Len(l) \in Nat /\ DOMAIN l = 1..Len(l)
          /\ Len(ids) \in Nat /\ DOMAIN ids = 1..Len(ids)
        BY <2>1, ListIs
    <2>3. QED
        BY <2>2
<1>4. PICK i \in 1..b : new[i] = v
    BY <1>2, <1>3 DEF ToSet
<1>5. SUFFICES ASSUME i # b
               PROVE  FALSE
    BY <1>3, <1>4
<1>6. PICK z : z = new[b]
    OBVIOUS
<1>7. i < b /\ b \in 1..b
    BY <1>4, <1>5
<1>8. z # v /\ z \in ToSet(l)
    <2>1. z \in ToSet(new)
        BY <1>3, <1>6, <1>7 DEF ToSet
    <2>2. new[i] # new[b]
        BY <1>2, <1>3, <1>5, <1>7 DEF DashboardLists, IsInjective
    <2>3. QED
        BY <1>2, <1>4, <1>6, <2>1, <2>2
<1>9. PICK p \in 1..a : old[p] = z
    BY <1>2, <1>3, <1>8 DEF ToSet
<1>10. p < a /\ a \in 1..a
    <2>1. p # a
        BY <1>1, <1>3, <1>8, <1>9
    <2>2. QED
        BY <2>1
<1>11. PICK one : one = ids \o k
    OBVIOUS
<1>12. PICK two : two = ids \o l
    OBVIOUS
<1>13. /\ DOMAIN one = 1..(e + c) /\ DOMAIN two = 1..(e + d)
       /\ \A m \in 1..e : one[m] = ids[m] /\ two[m] = ids[m]
       /\ \A m \in 1..c : one[e + m] = k[m]
       /\ \A m \in 1..d : two[e + m] = l[m]
    <2>1. k \in Seq(Dashboards) /\ l \in Seq(Dashboards)
        BY DEF DashboardLists
    <2>2. /\ DOMAIN one = 1..(e + c)
          /\ \A m \in 1..e : one[m] = ids[m]
          /\ \A m \in 1..c : one[e + m] = k[m]
        BY <1>3, <1>11, <2>1, JoinIs, Zenon
    <2>3. /\ DOMAIN two = 1..(e + d)
          /\ \A m \in 1..e : two[m] = ids[m]
          /\ \A m \in 1..d : two[e + m] = l[m]
        BY <1>3, <1>12, <2>1, JoinIs, Zenon
    <2>4. QED
        BY <2>2, <2>3
\* In the one order z is named first, in the other v.
<1>14. \A m \in 1..(e + c) : one[m] = v => \E h \in 1..(m - 1) : one[h] = z
    <2>1. InTurn(one, old)
        BY <1>2, <1>11, Zenon
    <2>2. p \in DOMAIN old /\ a \in DOMAIN old /\ DOMAIN one = 1..(e + c)
        BY <1>3, <1>10, <1>13
    <2>3. old[p] = z /\ old[a] = v
        BY <1>1, <1>3, <1>9
    <2>4. QED
        BY <1>10, <2>1, <2>2, <2>3, Zenon DEF InTurn
<1>15. \A m \in 1..(e + d) : two[m] = z => \E h \in 1..(m - 1) : two[h] = v
    <2>1. InTurn(two, new)
        BY <1>2, <1>12, Zenon
    <2>2. i \in DOMAIN new /\ b \in DOMAIN new /\ DOMAIN two = 1..(e + d)
        BY <1>3, <1>7, <1>13
    <2>3. new[i] = v /\ new[b] = z
        BY <1>4, <1>6
    <2>4. QED
        BY <1>7, <2>1, <2>2, <2>3, Zenon DEF InTurn
<1> DEFINE named == {m \in 1..e : ids[m] \in {v, z}}
<1>16. named = {}
    <2> SUFFICES ASSUME named # {}
                 PROVE  FALSE
        OBVIOUS
    <2>1. PICK m \in named : \A h \in named : m <= h
        <3>1. named \subseteq Nat
            OBVIOUS
        <3> HIDE DEF named
        <3>2. QED
            BY <3>1, LeastNumber
    <2>2. m \in 1..e /\ m \in 1..(e + c) /\ m \in 1..(e + d)
        OBVIOUS
    <2>3. \A h \in 1..(m - 1) : h \in 1..e /\ h \notin named
        BY <2>1, <2>2
    <2>4. \A h \in 1..(m - 1) : one[h] # z /\ two[h] # v
        BY <1>13, <2>3
    <2>5. one[m] = v \/ two[m] = z
        BY <1>13, <2>1, <2>2
    <2>6. QED
        BY <1>14, <1>15, <2>2, <2>4, <2>5
<1>17. PICK x \in 1..d : l[x] = z
    BY <1>3, <1>8 DEF ToSet
<1>18. PICK y \in 1..c : k[y] = v
    BY <1>3 DEF ToSet
<1>19. PICK w \in 1..c : k[w] = z /\ w < y
    <2>1. e + y \in 1..(e + c) /\ one[e + y] = v
        <3>1. e + y \in 1..(e + c)
            OBVIOUS
        <3>2. QED
            BY <1>13, <1>18, <3>1, Zenon
    <2>2. PICK h \in 1..((e + y) - 1) : one[h] = z
        BY <1>14, <2>1
    <2>3. h \notin 1..e
        BY <1>13, <1>16, <2>2
    <2>4. h - e \in 1..c /\ h - e < y /\ h = e + (h - e)
        BY <2>3
    <2>5. k[h - e] = z
        BY <1>13, <2>2, <2>4
    <2>6. QED
        BY <2>4, <2>5
<1>20. PICK u \in 1..d : l[u] = v /\ u < x
    <2>1. e + x \in 1..(e + d) /\ two[e + x] = z
        <3>1. e + x \in 1..(e + d)
            OBVIOUS
        <3>2. QED
            BY <1>13, <1>17, <3>1, Zenon
    <2>2. PICK h \in 1..((e + x) - 1) : two[h] = v
        BY <1>15, <2>1
    <2>3. h \notin 1..e
        BY <1>13, <1>16, <2>2
    <2>4. h - e \in 1..d /\ h - e < x /\ h = e + (h - e)
        BY <2>3
    <2>5. l[h - e] = v
        BY <1>13, <2>2, <2>4
    <2>6. QED
        BY <2>4, <2>5
<1>21. w < y <=> x < u
    BY <1>3, <1>17, <1>18, <1>19, <1>20 DEF SameOrder
<1>22. QED
    BY <1>19, <1>20, <1>21

-----------------------------------------------------------------------------
(***************************************************************************)
(* The swiper.  A list on its way may have fewer slides than the index of  *)
(* the swiper, which takes the last one then.                              *)
(***************************************************************************)
Chosen == Dashboards \cup {NoDashboard}

TabsTypes ==
    /\ swrViews \in DashboardLists
    /\ synced = NotSynced \/ synced \in DashboardLists
    /\ tabs \in [active : Chosen, selected : Chosen, order : DashboardLists,
                 mode : {"single", "management"}]
    /\ painted \in [views : DashboardLists, active : Chosen]
    /\ underWay \in [op : {"none", "create", "reorder"}, order : DashboardLists]
    /\ wanted \in Chosen

\* The swiper shows a view of the list it was rendered with, the one that was
\* active then, or is since it told the page.
SwiperTells ==
    painted.views # <<>> =>
        /\ ToSet(painted.views) = ToSet(synced)
        /\ swiper.slide \in DOMAIN painted.views
        /\ swiper = At(swiper.slide, painted.views[swiper.slide])
        /\ swiper.emitted \in {painted.active, tabs.active}

\* A view that was chosen is active, and shown when a list is on its way that
\* lacks a view: no other way takes its slide.
ChosenStays ==
    wanted # NoDashboard =>
        /\ Contains(swrViews, wanted)
        /\ tabs.active = wanted
        /\ tabs.selected \in {wanted, NoDashboard}
        /\ \/ painted.views = <<>>
           \/ ToSet(synced) \subseteq ToSet(swrViews)
           \/ /\ painted.views = MergeOrderedViewIds(synced, tabs.order)
              /\ swiper.emitted = wanted
              /\ Cardinality(ToSet(synced) \ ToSet(swrViews)) = 1
              /\ SameOrder(synced, swrViews)

TabsInv == TabsTypes /\ SwiperTells /\ ChosenStays

LEMMA ResolveIs ==
    ASSUME NEW l \in DashboardLists, NEW v \in Chosen
    PROVE  /\ ResolveActiveViewId(l, v) \in Chosen
           /\ l # <<>> => ResolveActiveViewId(l, v) \in ToSet(l)
           /\ v \in ToSet(l) => ResolveActiveViewId(l, v) = v
<1>1. /\ l \in Seq(Dashboards) /\ Len(l) \in Nat /\ DOMAIN l = 1..Len(l)
      /\ \A i \in 1..Len(l) : l[i] \in Dashboards /\ l[i] \in ToSet(l)
      /\ Contains(l, v) <=> v \in ToSet(l)
    BY ListIs DEF DashboardLists
<1>2. CASE l = <<>>
    BY <1>2 DEF ResolveActiveViewId, Chosen, ToSet
<1>3. CASE l # <<>>
    <2>1. Head(l) = l[1] /\ 1 \in 1..Len(l)
        BY <1>1, <1>3
    <2>2. Head(l) \in Dashboards /\ Head(l) \in ToSet(l)
        BY <1>1, <2>1
    <2>3. CASE Contains(l, v)
        BY <1>1, <1>3, <2>3 DEF ResolveActiveViewId
    <2>4. CASE ~Contains(l, v)
        BY <1>1, <1>3, <2>2, <2>4 DEF ResolveActiveViewId, Chosen
    <2>5. QED
        BY <2>3, <2>4
<1>4. QED
    BY <1>2, <1>3

LEMMA PropsAre ==
    ASSUME TabsTypes
    PROVE  /\ OrderedViews \in DashboardLists /\ ToSet(OrderedViews) = ToSet(swrViews)
           /\ Props \in [views : DashboardLists, active : Chosen]
           /\ Props.views # <<>> =>
                 /\ tabs.mode = "single"
                 /\ Props.views = OrderedViews
                 /\ Props.active = ResolveActiveViewId(OrderedViews, tabs.active)
                 /\ Props.active \in ToSet(OrderedViews)
<1>1. swrViews \in Seq(Dashboards) /\ tabs.order \in Seq(Dashboards) /\ tabs.active \in Chosen
    BY DEF TabsTypes, DashboardLists
<1>2. OrderedViews \in DashboardLists /\ ToSet(OrderedViews) = ToSet(swrViews)
    BY <1>1, MergedIs DEF OrderedViews
<1>3. /\ ResolveActiveViewId(OrderedViews, tabs.active) \in Chosen
      /\ OrderedViews # <<>> =>
            ResolveActiveViewId(OrderedViews, tabs.active) \in ToSet(OrderedViews)
    BY <1>1, <1>2, ResolveIs
<1>4. CASE tabs.mode = "management"
    <2>1. Props = [views |-> <<>>, active |-> NoDashboard]
        BY <1>4 DEF Props, NotMounted
    <2>2. <<>> \in DashboardLists
        BY DEF DashboardLists, IsInjective
    <2>3. QED
        BY <1>2, <2>1, <2>2 DEF Chosen
<1>5. CASE tabs.mode # "management"
    <2>1. Props = [views |-> OrderedViews,
                   active |-> ResolveActiveViewId(OrderedViews, tabs.active)]
        BY <1>5 DEF Props
    <2>2. tabs.mode = "single"
        BY <1>5 DEF TabsTypes
    <2>3. QED
        BY <1>2, <1>3, <2>1, <2>2
<1>6. QED
    BY <1>4, <1>5

\* Once the effects have run the slide is that of the active view.
LEMMA WhenSettled ==
    ASSUME TabsInv, Settled
    PROVE  /\ painted = Props /\ synced = swrViews
           /\ painted.views # <<>> =>
                 /\ swiper.slide \in DOMAIN painted.views
                 /\ painted.views[swiper.slide] = painted.active
                 /\ swiper = At(swiper.slide, painted.active)
                 /\ swiper.emitted = painted.active
<1>1. painted = Props /\ synced = swrViews
    BY DEF Settled
<1>2. SUFFICES ASSUME painted.views # <<>>
               PROVE  /\ swiper.slide \in DOMAIN painted.views
                      /\ painted.views[swiper.slide] = painted.active
                      /\ swiper = At(swiper.slide, painted.active)
                      /\ swiper.emitted = painted.active
    BY <1>1
<1>3. /\ swiper.slide \in DOMAIN painted.views
      /\ swiper = At(swiper.slide, painted.views[swiper.slide])
      /\ swiper.emitted \in {painted.active, tabs.active}
    BY <1>2 DEF TabsInv, SwiperTells
<1>4. swiper.emitted = painted.views[swiper.slide]
    BY <1>3 DEF At
<1>5. /\ painted.views = OrderedViews /\ OrderedViews \in DashboardLists
      /\ painted.active = ResolveActiveViewId(OrderedViews, tabs.active)
      /\ tabs.active \in Chosen
    BY <1>1, <1>2, PropsAre DEF TabsInv, TabsTypes
<1>6. swiper.emitted \in ToSet(OrderedViews)
    BY <1>3, <1>4, <1>5 DEF ToSet
<1>7. swiper.emitted = painted.active
    BY <1>3, <1>5, <1>6, ResolveIs
<1>8. QED
    BY <1>3, <1>4, <1>7

\* A step that leaves the swiper alone and takes no view away.
LEMMA SwiperLeft ==
    ASSUME TabsInv, Settled, TabsTypes',
           painted' = painted, synced' = synced, swiper' = swiper,
           ToSet(swrViews) \subseteq ToSet(swrViews'),
           wanted' # NoDashboard =>
              /\ wanted' \in ToSet(swrViews')
              /\ tabs'.active = wanted'
              /\ tabs'.selected \in {wanted', NoDashboard}
    PROVE  TabsInv'
<1>1. SwiperTells'
    BY WhenSettled DEF TabsInv, SwiperTells
<1>2. ChosenStays'
    <2>1. swrViews' \in Seq(Dashboards)
        BY DEF TabsTypes, DashboardLists
    <2>2. \A v : Contains(swrViews', v) <=> v \in ToSet(swrViews')
        BY <2>1, ListIs
    <2>3. ToSet(synced') \subseteq ToSet(swrViews')
        BY WhenSettled
    <2>4. QED
        BY <2>2, <2>3 DEF ChosenStays
<1>3. QED
    BY <1>1, <1>2 DEF TabsInv

\* The slide that a swiper with fewer slides takes is that of the view that is
\* wanted, so that nothing is announced.
LEMMA ClampsToWanted ==
    ASSUME TabsInv, wanted # NoDashboard, painted.views # <<>>,
           Props.views # <<>>, Len(Props.views) < swiper.slide
    PROVE  Props.views[Len(Props.views)] = swiper.emitted
<1>1. /\ Props.views = OrderedViews /\ OrderedViews \in DashboardLists
      /\ ToSet(OrderedViews) = ToSet(swrViews)
    BY PropsAre DEF TabsInv
<1>2. /\ painted.views \in DashboardLists /\ swrViews \in DashboardLists
      /\ tabs.order \in Seq(Dashboards) /\ wanted \in Chosen
    BY DEF TabsInv, TabsTypes, DashboardLists
<1>3. /\ swrViews \in Seq(Dashboards) /\ painted.views \in Seq(Dashboards)
      /\ Len(OrderedViews) \in Nat
      /\ Len(painted.views) \in Nat /\ DOMAIN painted.views = 1..Len(painted.views)
      /\ \A v : Contains(swrViews, v) <=> v \in ToSet(swrViews)
    BY <1>1, <1>2, ListIs DEF DashboardLists
<1>4. /\ ToSet(painted.views) = ToSet(synced)
      /\ swiper.slide \in DOMAIN painted.views
      /\ swiper = At(swiper.slide, painted.views[swiper.slide])
    BY DEF TabsInv, SwiperTells
<1>5. synced \in DashboardLists
    <2>1. synced # NotSynced
        <3>1. painted.views[1] \in Dashboards /\ painted.views[1] \in ToSet(painted.views)
            BY <1>3, <1>4 DEF ToSet
        <3>2. ToSet(NotSynced) = {NoDashboard}
            BY DEF ToSet, NotSynced
        <3>3. QED
            BY <1>4, <3>1, <3>2, TabsAssumption
    <2>2. QED
        BY <2>1 DEF TabsInv, TabsTypes
<1>6. Len(OrderedViews) < Len(painted.views)
    <2>1. PICK a \in Nat, b \in Nat : a = Len(OrderedViews) /\ b = Len(painted.views)
        BY <1>3
    <2>2. swiper.slide \in 1..b /\ a < swiper.slide
        BY <1>1, <1>3, <1>4, <2>1
    <2>3. QED
        BY <2>1, <2>2
<1>7. Len(synced) = Len(painted.views) /\ Len(OrderedViews) = Len(swrViews)
    BY <1>1, <1>2, <1>4, <1>5, ListSize
<1>8. ~(ToSet(synced) \subseteq ToSet(swrViews))
    <2>1. PICK a \in Nat, b \in Nat : a = Len(OrderedViews) /\ b = Len(painted.views) /\ a < b
        BY <1>3, <1>6
    <2>2. ToSet(synced) \subseteq ToSet(swrViews) => b <= a
        BY <1>2, <1>5, <1>7, <2>1, MoreViews
    <2>3. QED
        BY <2>1, <2>2
<1>9. /\ painted.views = MergeOrderedViewIds(synced, tabs.order)
      /\ swiper.emitted = wanted
      /\ Cardinality(ToSet(synced) \ ToSet(swrViews)) = 1
      /\ SameOrder(synced, swrViews)
      /\ wanted \in ToSet(swrViews)
    BY <1>3, <1>8 DEF TabsInv, ChosenStays
<1>10. ToSet(swrViews) \subseteq ToSet(synced) /\ Len(synced) = Len(swrViews) + 1
    BY <1>2, <1>5, <1>6, <1>7, <1>9, LosesOne
<1>11. swiper.slide = Len(painted.views)
    <2>1. PICK a \in Nat, b \in Nat : a = Len(OrderedViews) /\ b = Len(painted.views)
        BY <1>3
    <2>2. b = a + 1
        BY <1>7, <1>10, <2>1
    <2>3. swiper.slide \in 1..b /\ a < swiper.slide
        BY <1>1, <1>3, <1>4, <2>1
    <2>4. QED
        BY <2>1, <2>2, <2>3
<1>12. painted.views[Len(painted.views)] = wanted
    BY <1>4, <1>9, <1>11 DEF At
<1>13. MergeOrderedViewIds(swrViews, tabs.order)[Len(MergeOrderedViewIds(swrViews, tabs.order))]
            = wanted
    BY <1>2, <1>5, <1>9, <1>10, <1>12, LastStays
<1>14. QED
    BY <1>1, <1>9, <1>13 DEF OrderedViews

LEMMA TabsInitInv == TabsInit => TabsInv
<1> SUFFICES ASSUME TabsInit
             PROVE  TabsInv
    OBVIOUS
<1>1. <<>> \in DashboardLists
    BY DEF DashboardLists, IsInjective
<1>2. TabsTypes
    BY <1>1 DEF TabsInit, TabsTypes, NotSynced, NotMounted, NothingSent, Chosen
<1>3. SwiperTells /\ ChosenStays
    BY DEF TabsInit, SwiperTells, ChosenStays, NotMounted
<1>4. QED
    BY <1>2, <1>3 DEF TabsInv

LEMMA RenderTabsKeeps == TabsInv /\ RenderTabs => TabsInv'
<1> SUFFICES ASSUME TabsInv, RenderTabs
             PROVE  TabsInv'
    OBVIOUS
<1> DEFINE last == Len(Props.views)
           clamped == painted.views # <<>> /\ last > 0 /\ last < swiper.slide
           told == IF clamped THEN Emitted(Props.views, last, tabs) ELSE tabs
           laid == IF clamped THEN SlideChanged(Props.views, last) ELSE swiper
<1>1. /\ painted' = Props /\ synced' = swrViews
      /\ swiper' = IF last = 0 THEN At(1, NoDashboard) ELSE ShowsActive(Props, laid)
      /\ tabs' = IF synced = swrViews THEN told ELSE SyncWithViews(told)
      /\ swrViews' = swrViews /\ underWay' = underWay /\ wanted' = wanted
    BY DEF RenderTabs
<1>2. /\ TabsTypes
      /\ swrViews \in DashboardLists /\ swrViews \in Seq(Dashboards)
      /\ tabs \in [active : Chosen, selected : Chosen, order : DashboardLists,
                   mode : {"single", "management"}]
      /\ Props \in [views : DashboardLists, active : Chosen]
      /\ Props.views \in Seq(Dashboards) /\ last \in Nat /\ DOMAIN Props.views = 1..last
      /\ \A v : Contains(swrViews, v) <=> v \in ToSet(swrViews)
    BY PropsAre, ListIs DEF TabsInv, TabsTypes, DashboardLists
<1>3. told \in [active : Chosen, selected : Chosen, order : DashboardLists,
                mode : {"single", "management"}]
    <2>1. clamped => Props.views[last] \in Chosen
        BY <1>2 DEF Chosen
    <2>2. QED
        BY <1>2, <2>1 DEF Emitted
<1>4. wanted # NoDashboard => told = tabs
    <2> SUFFICES ASSUME wanted # NoDashboard, clamped
                 PROVE  Emitted(Props.views, last, tabs) = tabs
        OBVIOUS
    <2>1. Props.views # <<>>
        OBVIOUS
    <2>2. Props.views[Len(Props.views)] = swiper.emitted
        BY <2>1, ClampsToWanted
    <2>3. QED
        BY <2>2 DEF Emitted
<1> HIDE DEF told, laid
<1>5. SyncWithViews(told)
        = [told EXCEPT !.active = ResolveActiveViewId(swrViews, told.active),
                       !.order = MergeOrderedViewIds(swrViews, told.order)]
    BY DEF SyncWithViews
<1>6. /\ ResolveActiveViewId(swrViews, told.active) \in Chosen
      /\ told.active \in ToSet(swrViews) =>
            ResolveActiveViewId(swrViews, told.active) = told.active
      /\ MergeOrderedViewIds(swrViews, told.order) \in DashboardLists
    BY <1>2, <1>3, ResolveIs, MergedIs DEF DashboardLists
<1>7. TabsTypes'
    <2>1. tabs' \in [active : Chosen, selected : Chosen, order : DashboardLists,
                     mode : {"single", "management"}]
        BY <1>1, <1>3, <1>5, <1>6
    <2>2. QED
        BY <1>1, <1>2, <2>1 DEF TabsTypes
<1>8. SwiperTells'
    <2> SUFFICES ASSUME Props.views # <<>>
                 PROVE  /\ ToSet(Props.views) = ToSet(swrViews)
                        /\ swiper'.slide \in DOMAIN Props.views
                        /\ swiper' = At(swiper'.slide, Props.views[swiper'.slide])
                        /\ swiper'.emitted \in {Props.active, tabs'.active}
        BY <1>1 DEF SwiperTells
    <2>1. last # 0
        BY <1>2
    <2>2. ToSet(Props.views) = ToSet(swrViews) /\ Props.active \in ToSet(Props.views)
        BY <1>2, PropsAre
    <2>3. PICK i : i = CHOOSE k \in DOMAIN Props.views : Props.views[k] = Props.active
        OBVIOUS
    <2>4. i \in DOMAIN Props.views /\ Props.views[i] = Props.active
        BY <2>2, <2>3 DEF ToSet
    <2>5. swiper' = At(i, Props.active)
        BY <1>1, <2>1, <2>3 DEF ShowsActive
    <2>6. swiper'.slide = i /\ swiper'.emitted = Props.active
        BY <2>5 DEF At
    <2>7. QED
        BY <2>2, <2>4, <2>5, <2>6
<1>9. ChosenStays'
    <2> SUFFICES ASSUME wanted # NoDashboard
                 PROVE  /\ Contains(swrViews, wanted)
                        /\ tabs'.active = wanted
                        /\ tabs'.selected \in {wanted, NoDashboard}
        BY <1>1 DEF ChosenStays
    <2>1. /\ Contains(swrViews, wanted)
          /\ tabs.active = wanted
          /\ tabs.selected \in {wanted, NoDashboard}
        BY DEF TabsInv, ChosenStays
    <2>2. told.active = wanted /\ told.selected \in {wanted, NoDashboard}
        BY <1>4, <2>1
    <2>3. wanted \in ToSet(swrViews)
        BY <1>2, <2>1
    <2>4. QED
        BY <1>1, <1>3, <1>5, <1>6, <2>1, <2>2, <2>3
<1>10. QED
    BY <1>7, <1>8, <1>9 DEF TabsInv

LEMMA RestartPageKeeps == TabsInv /\ RestartPage => TabsInv'
<1> SUFFICES ASSUME TabsInv, RestartPage
             PROVE  TabsInv'
    OBVIOUS
<1>1. <<>> \in DashboardLists
    BY DEF DashboardLists, IsInjective
<1>2. TabsTypes'
    BY <1>1 DEF RestartPage, TabsInv, TabsTypes, NotSynced, NotMounted, NothingSent, Chosen
<1>3. SwiperTells' /\ ChosenStays'
    BY DEF RestartPage, SwiperTells, ChosenStays, NotMounted
<1>4. QED
    BY <1>2, <1>3 DEF TabsInv

LEMMA ListChangesKeeps ==
    ASSUME TabsInv, NEW l \in TabLists, ListChanges(l)
    PROVE  TabsInv'
<1>1. /\ swrViews' = l /\ Settled
      /\ wanted' = IF Contains(l, wanted) /\ Gentle(l) THEN wanted ELSE NoDashboard
      /\ tabs' = tabs /\ painted' = painted /\ synced' = synced /\ swiper' = swiper
      /\ underWay' = underWay
    BY DEF ListChanges, Event
<1>2. l \in DashboardLists
    <2>1. Cardinality(Dashboards) \in Nat
        BY TabsAssumption, FS_CardinalityType
    <2>2. PICK m \in 0..Cardinality(Dashboards) : l \in [1..m -> Dashboards]
        BY DEF TabLists, SeqOf
    <2>3. l \in Seq(Dashboards)
        BY <2>1, <2>2
    <2>4. QED
        BY <2>3 DEF TabLists, DashboardLists
<1>3. TabsTypes'
    BY <1>1, <1>2 DEF TabsInv, TabsTypes, Chosen
<1>4. SwiperTells'
    BY <1>1 DEF TabsInv, SwiperTells
<1>5. ChosenStays'
    <2> SUFFICES ASSUME wanted' # NoDashboard
                 PROVE  /\ Contains(l, wanted')
                        /\ tabs.active = wanted'
                        /\ tabs.selected \in {wanted', NoDashboard}
                        /\ \/ painted.views = <<>>
                           \/ ToSet(synced) \subseteq ToSet(l)
                           \/ /\ painted.views = MergeOrderedViewIds(synced, tabs.order)
                              /\ swiper.emitted = wanted'
                              /\ Cardinality(ToSet(synced) \ ToSet(l)) = 1
                              /\ SameOrder(synced, l)
        BY <1>1 DEF ChosenStays
    <2>1. wanted' = wanted /\ wanted # NoDashboard /\ Contains(l, wanted) /\ Gentle(l)
        BY <1>1
    <2>2. /\ Contains(swrViews, wanted)
          /\ tabs.active = wanted
          /\ tabs.selected \in {wanted, NoDashboard}
        BY <2>1 DEF TabsInv, ChosenStays
    <2>3. painted = Props /\ synced = swrViews
        BY <1>1, WhenSettled
    <2>4. CASE ToSet(swrViews) \subseteq ToSet(l)
        BY <2>1, <2>2, <2>3, <2>4
    <2>5. CASE /\ Cardinality(ToSet(swrViews) \ ToSet(l)) = 1 /\ SameOrder(swrViews, l)
               /\ painted.views # <<>>
        <3>1. /\ painted.views = OrderedViews
              /\ painted.active = ResolveActiveViewId(OrderedViews, tabs.active)
              /\ OrderedViews \in DashboardLists /\ ToSet(OrderedViews) = ToSet(swrViews)
              /\ swrViews \in Seq(Dashboards) /\ wanted \in Chosen
            BY <2>3, <2>5, PropsAre DEF TabsInv, TabsTypes, DashboardLists
        <3>2. wanted \in ToSet(OrderedViews)
            BY <2>2, <3>1, ListIs
        <3>3. painted.active = wanted
            BY <2>2, <3>1, <3>2, ResolveIs
        <3>4. swiper.emitted = wanted
            BY <1>1, <2>5, <3>3, WhenSettled
        <3>5. QED
            BY <2>1, <2>2, <2>3, <2>5, <3>1, <3>4 DEF OrderedViews
    <2>6. QED
        BY <2>1, <2>2, <2>4, <2>5 DEF Gentle
<1>6. QED
    BY <1>3, <1>4, <1>5 DEF TabsInv

LEMMA SlideToKeeps ==
    ASSUME TabsInv, NEW i, SlideTo(i)
    PROVE  TabsInv'
<1>1. /\ i \in DOMAIN painted.views /\ Settled
      /\ swrViews' = swrViews /\ painted' = painted /\ synced' = synced /\ underWay' = underWay
    BY DEF SlideTo, Event
<1>2. painted.views \in DashboardLists /\ painted.views # <<>>
    BY <1>1 DEF TabsInv, TabsTypes
<1>3. /\ painted.views[i] \in Dashboards /\ painted.views[i] \in ToSet(painted.views)
      /\ painted.views = OrderedViews /\ ToSet(painted.views) = ToSet(swrViews)
      /\ synced = swrViews /\ swrViews \in Seq(Dashboards)
    BY <1>1, <1>2, WhenSettled, PropsAre, ListIs DEF TabsInv, TabsTypes, DashboardLists
<1>4. /\ swiper.slide \in DOMAIN painted.views
      /\ swiper = At(swiper.slide, painted.views[swiper.slide])
    BY <1>2 DEF TabsInv, SwiperTells
<1>5. CASE i = swiper.slide
    <2>1. /\ swiper' = [swiper EXCEPT !.target = i, !.current = i]
          /\ tabs' = tabs /\ wanted' = wanted
        BY <1>5 DEF SlideTo
    <2>2. swiper' = swiper
        <3>1. PICK v : v = painted.views[i]
            OBVIOUS
        <3>2. swiper = [slide |-> i, target |-> i, current |-> i, emitted |-> v]
            BY <1>4, <1>5, <3>1, Zenon DEF At
        <3>3. [swiper EXCEPT !.target = i] = swiper
            BY <3>2
        <3>4. [swiper EXCEPT !.current = i] = swiper
            BY <3>2
        <3>5. [swiper EXCEPT !.target = i, !.current = i]
                = [[swiper EXCEPT !.target = i] EXCEPT !.current = i]
            BY <3>2
        <3>6. QED
            BY <2>1, <3>3, <3>4, <3>5, Zenon
    <2>3. QED
        BY <1>1, <2>1, <2>2 DEF TabsInv, TabsTypes, SwiperTells, ChosenStays
<1>6. CASE i # swiper.slide
    <2>1. /\ swiper' = At(i, painted.views[i])
          /\ tabs' = Emitted(painted.views, i, tabs)
          /\ wanted' = painted.views[i]
        BY <1>6 DEF SlideTo, SlideChanged
    <2>2. painted.views[i] # swiper.emitted
        BY <1>1, <1>2, <1>4, <1>6 DEF At, DashboardLists, IsInjective
    <2>3. tabs' = [tabs EXCEPT !.active = painted.views[i], !.selected = painted.views[i]]
        BY <2>1, <2>2 DEF Emitted
    <2>4. tabs'.active = painted.views[i] /\ tabs'.selected = painted.views[i]
        BY <2>3 DEF TabsInv, TabsTypes
    <2>5. TabsTypes'
        BY <1>1, <1>3, <2>1, <2>3 DEF TabsInv, TabsTypes, Chosen
    <2>6. SwiperTells'
        <3>1. swiper'.slide = i /\ swiper'.emitted = painted.views[i]
            BY <2>1 DEF At
        <3>2. QED
            BY <1>1, <1>3, <2>1, <2>4, <3>1 DEF SwiperTells
    <2>7. ChosenStays'
        <3>1. Contains(swrViews, painted.views[i])
            BY <1>3, ListIs
        <3>2. QED
            BY <1>1, <1>3, <2>1, <2>4, <3>1 DEF ChosenStays
    <2>8. QED
        BY <2>5, <2>6, <2>7 DEF TabsInv
<1>7. QED
    BY <1>5, <1>6

\* Where the view comes from that is at m when the one at i was dragged to j
Source(i, j, m) ==
    IF m = j THEN i
    ELSE LET left == IF m < j THEN m ELSE m - 1 IN IF left < i THEN left ELSE left + 1

LEMMA SourceIs ==
    ASSUME NEW n \in Nat, NEW i \in 1..n, NEW j \in 1..n
    PROVE  /\ \A m \in 1..n : Source(i, j, m) \in 1..n
           /\ \A m, k \in 1..n : Source(i, j, m) = Source(i, j, k) => m = k
BY DEF Source

\* An order of the views that is dragged is one.
LEMMA DraggedIs ==
    ASSUME NEW l \in DashboardLists, NEW i \in DOMAIN l, NEW j \in DOMAIN l
    PROVE  InsertAt(RemoveAt(l, i), j, l[i]) \in DashboardLists
<1>0. l \in Seq(Dashboards) /\ IsInjective(l)
    BY DEF DashboardLists
<1>1. PICK n \in Nat : n = Len(l) /\ DOMAIN l = 1..n
    BY <1>0, ListIs
<1>2. i \in 1..n /\ j \in 1..n /\ l[i] \in Dashboards
    BY <1>0, <1>1, ListIs
<1>3. PICK before : before = SubSeq(l, 1, i - 1)
    OBVIOUS
<1>4. PICK after : after = SubSeq(l, i + 1, n)
    OBVIOUS
<1>5. before \in Seq(Dashboards) /\ Len(before) = i - 1
      /\ \A m \in 1..(i - 1) : before[m] = l[m]
    BY <1>0, <1>1, <1>2, <1>3
<1>6. after \in Seq(Dashboards) /\ Len(after) = n - i
      /\ \A m \in 1..(n - i) : after[m] = l[m + i]
    BY <1>0, <1>1, <1>2, <1>4, SMTT(30)
<1>7. PICK rest : rest = before \o after
    OBVIOUS
<1>8. /\ rest \in Seq(Dashboards) /\ Len(rest) = n - 1
      /\ \A m \in 1..(n - 1) : rest[m] = IF m < i THEN l[m] ELSE l[m + 1]
    <2>1. rest \in Seq(Dashboards) /\ Len(rest) = n - 1
        BY <1>1, <1>2, <1>5, <1>6, <1>7
    <2>2. ASSUME NEW m \in 1..(n - 1)
          PROVE  rest[m] = IF m < i THEN l[m] ELSE l[m + 1]
        <3>1. CASE m < i
            <4>1. m \in 1..(i - 1) /\ m \in 1..Len(before)
                BY <1>2, <1>5, <3>1
            <4>2. rest[m] = before[m]
                BY <1>5, <1>6, <1>7, <4>1
            <4>3. QED
                BY <1>5, <3>1, <4>1, <4>2
        <3>2. CASE ~(m < i)
            <4>1. /\ m - (i - 1) \in 1..(n - i) /\ (m - (i - 1)) + i = m + 1
                  /\ m \in (Len(before) + 1)..(Len(before) + Len(after))
                  /\ m - Len(before) = m - (i - 1)
                BY <1>1, <1>2, <1>5, <1>6, <3>2, SMTT(30)
            <4>2. rest[m] = after[m - (i - 1)]
                BY <1>5, <1>6, <1>7, <4>1, SMTT(30)
            <4>3. QED
                BY <1>6, <3>2, <4>1, <4>2
        <3>3. QED
            BY <3>1, <3>2
    <2>3. QED
        BY <2>1, <2>2
<1>9. PICK first : first = SubSeq(rest, 1, j - 1)
    OBVIOUS
<1>10. PICK last : last = SubSeq(rest, j, n - 1)
    OBVIOUS
<1>11. /\ first \in Seq(Dashboards) /\ Len(first) = j - 1
       /\ \A m \in 1..(j - 1) : first[m] = rest[m]
    BY <1>1, <1>2, <1>8, <1>9
<1>12. /\ last \in Seq(Dashboards) /\ Len(last) = n - j
       /\ \A m \in 1..(n - j) : last[m] = rest[(m + j) - 1]
    <2>1. PICK k \in Nat : k = n - 1 /\ Len(rest) = k /\ DOMAIN rest = 1..k
        BY <1>1, <1>2, <1>8
    <2>2. last = SubSeq(rest, j, k)
        BY <1>10, <2>1
    <2>3. (k - j) + 1 = n - j /\ n - j \in Nat /\ j \in 1..(k + 1) /\ k \in 0..k
        BY <1>2, <2>1
    <2>4. rest \in Seq(Dashboards)
        BY <1>8
    <2>5. /\ last \in Seq(Dashboards)
          /\ Len(last) = IF j <= k THEN (k - j) + 1 ELSE 0
          /\ \A m \in 1..((k - j) + 1) : last[m] = rest[(j + m) - 1]
        BY <2>1, <2>2, <2>3, <2>4, SubSeqProperties, SMTT(30)
    <2>6. Len(last) = n - j
        BY <1>2, <2>1, <2>3, <2>5
    <2>7. \A m \in 1..(n - j) : (j + m) - 1 = (m + j) - 1
        BY <1>2
    <2>8. QED
        BY <2>3, <2>5, <2>6, <2>7
<1>13. PICK all : all = InsertAt(RemoveAt(l, i), j, l[i])
    BY SMTT(30)
<1>14. all = (first \o <<l[i]>>) \o last
    <2>1. RemoveAt(l, i) = rest
        BY <1>1, <1>3, <1>4, <1>7 DEF RemoveAt
    <2>2. QED
        BY <1>8, <1>9, <1>10, <1>13, <2>1 DEF InsertAt
<1>15. /\ all \in Seq(Dashboards) /\ Len(all) = n
       /\ \A m \in 1..n : all[m] = l[Source(i, j, m)]
    <2>1. PICK upto : upto = first \o <<l[i]>>
        OBVIOUS
    <2>2. /\ upto \in Seq(Dashboards) /\ Len(upto) = j
          /\ \A m \in 1..(j - 1) : upto[m] = first[m]
          /\ upto[j] = l[i]
        BY <1>2, <1>11, <2>1
    <2>3. all \in Seq(Dashboards) /\ Len(all) = n
        <3>1. all = upto \o last /\ Len(upto) + Len(last) = n
            BY <1>2, <1>12, <1>14, <2>1, <2>2
        <3>2. upto \o last \in Seq(Dashboards) /\ Len(upto \o last) = Len(upto) + Len(last)
            BY <1>12, <2>2, ConcatProperties
        <3>3. QED
            BY <3>1, <3>2
    <2>4. ASSUME NEW m \in 1..n
          PROVE  all[m] = l[Source(i, j, m)]
        <3>1. CASE m = j
            BY <1>2, <1>12, <1>14, <2>1, <2>2, <3>1 DEF Source
        <3>2. CASE m < j
            <4>1. m \in 1..(j - 1) /\ m \in 1..(n - 1) /\ m \in 1..Len(upto)
                BY <1>1, <1>2, <2>2, <3>2
            <4>2. all[m] = upto[m]
                BY <1>12, <1>14, <2>1, <2>2, <4>1
            <4>3. all[m] = rest[m]
                BY <1>11, <2>2, <4>1, <4>2
            <4>4. QED
                BY <1>2, <1>8, <3>2, <4>1, <4>3 DEF Source
        <3>3. CASE m > j
            <4>1. /\ m - j \in 1..(n - j) /\ ((m - j) + j) - 1 = m - 1 /\ m - 1 \in 1..(n - 1)
                  /\ m \in (Len(upto) + 1)..(Len(upto) + Len(last))
                  /\ m - Len(upto) = m - j
                BY <1>1, <1>2, <1>12, <2>2, <3>3
            <4>2. all[m] = last[m - j]
                BY <1>12, <1>14, <2>1, <2>2, <4>1, SMTT(30)
            <4>3. all[m] = rest[m - 1]
                BY <1>12, <4>1, <4>2
            <4>4. QED
                BY <1>2, <1>8, <3>3, <4>1, <4>3, SMTT(30) DEF Source
        <3>4. QED
            BY <1>2, <3>1, <3>2, <3>3
    <2>5. QED
        BY <2>3, <2>4
<1>16. IsInjective(all)
    <2>1. ASSUME NEW m \in 1..n, NEW k \in 1..n, all[m] = all[k]
          PROVE  m = k
        <3>1. Source(i, j, m) \in 1..n /\ Source(i, j, k) \in 1..n
            BY <1>2, SourceIs
        <3>2. l[Source(i, j, m)] = l[Source(i, j, k)]
            BY <1>15, <2>1
        <3>3. Source(i, j, m) = Source(i, j, k)
            BY <1>0, <1>1, <3>1, <3>2 DEF IsInjective
        <3>4. QED
            BY <1>2, <3>3, SourceIs
    <2>2. DOMAIN all = 1..n
        BY <1>15
    <2>3. QED
        BY <2>1, <2>2 DEF IsInjective
<1>17. QED
    BY <1>13, <1>15, <1>16 DEF DashboardLists

LEMMA AppendedIs ==
    ASSUME NEW l \in DashboardLists, NEW v \in Dashboards,
           NEW new, new = IF Contains(l, v) THEN l ELSE Append(l, v)
    PROVE  new \in DashboardLists /\ ToSet(new) = ToSet(l) \cup {v}
<1>1. /\ l \in Seq(Dashboards) /\ Len(l) \in Nat /\ DOMAIN l = 1..Len(l) /\ IsInjective(l)
      /\ Contains(l, v) <=> v \in ToSet(l)
    BY ListIs DEF DashboardLists
<1>2. CASE Contains(l, v)
    BY <1>1, <1>2
<1>3. CASE ~Contains(l, v)
    <2>1. /\ new \in Seq(Dashboards) /\ DOMAIN new = 1..(Len(l) + 1)
          /\ new[Len(l) + 1] = v
          /\ \A i \in 1..Len(l) : new[i] = l[i] /\ l[i] \in ToSet(l)
        BY <1>1, <1>3 DEF ToSet
    <2>2. \A i \in 1..(Len(l) + 1) : i \in 1..Len(l) \/ i = Len(l) + 1
        BY <1>1
    <2>3. ToSet(new) = ToSet(l) \cup {v}
        BY <1>1, <2>1, <2>2, SMTT(30) DEF ToSet
    <2>4. \A i, j \in 1..Len(l) : new[i] = new[j] => i = j
        BY <1>1, <2>1 DEF IsInjective
    <2>5. \A i \in 1..Len(l) : new[i] # v
        BY <1>1, <1>3, <2>1
    <2>6. IsInjective(new)
        BY <2>1, <2>2, <2>4, <2>5 DEF IsInjective
    <2>7. QED
        BY <2>1, <2>3, <2>6 DEF DashboardLists
<1>4. QED
    BY <1>2, <1>3

LEMMA TabsNextInv == TabsInv /\ [TabsNext]_tabVars => TabsInv'
<1> SUFFICES ASSUME TabsInv, [TabsNext]_tabVars
             PROVE  TabsInv'
    OBVIOUS
<1>1. /\ swrViews \in DashboardLists /\ swrViews \in Seq(Dashboards)
      /\ tabs \in [active : Chosen, selected : Chosen, order : DashboardLists,
                   mode : {"single", "management"}]
      /\ underWay \in [op : {"none", "create", "reorder"}, order : DashboardLists]
      /\ wanted \in Chosen
      /\ \A v : Contains(swrViews, v) <=> v \in ToSet(swrViews)
    BY ListIs DEF TabsInv, TabsTypes, DashboardLists
<1>2. /\ OrderedViews \in DashboardLists /\ OrderedViews \in Seq(Dashboards)
      /\ ToSet(OrderedViews) = ToSet(swrViews)
      /\ \A v : Contains(OrderedViews, v) <=> v \in ToSet(swrViews)
    BY PropsAre, ListIs DEF TabsInv, DashboardLists
<1>3. wanted # NoDashboard =>
        /\ wanted \in ToSet(swrViews)
        /\ tabs.active = wanted
        /\ tabs.selected \in {wanted, NoDashboard}
    BY <1>1 DEF TabsInv, ChosenStays
<1>4. CASE RenderTabs
    BY <1>4, RenderTabsKeeps
<1>5. CASE RestartPage
    BY <1>5, RestartPageKeeps
<1>6. CASE \E l \in TabLists : ListChanges(l)
    BY <1>6, ListChangesKeeps
<1>7. CASE \E i \in 1..Cardinality(Dashboards) : SlideTo(i)
    BY <1>7, SlideToKeeps
<1>8. CASE \E forward \in BOOLEAN : NavigateBy(forward)
    BY <1>8, SlideToKeeps DEF NavigateBy
<1>9. CASE HandleEnterManagementMode
    <2>1. /\ Settled /\ tabs' = [tabs EXCEPT !.mode = "management"]
          /\ UNCHANGED <<swrViews, painted, synced, swiper, underWay, wanted>>
        BY <1>9 DEF HandleEnterManagementMode, Event
    <2>2. TabsTypes'
        BY <1>1, <2>1 DEF TabsInv, TabsTypes, Chosen
    <2>3. tabs'.active = tabs.active /\ tabs'.selected = tabs.selected
        BY <1>1, <2>1
    <2>4. QED
        BY <1>3, <2>1, <2>2, <2>3, SwiperLeft
<1>10. CASE HandleReturnToSingleDashboard
    <2>1. PICK fallback :
            fallback = IF tabs.selected # NoDashboard THEN tabs.selected
                       ELSE ResolveActiveViewId(OrderedViews, tabs.active)
        OBVIOUS
    <2>2. /\ Settled
          /\ tabs' = IF fallback = NoDashboard THEN [tabs EXCEPT !.mode = "single"]
                     ELSE [tabs EXCEPT !.mode = "single", !.active = fallback,
                                       !.selected = fallback]
          /\ UNCHANGED <<swrViews, painted, synced, swiper, underWay, wanted>>
        BY <1>10, <2>1 DEF HandleReturnToSingleDashboard, Event
    <2>3. fallback \in Chosen
        BY <1>1, <1>2, <2>1, ResolveIs
    <2>4. TabsTypes'
        BY <1>1, <2>2, <2>3 DEF TabsInv, TabsTypes, Chosen
    <2>5. wanted # NoDashboard => fallback = wanted
        BY <1>1, <1>2, <1>3, <2>1, ResolveIs
    <2>6. wanted # NoDashboard => tabs'.active = wanted /\ tabs'.selected = wanted
        BY <1>1, <2>2, <2>5
    <2>7. QED
        BY <1>3, <2>2, <2>4, <2>6, SwiperLeft
<1>11. ASSUME NEW v \in Dashboards, HandleSelectDashboard(v)
       PROVE  TabsInv'
    <2>1. /\ Settled /\ Contains(OrderedViews, v) /\ wanted' = v
          /\ tabs' = [tabs EXCEPT !.mode = "single", !.active = v, !.selected = v]
          /\ UNCHANGED <<swrViews, painted, synced, swiper, underWay>>
        BY <1>11 DEF HandleSelectDashboard, Event
    <2>2. TabsTypes'
        BY <1>1, <2>1 DEF TabsInv, TabsTypes, Chosen
    <2>3. tabs'.active = v /\ tabs'.selected = v /\ v \in ToSet(swrViews)
        BY <1>1, <1>2, <2>1
    <2>4. QED
        BY <2>1, <2>2, <2>3, SwiperLeft
<1>12. ASSUME NEW v \in Dashboards, DashboardDeleted(v)
       PROVE  TabsInv'
    <2>1. /\ Settled
          /\ tabs' = [tabs EXCEPT !.selected = IF @ = v THEN NoDashboard ELSE @]
          /\ UNCHANGED <<swrViews, painted, synced, swiper, underWay, wanted>>
        BY <1>12 DEF DashboardDeleted, Event
    <2>2. TabsTypes'
        BY <1>1, <2>1 DEF TabsInv, TabsTypes, Chosen
    <2>3. tabs'.active = tabs.active /\ tabs'.selected \in {tabs.selected, NoDashboard}
        BY <1>1, <2>1
    <2>4. QED
        BY <1>3, <2>1, <2>2, <2>3, SwiperLeft
<1>13. CASE HandleCreateDashboard
    <2>1. /\ Settled /\ underWay' = [op |-> "create", order |-> OrderedViews]
          /\ UNCHANGED <<swrViews, tabs, painted, synced, swiper, wanted>>
        BY <1>13 DEF HandleCreateDashboard, Event
    <2>2. TabsTypes'
        BY <1>1, <1>2, <2>1 DEF TabsInv, TabsTypes, Chosen
    <2>3. QED
        BY <1>3, <2>1, <2>2, SwiperLeft
<1>14. ASSUME NEW v \in Dashboards, DashboardCreated(v)
       PROVE  TabsInv'
    <2>1. /\ Settled
          /\ swrViews' = IF Contains(swrViews, v) THEN swrViews ELSE Append(swrViews, v)
          /\ tabs' = [active |-> v, selected |-> v, order |-> Append(underWay.order, v),
                      mode |-> "single"]
          /\ underWay' = [op |-> "none", order |-> <<>>] /\ wanted' = v
          /\ UNCHANGED <<painted, synced, swiper>>
        BY <1>14 DEF DashboardCreated, NothingSent
    <2>2. /\ swrViews' \in DashboardLists
          /\ ToSet(swrViews') = ToSet(swrViews) \cup {v}
        BY <1>1, <2>1, AppendedIs
    <2>3. Append(underWay.order, v) \in DashboardLists /\ v \in Chosen
        <3>1. ~Contains(underWay.order, v)
            BY <1>14 DEF DashboardCreated
        <3>2. QED
            BY <1>1, <3>1, AppendedIs DEF Chosen
    <2>4. TabsTypes'
        <3>1. <<>> \in DashboardLists
            BY DEF DashboardLists, IsInjective
        <3>2. QED
            BY <1>1, <2>1, <2>2, <2>3, <3>1 DEF TabsInv, TabsTypes
    <2>5. QED
        BY <2>1, <2>2, <2>4, SwiperLeft
<1>15. ASSUME NEW i, NEW j, HandleReorderDashboards(i, j)
       PROVE  TabsInv'
    <2>1. /\ Settled /\ i \in DOMAIN OrderedViews /\ j \in DOMAIN OrderedViews
          /\ tabs' = [tabs EXCEPT
                        !.order = InsertAt(RemoveAt(OrderedViews, i), j, OrderedViews[i])]
          /\ underWay' = [op |-> "reorder", order |-> OrderedViews]
          /\ UNCHANGED <<swrViews, painted, synced, swiper, wanted>>
        BY <1>15 DEF HandleReorderDashboards, Event
    <2>2. InsertAt(RemoveAt(OrderedViews, i), j, OrderedViews[i]) \in DashboardLists
        BY <1>2, <2>1, DraggedIs
    <2>3. TabsTypes'
        BY <1>1, <1>2, <2>1, <2>2 DEF TabsInv, TabsTypes, Chosen
    <2>4. tabs'.active = tabs.active /\ tabs'.selected = tabs.selected
        BY <1>1, <2>1
    <2>5. QED
        BY <1>3, <2>1, <2>3, <2>4, SwiperLeft
<1>16. ASSUME NEW failed \in BOOLEAN, RequestEnds(failed)
       PROVE  TabsInv'
    <2>1. /\ Settled
          /\ tabs' = IF failed /\ underWay.op = "reorder"
                     THEN [tabs EXCEPT !.order = underWay.order] ELSE tabs
          /\ underWay' = [op |-> "none", order |-> <<>>]
          /\ UNCHANGED <<swrViews, painted, synced, swiper, wanted>>
        BY <1>16 DEF RequestEnds, NothingSent
    <2>2. TabsTypes'
        <3>0. <<>> \in DashboardLists
            BY DEF DashboardLists, IsInjective
        <3>1. tabs' \in [active : Chosen, selected : Chosen, order : DashboardLists,
                         mode : {"single", "management"}]
            BY <1>1, <2>1
        <3>2. underWay' \in [op : {"none", "create", "reorder"}, order : DashboardLists]
            BY <2>1, <3>0
        <3>3. QED
            BY <2>1, <3>1, <3>2 DEF TabsInv, TabsTypes
    <2>3. tabs'.active = tabs.active /\ tabs'.selected = tabs.selected
        BY <1>1, <2>1
    <2>4. QED
        BY <1>3, <2>1, <2>2, <2>3, SwiperLeft
<1>17. CASE UNCHANGED tabVars
    BY <1>17 DEF tabVars, TabsInv, TabsTypes, SwiperTells, ChosenStays
<1>18. QED
    BY <1>4, <1>5, <1>6, <1>7, <1>8, <1>9, <1>10, <1>11, <1>12, <1>13, <1>14, <1>15,
       <1>16, <1>17 DEF TabsNext

\* Whatever lists come, whatever the user slides to, chooses, creates, deletes or
\* drags, and however the requests end, the types and what the swiper and the
\* stored state tell of each other are kept.
THEOREM TabsInvariant == TabsSpec => []TabsInv
<1>1. TabsInit => TabsInv
    BY TabsInitInv
<1>2. TabsInv /\ [TabsNext]_tabVars => TabsInv'
    BY TabsNextInv
<1>3. QED
    BY <1>1, <1>2, PTL DEF TabsSpec

LEMMA TabsInvShows == TabsInv => ShownIsChosen
<1> SUFFICES ASSUME TabsInv, Settled, tabs.mode = "single", swrViews # <<>>
             PROVE  /\ ToSet(painted.views) = ToSet(swrViews)
                    /\ painted.views[swiper.slide] = painted.active
                    /\ swiper = At(swiper.slide, painted.active)
                    /\ wanted \in {NoDashboard, painted.active}
    BY DEF ShownIsChosen
<1>1. /\ OrderedViews \in DashboardLists /\ ToSet(OrderedViews) = ToSet(swrViews)
      /\ swrViews \in Seq(Dashboards) /\ wanted \in Chosen
    BY PropsAre DEF TabsInv, TabsTypes, DashboardLists
<1>2. /\ painted.views = OrderedViews
      /\ painted.active = ResolveActiveViewId(OrderedViews, tabs.active)
    BY DEF Settled, Props
<1>3. swrViews[1] \in ToSet(swrViews)
    BY <1>1 DEF ToSet
<1>4. painted.views # <<>>
    BY <1>1, <1>2, <1>3 DEF ToSet
<1>5. wanted # NoDashboard => painted.active = wanted
    <2>1. wanted # NoDashboard => Contains(swrViews, wanted) /\ tabs.active = wanted
        BY DEF TabsInv, ChosenStays
    <2>2. QED
        BY <1>1, <1>2, <2>1, ListIs, ResolveIs
<1>6. QED
    BY <1>1, <1>2, <1>4, <1>5, WhenSettled

\* An order names every view at most once, and is no longer than there are views.
LEMMA TabsInvTyped == TabsInv => TabsTypeOK
<1> SUFFICES ASSUME TabsInv PROVE TabsTypeOK
    OBVIOUS
<1>1. DashboardLists \subseteq TabLists
    <2> SUFFICES ASSUME NEW l \in DashboardLists
                 PROVE  l \in TabLists
        OBVIOUS
    <2>1. PICK n \in Nat : n = Len(l) /\ DOMAIN l = 1..n /\ l \in [1..n -> Dashboards]
        <3>1. l \in Seq(Dashboards)
            BY DEF DashboardLists
        <3>2. QED
            BY <3>1, LenProperties
    <2>2. n <= Cardinality(Dashboards)
        <3>1. IsFiniteSet(1..n) /\ Cardinality(1..n) = n
            <4>1. 1 \in Int /\ n \in Int
                OBVIOUS
            <4>2. QED
                BY <4>1, FS_Interval
        <3>2. IsFiniteSet(Dashboards) /\ Cardinality(Dashboards) \in Nat
            BY TabsAssumption, FS_CardinalityType
        <3>3. ASSUME Cardinality(Dashboards) < n
              PROVE  FALSE
            <4>1. \E i, j \in 1..n : i # j /\ l[i] = l[j]
                BY <2>1, <3>1, <3>2, <3>3, FS_PigeonHole
            <4>2. QED
                BY <2>1, <4>1 DEF DashboardLists, IsInjective
        <3>4. QED
            BY <3>2, <3>3
    <2>3. n \in 0..Cardinality(Dashboards) /\ IsInjective(l)
        BY <2>1, <2>2, TabsAssumption, FS_CardinalityType DEF DashboardLists
    <2>4. QED
        BY <2>1, <2>3, Zenon DEF TabLists, SeqOf
<1>2. QED
    BY <1>1 DEF TabsInv, TabsTypes, TabsTypeOK, Chosen

\* For any number of views and of events: once the effects have run every view
\* has its slide, slide, dot and the next step of an arrow key are those of the
\* active view, and a view the user chose is shown, whatever views come and go
\* one at a time beside it (viewTabsState.ts, DashboardSwiper.tsx).
THEOREM ChosenIsShown == TabsSpec => []ShownIsChosen
BY TabsInvShows, TabsInvariant, PTL

-----------------------------------------------------------------------------
(***************************************************************************)
(* The update of the application                                           *)
(***************************************************************************)
Call == [awaits : Awaited, cancel : BOOLEAN, asked : {"never", "early", "late"}]
PageState == [phase : Phases, checking : BOOLEAN, requested : BOOLEAN, chunks : 0..MaxChunks]

\* What handleCheckUpdates relies on while it awaits something: its cancel ref
\* says exactly whether the user cancelled this very call.
CancelIsOfThisCall ==
    \A m \in Mounts :
        update[m].awaits # "nothing" => (update[m].cancel <=> update[m].asked # "never")

UpdateInv == UpdateTypeOK /\ UpdateAsAsked /\ CancelIsOfThisCall

\* The invariant of one mount, its call and its state.
MountOK(call, state) ==
    /\ call \in Call
    /\ state \in PageState
    /\ call.asked = "early" => call.awaits \notin {"installing", "restarting"}
    /\ state.phase = "cancelled" => call.asked # "never"
    /\ state.checking <=> call.awaits # "nothing"
    /\ state.checking => state.requested = call.cancel
    /\ call.awaits # "nothing" => (call.cancel <=> call.asked # "never")

\* Every mount keeps it.
EachMountOK ==
    /\ mount \in Mounts \cup {NoMount} /\ entered \subseteq Mounts
    /\ update \in [Mounts -> Call]
    /\ updateState \in [Mounts -> PageState]
    /\ \A m \in Mounts : MountOK(update[m], updateState[m])

\* The invariant speaks of each mount of the settings page by itself.
LEMMA ByMount == UpdateInv <=> EachMountOK
BY DEF UpdateInv, UpdateTypeOK, UpdateAsAsked, CancelIsOfThisCall, EachMountOK, MountOK,
       Call, PageState

\* A step that concerns one mount keeps the invariant if it keeps it of that
\* mount.
LEMMA OneMount ==
    ASSUME EachMountOK, NEW m \in Mounts, NEW call, NEW state,
           update' = [update EXCEPT ![m] = call],
           updateState' = [updateState EXCEPT ![m] = state],
           MountOK(call, state),
           mount' \in Mounts \cup {NoMount}, entered' \subseteq Mounts
    PROVE  EachMountOK'
<1>1. call \in Call /\ state \in PageState
    BY DEF MountOK
<1>2. update' \in [Mounts -> Call] /\ updateState' \in [Mounts -> PageState]
    BY <1>1 DEF EachMountOK
<1>3. \A o \in Mounts : /\ update'[o] = IF o = m THEN call ELSE update[o]
                        /\ updateState'[o] = IF o = m THEN state ELSE updateState[o]
    BY DEF EachMountOK
<1>4. \A o \in Mounts : MountOK(update'[o], updateState'[o])
    BY <1>3 DEF EachMountOK
<1>5. QED
    BY <1>2, <1>4 DEF EachMountOK, MountOK

\* How a call that awaited something may end or go on.
CallOver(call) == [call EXCEPT !.awaits = "nothing", !.cancel = FALSE]
StateOver(state, phase) ==
    [InitialState EXCEPT !.phase = phase, !.chunks = IF phase = "idle" THEN 0 ELSE state.chunks]

\* A page that is mounted has no call under way.
LEMMA InitialOK == MountOK(NoUpdate, InitialState)
BY UpdateBounds DEF MountOK, NoUpdate, InitialState, Call, PageState, Awaited, Phases

\* A call that is over, or cancelled, awaits nothing and cannot be cancelled.
LEMMA EndOK ==
    ASSUME NEW call, NEW state, MountOK(call, state), call.awaits # "nothing",
           NEW phase \in {"idle", "cancelled"}, phase = "cancelled" => call.cancel
    PROVE  MountOK(CallOver(call), StateOver(state, phase))
<1>1. /\ CallOver(call) \in Call
      /\ CallOver(call).awaits = "nothing" /\ CallOver(call).cancel = FALSE
      /\ CallOver(call).asked = call.asked
    BY DEF MountOK, CallOver, Call, Awaited
<1>2. /\ StateOver(state, phase).phase = phase
      /\ StateOver(state, phase).checking = FALSE
    BY DEF StateOver, InitialState
<1>3. StateOver(state, phase) \in PageState
    <2>1. InitialState \in PageState
        BY InitialOK DEF MountOK
    <2>2. state.chunks \in 0..MaxChunks /\ 0 \in 0..MaxChunks
        BY UpdateBounds DEF MountOK, PageState
    <2>3. phase \in Phases
        BY DEF Phases
    <2>4. QED
        BY <2>1, <2>2, <2>3 DEF PageState, StateOver
<1>4. QED
    BY <1>1, <1>2, <1>3 DEF MountOK

\* A call that is not cancelled awaits what it shows next.
LEMMA GoOnOK ==
    ASSUME NEW call, NEW state, MountOK(call, state), call.awaits # "nothing", ~call.cancel,
           NEW phase \in {"downloading", "installing", "restarting"}
    PROVE  MountOK([call EXCEPT !.awaits = phase], [state EXCEPT !.phase = phase])
<1> DEFINE next == [call EXCEPT !.awaits = phase]
           shows == [state EXCEPT !.phase = phase]
<1>1. /\ next \in Call
      /\ next.awaits = phase /\ next.cancel = call.cancel /\ next.asked = call.asked
    BY DEF MountOK, Call, Awaited
<1>2. /\ shows \in PageState
      /\ shows.phase = phase /\ shows.checking = state.checking
      /\ shows.requested = state.requested
    BY DEF MountOK, PageState, Phases
<1>3. QED
    BY <1>1, <1>2 DEF MountOK

\* The two ways on from an await, as they are written in the model.
LEMMA OverInv ==
    ASSUME EachMountOK, NEW m \in Mounts, update[m].awaits # "nothing",
           NEW phase \in {"idle", "cancelled"}, phase = "cancelled" => update[m].cancel,
           Over(m, phase),
           mount' = mount, entered' = entered
    PROVE  EachMountOK'
<1>1. /\ update' = [update EXCEPT ![m] = CallOver(update[m])]
      /\ updateState' = [updateState EXCEPT ![m] = StateOver(updateState[m], phase)]
    BY DEF Over, CallOver, StateOver
<1>2. MountOK(CallOver(update[m]), StateOver(updateState[m], phase))
    <2>1. MountOK(update[m], updateState[m])
        BY DEF EachMountOK
    <2>2. QED
        BY <2>1, EndOK
<1>3. mount' \in Mounts \cup {NoMount} /\ entered' \subseteq Mounts
    BY DEF EachMountOK
<1>4. QED
    BY <1>1, <1>2, <1>3, OneMount

\* What was awaited is there: the call goes on, unless it was cancelled.
LEMMA ProceedsInv ==
    ASSUME EachMountOK, NEW m \in Mounts, update[m].awaits # "nothing",
           NEW phase \in {"downloading", "installing", "restarting"},
           Proceeds(m, phase),
           mount' = mount, entered' = entered
    PROVE  EachMountOK'
<1>1. CASE update[m].cancel
    BY <1>1, OverInv DEF Proceeds
<1>2. CASE ~update[m].cancel
    <2>1. /\ update' = [update EXCEPT ![m] = [update[m] EXCEPT !.awaits = phase]]
          /\ updateState' = [updateState EXCEPT ![m] = [updateState[m] EXCEPT !.phase = phase]]
        BY <1>2 DEF Proceeds
    <2>2. MountOK([update[m] EXCEPT !.awaits = phase], [updateState[m] EXCEPT !.phase = phase])
        <3>1. MountOK(update[m], updateState[m])
            BY DEF EachMountOK
        <3>2. QED
            BY <1>2, <3>1, GoOnOK
    <2>3. mount' \in Mounts \cup {NoMount} /\ entered' \subseteq Mounts
        BY DEF EachMountOK
    <2>4. QED
        BY <2>1, <2>2, <2>3, OneMount
<1>3. QED
    BY <1>1, <1>2

-----------------------------------------------------------------------------
\* A click starts a call with fresh refs ...
LEMMA CheckInv == EachMountOK /\ HandleCheckUpdates => EachMountOK'
<1> SUFFICES ASSUME EachMountOK, HandleCheckUpdates PROVE EachMountOK'
    OBVIOUS
<1> DEFINE call == [NoUpdate EXCEPT !.awaits = "checking"]
           state == [InitialState EXCEPT !.phase = "checking", !.checking = TRUE]
<1>1. mount \in Mounts /\ mount' = mount /\ entered' = entered
    BY DEF HandleCheckUpdates, EachMountOK
<1>2. /\ update' = [update EXCEPT ![mount] = call]
      /\ updateState' = [updateState EXCEPT ![mount] = state]
    BY DEF HandleCheckUpdates
<1>3. MountOK(call, state)
    <2>1. NoUpdate \in Call /\ InitialState \in PageState
        BY InitialOK DEF MountOK
    <2>2. /\ call \in Call
          /\ call.awaits = "checking" /\ call.cancel = FALSE /\ call.asked = "never"
        BY <2>1 DEF Call, Awaited, NoUpdate
    <2>3. /\ state \in PageState
          /\ state.phase = "checking" /\ state.checking = TRUE /\ state.requested = FALSE
        BY <2>1 DEF PageState, Phases, InitialState
    <2> HIDE DEF call, state
    <2>4. QED
        BY <2>2, <2>3 DEF MountOK
<1>4. mount' \in Mounts \cup {NoMount} /\ entered' \subseteq Mounts
    BY <1>1 DEF EachMountOK
<1>5. QED
    BY <1>1, <1>2, <1>3, <1>4, OneMount

\* ... and another cancels it, whatever it awaits by then: the button was
\* rendered while it downloaded.
LEMMA CancelInv == EachMountOK /\ HandleCancelUpdate => EachMountOK'
<1> SUFFICES ASSUME EachMountOK, HandleCancelUpdate PROVE EachMountOK'
    OBVIOUS
<1> DEFINE was == update[mount]
           when == CASE was.awaits = "downloading" -> "early"
                     [] was.awaits = "nothing" -> was.asked
                     [] OTHER -> "late"
           call == [was EXCEPT !.cancel = TRUE, !.asked = when]
           state == [updateState[mount] EXCEPT !.requested = TRUE]
<1>1. mount \in Mounts /\ mount' = mount /\ entered' = entered
    BY DEF HandleCancelUpdate, EachMountOK
<1>2. update' = [update EXCEPT ![mount] = call]
    BY DEF HandleCancelUpdate
<1>3. updateState' = [updateState EXCEPT ![mount] = state]
    BY DEF HandleCancelUpdate
<1>4. MountOK(was, updateState[mount])
    BY <1>1 DEF EachMountOK
<1>5. when \in {"never", "early", "late"}
    BY <1>4 DEF MountOK, Call
<1>6. /\ call \in Call
      /\ call.awaits = was.awaits /\ call.cancel = TRUE /\ call.asked = when
    BY <1>4, <1>5 DEF MountOK, Call
<1>7. /\ state \in PageState
      /\ state.phase = updateState[mount].phase
      /\ state.checking = updateState[mount].checking
      /\ state.requested = TRUE
    BY <1>4 DEF MountOK, PageState
<1>8. MountOK(call, state)
    <2> HIDE DEF call, state
    <2>1. was.awaits = "nothing" => when = was.asked
        OBVIOUS
    <2>2. was.awaits # "nothing" => when # "never"
        OBVIOUS
    <2>3. when = "early" => was.awaits \notin {"installing", "restarting"}
        BY <1>4, <2>1 DEF MountOK
    <2>4. updateState[mount].phase = "cancelled" => when # "never"
        BY <1>4, <2>1, <2>2 DEF MountOK
    <2> HIDE DEF when, was
    <2>5. updateState[mount].checking <=> was.awaits # "nothing"
        BY <1>4 DEF MountOK
    <2>6. QED
        BY <1>6, <1>7, <2>2, <2>3, <2>4, <2>5 DEF MountOK
<1>9. mount' \in Mounts \cup {NoMount} /\ entered' \subseteq Mounts
    BY <1>1 DEF EachMountOK
<1>10. QED
    BY <1>1, <1>2, <1>3, <1>8, <1>9, OneMount

\* A piece of the download: nothing but a counter.
LEMMA DownloadInv ==
    ASSUME EachMountOK, NEW m \in Mounts, DownloadEvent(m)
    PROVE  EachMountOK'
<1> DEFINE state == [updateState[m] EXCEPT !.chunks = updateState[m].chunks + 1]
<1>1. MountOK(update[m], updateState[m])
    BY DEF EachMountOK
<1>2. updateState[m].chunks + 1 \in 0..MaxChunks
    BY <1>1, UpdateBounds DEF DownloadEvent, MountOK, PageState
<1>3. /\ state \in PageState
      /\ state.phase = updateState[m].phase
      /\ state.checking = updateState[m].checking
      /\ state.requested = updateState[m].requested
    BY <1>1, <1>2 DEF MountOK, PageState
<1>4. MountOK(update[m], state)
    <2> HIDE DEF state
    <2>1. QED
        BY <1>1, <1>3 DEF MountOK
<1>5. update' = [update EXCEPT ![m] = update[m]]
    BY DEF DownloadEvent, EachMountOK
<1>6. updateState' = [updateState EXCEPT ![m] = state]
    BY DEF DownloadEvent
<1>7. mount' \in Mounts \cup {NoMount} /\ entered' \subseteq Mounts
    BY DEF DownloadEvent, EachMountOK
<1>8. QED
    BY <1>4, <1>5, <1>6, <1>7, OneMount

\* An await is answered.
LEMMA AnswerInv ==
    ASSUME EachMountOK, NEW m \in Mounts,
           \/ \E answer \in {"none", "update", "error"} : CheckAnswered(m, answer)
           \/ \E failed \in BOOLEAN : DownloadEnded(m, failed) \/ InstallEnded(m, failed)
    PROVE  EachMountOK'
<1>1. mount' = mount /\ entered' = entered /\ update[m].awaits # "nothing"
    BY DEF CheckAnswered, DownloadEnded, InstallEnded
<1>2. \/ Over(m, "idle")
      \/ \E phase \in {"downloading", "installing", "restarting"} : Proceeds(m, phase)
    BY DEF CheckAnswered, DownloadEnded, InstallEnded
<1>3. QED
    BY <1>1, <1>2, OverInv, ProceedsInv

\* The program restarts, or the call ends with an error.
LEMMA RelaunchInv ==
    ASSUME EachMountOK, NEW m \in Mounts, NEW failed \in BOOLEAN, RelaunchAnswered(m, failed)
    PROVE  EachMountOK'
<1>1. CASE failed
    BY <1>1, OverInv DEF RelaunchAnswered
<1>2. CASE ~failed
    <2>1. /\ update' = [o \in Mounts |-> NoUpdate]
          /\ updateState' = [o \in Mounts |-> InitialState]
          /\ mount' = NoMount /\ entered' = entered
        BY <1>2 DEF RelaunchAnswered
    <2>2. NoUpdate \in Call /\ InitialState \in PageState
        BY InitialOK DEF MountOK
    <2>3. QED
        BY <2>1, <2>2, InitialOK DEF EachMountOK
<1>3. QED
    BY <1>1, <1>2

-----------------------------------------------------------------------------
\* The page is opened for the first time with it,
LEMMA UpdateInitInv == UpdateInit => UpdateInv
<1>1. NoUpdate \in Call /\ InitialState \in PageState
    BY InitialOK DEF MountOK
<1>2. UpdateInit => EachMountOK
    BY <1>1, InitialOK DEF UpdateInit, EachMountOK
<1>3. QED
    BY <1>2, ByMount

\* and every step keeps it.
LEMMA UpdateNextInv == UpdateInv /\ [UpdateNext]_updateVars => UpdateInv'
<1>1. EachMountOK /\ [UpdateNext]_updateVars => EachMountOK'
    <2> SUFFICES ASSUME EachMountOK, [UpdateNext]_updateVars PROVE EachMountOK'
        OBVIOUS
    <2>1. CASE HandleCheckUpdates
        BY <2>1, CheckInv
    <2>2. CASE HandleCancelUpdate
        BY <2>2, CancelInv
    <2>3. CASE RenderUpdate \/ LeaveAbout \/ UNCHANGED updateVars
        BY <2>3 DEF RenderUpdate, LeaveAbout, updateVars, EachMountOK
    <2>4. ASSUME NEW m \in Mounts, EnterAbout(m)
          PROVE  EachMountOK'
        BY <2>4 DEF EnterAbout, EachMountOK
    <2>5. ASSUME NEW m \in Mounts, DownloadEvent(m)
          PROVE  EachMountOK'
        BY <2>5, DownloadInv
    <2>6. ASSUME NEW m \in Mounts,
                 \/ \E answer \in {"none", "update", "error"} : CheckAnswered(m, answer)
                 \/ \E failed \in BOOLEAN : DownloadEnded(m, failed) \/ InstallEnded(m, failed)
          PROVE  EachMountOK'
        BY <2>6, AnswerInv
    <2>7. ASSUME NEW m \in Mounts, NEW failed \in BOOLEAN, RelaunchAnswered(m, failed)
          PROVE  EachMountOK'
        BY <2>7, RelaunchInv
    <2>8. QED
        BY <2>1, <2>2, <2>3, <2>4, <2>5, <2>6, <2>7 DEF UpdateNext
<1>2. QED
    BY <1>1, ByMount, PTL

\* The inductive invariant: holds whenever the page is left and entered,
\* whatever was rendered when a button was pressed, and whatever the updater
\* answers.
THEOREM UpdateInvariant == UpdateSpec => []UpdateInv
BY UpdateInitInv, UpdateNextInv, PTL DEF UpdateSpec

LEMMA UpdateInvTyped == UpdateInv => UpdateTypeOK
BY DEF UpdateInv

\* The page's state, its call and its refs stay in their ranges.
THEOREM UpdateTyped == UpdateSpec => []UpdateTypeOK
BY UpdateInvTyped, UpdateInvariant, PTL

LEMMA UpdateInvAsked == UpdateInv => UpdateAsAsked
BY DEF UpdateInv

\* An update that was cancelled in time is not installed, in whatever order
\* clicks, renderings and answers of the updater come, and what the page says
\* of the call is true.
THEOREM UpdateDoesAsAsked == UpdateSpec => []UpdateAsAsked
BY UpdateInvAsked, UpdateInvariant, PTL

=============================================================================
