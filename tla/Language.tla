------------------------------- MODULE Language -------------------------------
(***************************************************************************)
(* The language of the interface (i18n.js).  Five places ask for one, each *)
(* by applyLanguage, which loads the language's file first and switches    *)
(* when it is there: App (the server's default, unless the browser has a   *)
(* language of its own), Layout (the language of the profile), the         *)
(* dropdown of the header, the profile tab, and either of the last two     *)
(* again, to undo a choice that could not be saved.  A file may be slow or *)
(* fail, so the switches come in any order.                                *)
(***************************************************************************)
CONSTANTS Languages, Static  \* Static: the language built into the entry file

ASSUME LanguageAssumption == Static \in Languages

VARIABLES
    ui,       \* the active language
    bundles,  \* the languages whose file is there (addResourceBundle)
    stored,   \* localStorage: the language remembered by the browser
    setting,  \* the server: its default and the language of the profile
    layout,   \* Layout is mounted (the user is signed in)
    chosen,   \* the user has chosen a language in this tab (observer)
    task      \* the applyLanguage calls and the saves behind them

langVars == <<ui, bundles, stored, setting, layout, chosen, task>>

NoLanguage == "none"
Callers == {"default", "profile", "header", "tab"}

\* waiting: the caller waits for its own fetch (getAppInfo); loading: the file
\* is under way; saving: updateProfile is; undoing: the old language is loaded.
Task == [phase : {"waiting", "idle", "loading", "saving", "undoing"},
         code : Languages \cup {NoLanguage}, prev : Languages \cup {NoLanguage}]

Rest == [phase |-> "idle", code |-> NoLanguage, prev |-> NoLanguage]

LangTypeOK ==
    /\ ui \in Languages
    /\ bundles \subseteq Languages
    /\ stored \in Languages \cup {NoLanguage}
    /\ setting \in [default : Languages \cup {NoLanguage},
                    profile : Languages \cup {NoLanguage}]
    /\ layout \in BOOLEAN /\ chosen \in BOOLEAN
    /\ task \in [Callers -> Task]

\* detectInitialLang: the remembered language, or the browser's; if its file
\* cannot be loaded, i18nReady falls back to the static one.
LangInit ==
    /\ setting \in [default : Languages \cup {NoLanguage},
                    profile : Languages \cup {NoLanguage}]
    /\ stored \in Languages \cup {NoLanguage}
    /\ ui \in IF stored = NoLanguage THEN Languages ELSE {stored, Static}
    /\ bundles = {Static, ui}
    /\ layout = FALSE /\ chosen = FALSE
    /\ task = [[c \in Callers |-> Rest] EXCEPT !["default"].phase = "waiting"]

LangIdle(c) == task[c].phase = "idle"

Asks(c, code) ==
    [task EXCEPT ![c] = [phase |-> "loading", code |-> code, prev |-> ui]]

\* App: the default counts only for a browser without a choice of its own.
DefaultArrives ==
    /\ task["default"].phase = "waiting"
    /\ task' = IF setting.default # NoLanguage /\ stored = NoLanguage
               THEN Asks("default", setting.default)
               ELSE [task EXCEPT !["default"] = Rest]
    /\ UNCHANGED <<ui, bundles, stored, setting, layout, chosen>>

\* Layout mounts and applies the language of the cached user.
LayoutMounts ==
    /\ ~layout
    /\ layout' = TRUE
    /\ task' = IF setting.profile # NoLanguage
               THEN Asks("profile", setting.profile) ELSE task
    /\ UNCHANGED <<ui, bundles, stored, setting, chosen>>

\* LanguageDropdown.choose and handleLanguageChange of the profile tab: one
\* change at a time each.
Choose(c, code) ==
    /\ c \in {"header", "tab"} /\ layout /\ LangIdle(c)
    /\ c = "header" => code # ui
    /\ task' = Asks(c, code)
    /\ chosen' = TRUE
    /\ UNCHANGED <<ui, bundles, stored, setting, layout>>

\* After applyLanguage: the two menus go on to save the language, the others
\* are done.
After(c) ==
    [task EXCEPT ![c] =
       IF c \in {"header", "tab"} /\ @.phase = "loading"
       THEN [@ EXCEPT !.phase = "saving"] ELSE Rest]

BundleNeeded(code) == {code}

Target(c) == IF task[c].phase = "undoing" THEN task[c].prev ELSE task[c].code

\* A file that is there is applied before anything else happens: only
\* microtasks lie between.
Instant == {c \in Callers : task[c].phase \in {"loading", "undoing"}
                             /\ Target(c) \in bundles}

Switch(c) ==
    LET code == Target(c)
    IN /\ task[c].phase \in {"loading", "undoing"}
       /\ ui' = code
       /\ bundles' = bundles \cup BundleNeeded(code)
       /\ stored' = IF c = "default" THEN stored ELSE code
       /\ task' = After(c)
       /\ UNCHANGED <<setting, layout, chosen>>

\* The file cannot be loaded: the language stays.  The tab also takes its
\* selection back, by applying the old language again.
BundleFails(c) ==
    /\ task[c].phase = "loading" /\ task[c].code \notin bundles
    /\ task' = [task EXCEPT ![c] = IF c = "tab" THEN [@ EXCEPT !.phase = "undoing"]
                                   ELSE Rest]
    /\ UNCHANGED <<ui, bundles, stored, setting, layout, chosen>>

\* updateProfile({ preferred_language }).
Saved(c) ==
    /\ task[c].phase = "saving"
    /\ setting' = [setting EXCEPT !.profile = task[c].code]
    /\ task' = [task EXCEPT ![c] = Rest]
    /\ UNCHANGED <<ui, bundles, stored, layout, chosen>>

\* Refused, or the answer to a stored change is lost: back to the old language.
LangSaveFails(c) ==
    /\ task[c].phase = "saving"
    /\ setting' \in {setting, [setting EXCEPT !.profile = task[c].code]}
    /\ task' = [task EXCEPT ![c].phase = "undoing"]
    /\ UNCHANGED <<ui, bundles, stored, layout, chosen>>

LangStep ==
    \/ DefaultArrives \/ LayoutMounts
    \/ \E c \in Callers : \/ \E code \in Languages : Choose(c, code)
                          \/ BundleFails(c) \/ Saved(c) \/ LangSaveFails(c)

LangNext ==
    \/ Instant = {} /\ LangStep
    \/ \E c \in Callers : (Instant = {} \/ c \in Instant) /\ Switch(c)

LangSpec == LangInit /\ [][LangNext]_langVars

-----------------------------------------------------------------------------
\* The interface never shows the keys of a language whose file is missing,
\* whichever loads fail and in whatever order the others arrive.
LanguageIsLoaded == ui \in bundles

===============================================================================
