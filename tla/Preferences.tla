----------------------------- MODULE Preferences -----------------------------
(***************************************************************************)
(* The settings (settingsReducer, SettingsModal, load_settings and         *)
(* save_settings) and the lock of an idle window that obeys one of them.   *)
(*                                                                         *)
(* The dialog edits a draft.  Save writes the draft of the click to disk   *)
(* and then promotes the draft of the answer.  The sidebar takes a new     *)
(* draft when it opens the dialog, the palette does not.                   *)
(*                                                                         *)
(* The lock is a timer that activity starts again.  Its listeners are      *)
(* attached when `locked` changes and keep the settings of that moment;    *)
(* what happens within half a second of the activity before is ignored.    *)
(*                                                                         *)
(* Data: two of the eight settings stand for all, the one the lock reads   *)
(* and the one that is copied to a flag of its own.                        *)
(***************************************************************************)
EXTENDS Integers

CONSTANTS Minutes,   \* values of lockTimeoutMins, 0 for never
          Nothing    \* no call in flight

ASSUME PreferencesAssumption == Minutes \subseteq Nat /\ 15 \in Minutes

Settings == [lockTimeoutMins : Minutes, auditLogEnabled : BOOLEAN]
Fields == {"lockTimeoutMins", "auditLogEnabled"}
DefaultSettings == [lockTimeoutMins |-> 15, auditLogEnabled |-> FALSE]

ASSUME NothingAssumption == Nothing \notin Settings \cup [content : Settings, edits : SUBSET Fields]

VARIABLES
  disk,      \* settings.toml
  stored,    \* localStorage's dbark_audit_log is "true"
  prefs,     \* the reducer's state
  reading,   \* what load_settings will answer, until it has
  writing,   \* the save in flight
  lock,      \* locked, the lockTimeoutMins its listeners captured, timer armed
  recent,    \* the last activity was less than 500 ms ago
  edits,     \* history: fields edited since the dialog was opened, or all of
             \* them when its draft was not a new copy of loaded settings
  diverged,  \* history: the load failed, or the draft changed under a save or
             \* a save started before the load was answered
  stirred    \* history: activity was counted since the window was unlocked

prefsVars == <<disk, stored, prefs, reading, writing, lock, recent, edits, diverged, stirred>>
lockVars == <<lock, recent, stirred>>

FreshPrefs(audit) ==
  [settings |-> DefaultSettings, draft |-> DefaultSettings, showSettings |-> FALSE, auditLogEnabled |-> audit]

\* lastActivity is the time of mounting, so that the call that should start the
\* timer then does nothing.
Mounted == [locked |-> FALSE, captured |-> DefaultSettings.lockTimeoutMins, armed |-> FALSE]

PrefsInit ==
  /\ disk \in Settings /\ stored \in BOOLEAN
  /\ prefs = FreshPrefs(stored)
  /\ reading = disk /\ writing = Nothing
  /\ lock = Mounted /\ recent = TRUE
  /\ edits = Fields /\ diverged = FALSE /\ stirred = FALSE

-----------------------------------------------------------------------------
(* Settings.                                                               *)

\* A dispatch that leaves the state p.
Dispatched(p) ==
  /\ prefs' = p
  /\ diverged' = (diverged \/ (writing # Nothing /\ p.draft # prefs.draft))

SettingsLoaded ==
  /\ reading # Nothing
  /\ prefs' = [prefs EXCEPT !.settings = reading, !.auditLogEnabled = reading.auditLogEnabled]
  /\ reading' = Nothing
  /\ UNCHANGED <<disk, stored, writing, lockVars, edits, diverged>>

SettingsNotLoaded ==
  /\ reading # Nothing
  /\ reading' = Nothing
  /\ diverged' = TRUE
  /\ UNCHANGED <<disk, stored, prefs, writing, lockVars, edits>>

\* Mutant of OpenFromSidebar: opened as the palette does.
OpenAsItWas ==
  /\ ~prefs.showSettings /\ ~lock.locked
  /\ Dispatched([prefs EXCEPT !.showSettings = TRUE])
  /\ edits' = IF reading = Nothing THEN {} ELSE Fields
  /\ UNCHANGED <<disk, stored, reading, writing, lockVars>>

OpenFromSidebar ==
  /\ ~prefs.showSettings /\ ~lock.locked
  /\ Dispatched([prefs EXCEPT !.draft = prefs.settings, !.showSettings = TRUE])
  /\ edits' = IF reading = Nothing THEN {} ELSE Fields
  /\ UNCHANGED <<disk, stored, reading, writing, lockVars>>

OpenFromPalette ==
  /\ ~prefs.showSettings /\ ~lock.locked
  /\ Dispatched([prefs EXCEPT !.showSettings = TRUE])
  /\ edits' = Fields
  /\ UNCHANGED <<disk, stored, reading, writing, lockVars>>

CloseSettings ==
  /\ prefs.showSettings /\ ~lock.locked
  /\ Dispatched([prefs EXCEPT !.showSettings = FALSE])
  /\ UNCHANGED <<disk, stored, reading, writing, lockVars, edits>>

EditField(f, v) ==
  /\ prefs.showSettings /\ ~lock.locked
  /\ Dispatched([prefs EXCEPT !.draft[f] = v])
  /\ edits' = edits \cup {f}
  /\ UNCHANGED <<disk, stored, reading, writing, lockVars>>

ResetDraft ==
  /\ prefs.showSettings /\ ~lock.locked
  /\ Dispatched([prefs EXCEPT !.draft = DefaultSettings])
  /\ edits' = Fields
  /\ UNCHANGED <<disk, stored, reading, writing, lockVars>>

\* One save in flight at a time.
SaveSettings ==
  /\ prefs.showSettings /\ ~lock.locked /\ writing = Nothing
  /\ writing' = [content |-> prefs.draft, edits |-> edits]
  /\ diverged' = (diverged \/ reading # Nothing)
  /\ UNCHANGED <<disk, stored, prefs, reading, lockVars, edits>>

Committed(p) ==
  [p EXCEPT !.settings = p.draft, !.auditLogEnabled = p.draft.auditLogEnabled, !.showSettings = FALSE]

SettingsSaved ==
  /\ writing # Nothing
  /\ disk' = writing.content
  /\ prefs' = Committed(prefs)
  /\ writing' = Nothing
  /\ UNCHANGED <<stored, reading, lockVars, edits, diverged>>

\* Mutant of SettingsNotSaved: committed although nothing was written.
CommittedAnyway ==
  /\ writing # Nothing
  /\ prefs' = Committed(prefs)
  /\ writing' = Nothing
  /\ UNCHANGED <<disk, stored, reading, lockVars, edits, diverged>>

SettingsNotSaved ==
  /\ writing # Nothing
  /\ writing' = Nothing
  /\ UNCHANGED <<disk, stored, prefs, reading, lockVars, edits, diverged>>

\* The button of the toolbar; the flag is read again at the next start, until
\* the settings arrive.
ToggleAudit ==
  /\ ~prefs.showSettings /\ ~lock.locked
  /\ prefs' = [prefs EXCEPT !.auditLogEnabled = ~@]
  /\ stored' = prefs'.auditLogEnabled
  /\ UNCHANGED <<disk, reading, writing, lockVars, edits, diverged>>

-----------------------------------------------------------------------------
(* The lock.                                                               *)

\* Mutant of Stir: the timer is cleared before the half second is looked at.
StirTooEarly ==
  /\ lock.captured # 0
  /\ lock' = [lock EXCEPT !.armed = ~recent /\ ~lock.locked]
  /\ recent' = TRUE
  /\ stirred' = (stirred \/ (~recent /\ ~lock.locked))
  /\ UNCHANGED <<disk, stored, prefs, reading, writing, edits, diverged>>

\* An event of the mouse or the keyboard that counts: the timer starts anew,
\* unless the window is locked.
Stir ==
  /\ lock.captured # 0 /\ ~recent
  /\ recent' = TRUE
  /\ lock' = [lock EXCEPT !.armed = ~lock.locked]
  /\ stirred' = (stirred \/ ~lock.locked)
  /\ UNCHANGED <<disk, stored, prefs, reading, writing, edits, diverged>>

HalfSecond ==
  /\ recent
  /\ recent' = FALSE
  /\ UNCHANGED <<disk, stored, prefs, reading, writing, lock, edits, diverged, stirred>>

\* The effect on `locked`, with activity r before it: it attaches listeners that
\* see the settings of now, and calls one of them.
Attached(locked, r) ==
  LET minutes == prefs.settings.lockTimeoutMins
      counted == minutes # 0 /\ ~r
  IN
  /\ lock' = [locked |-> locked, captured |-> minutes, armed |-> counted /\ ~locked]
  /\ recent' = (r \/ counted)
  /\ stirred' = (counted /\ ~locked)

\* Minutes later.
LockFires ==
  /\ lock.armed /\ ~recent
  /\ Attached(TRUE, FALSE)
  /\ UNCHANGED <<disk, stored, prefs, reading, writing, edits, diverged>>

\* A click on the overlay counts as activity of the locked window, under the
\* settings of its listeners or under those of now.
Unlock ==
  /\ lock.locked
  /\ Attached(FALSE, recent \/ lock.captured # 0 \/ prefs.settings.lockTimeoutMins # 0)
  /\ UNCHANGED <<disk, stored, prefs, reading, writing, edits, diverged>>

-----------------------------------------------------------------------------

\* The application is closed, perhaps under a save, and started again.
Restart ==
  /\ disk' \in {disk} \cup (IF writing = Nothing THEN {} ELSE {writing.content})
  /\ prefs' = FreshPrefs(stored)
  /\ reading' = disk' /\ writing' = Nothing
  /\ lock' = Mounted /\ recent' = TRUE /\ stirred' = FALSE
  /\ edits' = Fields /\ diverged' = FALSE
  /\ UNCHANGED stored

PrefsNext ==
  \/ SettingsLoaded \/ SettingsNotLoaded
  \/ OpenFromSidebar \/ OpenFromPalette \/ CloseSettings
  \/ \E m \in Minutes : EditField("lockTimeoutMins", m)
  \/ \E b \in BOOLEAN : EditField("auditLogEnabled", b)
  \/ ResetDraft \/ SaveSettings \/ SettingsSaved \/ SettingsNotSaved \/ ToggleAudit
  \/ Stir \/ HalfSecond \/ LockFires \/ Unlock
  \/ Restart

PrefsSpec == PrefsInit /\ [][PrefsNext]_prefsVars

-----------------------------------------------------------------------------
(* Properties                                                              *)

PrefsTypeOK ==
  /\ disk \in Settings
  /\ prefs \in [settings : Settings, draft : Settings, showSettings : BOOLEAN, auditLogEnabled : BOOLEAN]
  /\ lock \in [locked : BOOLEAN, captured : Minutes, armed : BOOLEAN]
  /\ edits \subseteq Fields

\* The settings in force are those on disk, once loaded, whatever was edited,
\* cancelled, saved and refused, unless the draft changed under a save.
SettingsAreOnDisk ==
  ~diverged /\ reading = Nothing /\ writing = Nothing => prefs.settings = disk

\* A dialog opened from the sidebar changes on disk only what was edited in it:
\* neither an abandoned draft nor the defaults come back with the next save.
SavesOnlyEdits ==
  [][disk' # disk /\ ~diverged =>
       \A f \in Fields \ writing.edits : disk'[f] = disk[f]]_prefsVars

\* Once activity was counted since the window was unlocked, its lock is armed:
\* no order of events within and beyond half a second leaves it open for good.
LockArmed == ~lock.locked /\ lock.captured # 0 /\ stirred => lock.armed
=============================================================================
