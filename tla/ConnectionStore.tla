--------------------------- MODULE ConnectionStore ---------------------------
(***************************************************************************)
(* The saved connections on disk and their passwords in the OS keychain:   *)
(* AddConnectionForm.handleSave, DeleteConnectionDialog, the DBeaver       *)
(* import, the native save_connection and the keychain commands.           *)
(*                                                                         *)
(* A connection is one TOML file named after it and, unless it is SQLite,  *)
(* one keychain entry named after it and its user.  No operation is a      *)
(* transaction: a save is up to three commands, a deletion two, and every  *)
(* one may fail.  The form can be cancelled while its save goes on, so     *)
(* that a deletion or an import may run beside it; the application may be  *)
(* killed anywhere.                                                        *)
(*                                                                         *)
(* Data: names are their slugs, and the form's and the native library's    *)
(* slugs agree (names with runs of blanks are not modelled).  Of a file we *)
(* keep its user, NoUser for SQLite.                                       *)
(***************************************************************************)
EXTENDS Integers

CONSTANTS Slugs, Users, NoUser, Passwords, Absent,
          Import   \* the connection DBeaver exports: its slug, user, password

ASSUME StoreAssumption ==
  /\ Passwords # {}
  /\ NoUser \notin Users /\ Absent \notin Passwords \cup Users \cup Slugs \cup {NoUser}
  /\ Import \in [slug : Slugs, user : Users, password : Passwords \cup {Absent}]

VARIABLES
  files,      \* the user of every connection file
  keychain,   \* the password under every reference
  list,       \* `connections`, as the sidebar shows them
  form,       \* showAddForm and editingConnection
  saving,     \* the call of handleSave
  deletion,   \* the connection whose file was deleted, its secret not yet
  import,     \* where the DBeaver import is
  reloads,    \* loadConnections was called and has not been answered
  overlapped  \* history: two of save, deletion and import were in flight at once

storeVars == <<files, keychain, list, form, saving, deletion, import, reloads, overlapped>>

Refs == Slugs \X Users
NoFiles == [s \in Slugs |-> Absent]
NewConnection == [slug |-> Absent, user |-> Absent]    \* editingConnection: null
NotSaving == [pc |-> "idle", edit |-> NewConnection, slug |-> Absent, user |-> Absent,
              password |-> Absent, had |-> Absent]
NoDeletion == NewConnection

\* A credential_ref, or "" which no entry has.
SecretOf(slug, user) == IF user \in Users THEN keychain[<<slug, user>>] ELSE Absent
Without(slug, user) == IF user \in Users THEN [keychain EXCEPT ![<<slug, user>>] = Absent] ELSE keychain

StoreInit ==
  /\ files \in {[NoFiles EXCEPT ![s] = u] : s \in Slugs, u \in Users}
  /\ keychain = [r \in Refs |-> IF files[r[1]] = r[2] THEN CHOOSE p \in Passwords : TRUE ELSE Absent]
  /\ list = NoFiles
  /\ form = [open |-> FALSE, edit |-> NewConnection]
  /\ saving = NotSaving /\ deletion = NoDeletion /\ import = "idle"
  /\ reloads = TRUE
  /\ overlapped = FALSE

StoreBusy == saving.pc # "idle" \/ deletion # NoDeletion \/ import # "idle"
Launched == overlapped' = (overlapped \/ StoreBusy)

-----------------------------------------------------------------------------
(* The form.                                                               *)

ListLoaded ==
  /\ reloads
  /\ reloads' = FALSE
  /\ list' \in {list, files}
  /\ UNCHANGED <<files, keychain, form, saving, deletion, import, overlapped>>

InSidebar == {e \in [slug : Slugs, user : Users \cup {NoUser}] : list[e.slug] = e.user}

OpenForm(edit) ==
  /\ ~form.open
  /\ edit = NewConnection \/ edit \in InSidebar
  /\ form' = [open |-> TRUE, edit |-> edit]
  /\ UNCHANGED <<files, keychain, list, saving, deletion, import, reloads, overlapped>>

CancelForm ==
  /\ form.open
  /\ form' = [open |-> FALSE, edit |-> NewConnection]
  /\ UNCHANGED <<files, keychain, list, saving, deletion, import, reloads, overlapped>>

\* What Save captures: the fields may hold anything by now.
Captured(slug, user, password) ==
  [pc |-> "file", edit |-> form.edit, slug |-> slug, user |-> user, password |-> password,
   had |-> IF form.edit.user = user THEN SecretOf(form.edit.slug, user) ELSE Absent]

-----------------------------------------------------------------------------
(* The native save_connection, and what handleSave does with its answer.   *)

\* A connection that was renamed loses its old file first.
OldRemoved(edit, slug) ==
  IF edit.slug # Absent /\ edit.slug # slug THEN [files EXCEPT ![edit.slug] = Absent] ELSE files

AfterFile(s) ==
  LET renamed == <<s.edit.slug, s.edit.user>> # <<s.slug, s.user>> IN
  CASE s.user = NoUser                                    -> "saved"
    [] s.user # NoUser /\ s.password # Absent             -> "store"
    [] s.user # NoUser /\ s.password = Absent
         /\ s.edit # NewConnection /\ renamed             -> "migrate"
    [] OTHER                                              -> "saved"

\* Save is pressed, and the file written.
FileSaved(slug, user, password) ==
  LET s == Captured(slug, user, password) IN
  /\ form.open /\ saving.pc = "idle"
  /\ files' = [OldRemoved(s.edit, slug) EXCEPT ![slug] = user]
  /\ saving' = [s EXCEPT !.pc = AfterFile(s)]
  /\ Launched
  /\ UNCHANGED <<keychain, list, form, deletion, import, reloads>>

\* Save is pressed and refused before anything was touched, or the file could
\* not be written after the old one was removed.
FileRefused(slug) ==
  /\ form.open /\ saving.pc = "idle"
  /\ files' \in {files, OldRemoved(form.edit, slug)}
  /\ UNCHANGED <<keychain, list, form, saving, deletion, import, reloads, overlapped>>

\* Mutant of SecretStored: every edit is cleaned up after, renamed or not.
StoredThenCleaned ==
  /\ saving.pc = "store"
  /\ keychain' = [keychain EXCEPT ![<<saving.slug, saving.user>>] = saving.password]
  /\ saving' = [saving EXCEPT !.pc = IF saving.edit # NewConnection THEN "cleanup" ELSE "saved"]
  /\ UNCHANGED <<files, list, form, deletion, import, reloads, overlapped>>

SecretStored ==
  /\ saving.pc = "store"
  /\ keychain' = [keychain EXCEPT ![<<saving.slug, saving.user>>] = saving.password]
  /\ saving' = [saving EXCEPT !.pc =
       IF /\ saving.edit # NewConnection
          /\ <<saving.edit.slug, saving.edit.user>> # <<saving.slug, saving.user>>
       THEN "cleanup" ELSE "saved"]
  /\ UNCHANGED <<files, list, form, deletion, import, reloads, overlapped>>

OldSecretDeleted ==
  /\ saving.pc = "cleanup"
  /\ keychain' = Without(saving.edit.slug, saving.edit.user)
  /\ saving' = [saving EXCEPT !.pc = "saved"]
  /\ UNCHANGED <<files, list, form, deletion, import, reloads, overlapped>>

\* An entry is found by its reference and its user: under the new user there is
\* none, so that a changed user has nothing to migrate.
Migrant(s) == IF s.edit.user = s.user THEN SecretOf(s.edit.slug, s.user) ELSE Absent
Copied(s) == [keychain EXCEPT ![<<s.slug, s.user>>] = Migrant(s)]

\* Mutant of SecretMigrated: the old entry is deleted although the new one was
\* not written.
MigratedDespiteError ==
  /\ saving.pc = "migrate"
  /\ keychain' \in {Copied(saving), [Copied(saving) EXCEPT ![<<saving.edit.slug, saving.user>>] = Absent],
                    Without(saving.edit.slug, saving.edit.user)}
  /\ saving' = [saving EXCEPT !.pc = "saved"]
  /\ UNCHANGED <<files, list, form, deletion, import, reloads, overlapped>>

\* Written under the new reference, then deleted under the old, which may fail.
SecretMigrated ==
  /\ saving.pc = "migrate"
  /\ \/ Migrant(saving) = Absent /\ UNCHANGED keychain
     \/ /\ Migrant(saving) # Absent
        /\ keychain' \in {Copied(saving), [Copied(saving) EXCEPT ![<<saving.edit.slug, saving.user>>] = Absent]}
  /\ saving' = [saving EXCEPT !.pc = "saved"]
  /\ UNCHANGED <<files, list, form, deletion, import, reloads, overlapped>>

\* A keychain command threw: the message is shown and the form stays.
KeychainThrew ==
  /\ saving.pc \in {"store", "cleanup", "migrate"}
  /\ saving' = NotSaving
  /\ UNCHANGED <<files, keychain, list, form, deletion, import, reloads, overlapped>>

\* onSave: CLOSE_FORM, whichever form is open by now, and the list reloads.
Saved ==
  /\ saving.pc = "saved"
  /\ saving' = NotSaving
  /\ form' = [open |-> FALSE, edit |-> NewConnection]
  /\ reloads' = TRUE
  /\ UNCHANGED <<files, keychain, list, deletion, import, overlapped>>

-----------------------------------------------------------------------------
(* Deleting a connection of the list.                                      *)

\* Confirmed in the dialog.  The file first: when that fails nothing is changed.
DeleteFile(s) ==
  /\ ~form.open /\ deletion = NoDeletion /\ list[s] # Absent
  /\ files[s] # Absent
  /\ files' = [files EXCEPT ![s] = Absent]
  /\ deletion' = [slug |-> s, user |-> list[s]]
  /\ Launched
  /\ UNCHANGED <<keychain, list, form, saving, import, reloads>>

\* Then its secret, as far as the keychain allows.
DeleteSecret ==
  /\ deletion # NoDeletion
  /\ keychain' \in {keychain, Without(deletion.slug, deletion.user)}
  /\ deletion' = NoDeletion
  /\ reloads' = TRUE
  /\ UNCHANGED <<files, list, form, saving, import, overlapped>>

-----------------------------------------------------------------------------
(* The DBeaver import: a save without an existing file, and its password.  *)

StartImport ==
  /\ import = "idle" /\ ~form.open
  /\ import' = "file"
  /\ Launched
  /\ UNCHANGED <<files, keychain, list, form, saving, deletion, reloads>>

ImportFile ==
  /\ import = "file"
  /\ \/ /\ files' = [files EXCEPT ![Import.slug] = Import.user]
        /\ import' = IF Import.password # Absent THEN "store" ELSE "imported"
     \/ import' = "imported" /\ UNCHANGED files
  /\ UNCHANGED <<keychain, list, form, saving, deletion, reloads, overlapped>>

ImportSecret ==
  /\ import = "store"
  /\ keychain' \in {keychain, [keychain EXCEPT ![<<Import.slug, Import.user>>] = Import.password]}
  /\ import' = "imported"
  /\ UNCHANGED <<files, list, form, saving, deletion, reloads, overlapped>>

ImportDone ==
  /\ import = "imported"
  /\ import' = "idle"
  /\ reloads' = TRUE
  /\ UNCHANGED <<files, keychain, list, form, saving, deletion, overlapped>>

\* The application is killed, between two commands or inside one that makes two
\* changes, and started again.
Killed ==
  /\ files' \in {files} \cup
       (IF form.open THEN {OldRemoved(form.edit, s) : s \in Slugs} ELSE {})
  /\ keychain' \in {keychain} \cup
       (IF saving.pc = "migrate" /\ Migrant(saving) # Absent THEN {Copied(saving)} ELSE {})
  /\ list' = NoFiles
  /\ form' = [open |-> FALSE, edit |-> NewConnection]
  /\ saving' = NotSaving /\ deletion' = NoDeletion /\ import' = "idle"
  /\ reloads' = TRUE
  /\ UNCHANGED overlapped

-----------------------------------------------------------------------------

StoreNext ==
  \/ ListLoaded \/ CancelForm
  \/ \E edit \in InSidebar \cup {NewConnection} : OpenForm(edit)
  \/ \E s \in Slugs, u \in Users \cup {NoUser}, p \in Passwords \cup {Absent} : FileSaved(s, u, p)
  \/ \E s \in Slugs : FileRefused(s) \/ DeleteFile(s)
  \/ SecretStored \/ OldSecretDeleted \/ SecretMigrated
  \/ KeychainThrew \/ Saved
  \/ DeleteSecret
  \/ StartImport \/ ImportFile \/ ImportSecret \/ ImportDone
  \/ Killed

StoreSpec == StoreInit /\ [][StoreNext]_storeVars

-----------------------------------------------------------------------------
(* Properties                                                              *)

StoreTypeOK ==
  /\ files \in [Slugs -> Users \cup {NoUser, Absent}]
  /\ keychain \in [Refs -> Passwords \cup {Absent}]
  /\ list \in [Slugs -> Users \cup {NoUser, Absent}]

\* A save that reports success, with nothing beside it, has left the connection
\* on disk with its secret: the password typed or, when the connection keeps
\* its user, the one it had, under whatever name it has now.  However often a
\* rename fails or is killed on the way, the secret it is about is in the
\* keychain, under the old reference or the new one.
SavedWithItsSecret ==
  ~overlapped =>
    /\ saving.pc = "saved" /\ saving.user \in Users =>
         /\ files[saving.slug] = saving.user
         /\ saving.password # Absent => SecretOf(saving.slug, saving.user) = saving.password
         /\ saving.password = Absent /\ saving.had # Absent =>
              SecretOf(saving.slug, saving.user) = saving.had
    /\ saving.pc # "idle" /\ saving.password = Absent /\ saving.had # Absent =>
         saving.had \in {SecretOf(saving.edit.slug, saving.user), SecretOf(saving.slug, saving.user)}

\* No step deletes a secret that a connection on disk still refers to, as long
\* as saves, deletions and imports do not overlap.
NoSecretOfAnother ==
  [][~overlapped' => \A r \in Refs :
       keychain[r] # Absent /\ keychain'[r] = Absent => files'[r[1]] # r[2]]_storeVars
=============================================================================
