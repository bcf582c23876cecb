-------------------------- MODULE WorkbenchProofs ---------------------------
(***************************************************************************)
(* Proofs about ConnectionStore, for any names, users and passwords; about *)
(* Preferences, for any minutes of the lock; about QueryLibrary, for any   *)
(* queries, texts and overlapping calls; and about the window made of them.*)
(***************************************************************************)
EXTENDS MCWorkbench, SchemaBrowserProofs

-----------------------------------------------------------------------------
(* ConnectionStore.                                                        *)

Owners == Users \cup {NoUser}
Edits == {NewConnection} \cup [slug : Slugs, user : Owners]

StoreTyped ==
  /\ StoreTypeOK
  /\ form \in [open : BOOLEAN, edit : Edits]
  /\ saving \in [pc : {"idle", "store", "cleanup", "migrate", "saved"}, edit : Edits,
                 slug : Slugs \cup {Absent}, user : Owners \cup {Absent},
                 password : Passwords \cup {Absent}, had : Passwords \cup {Absent}]
  /\ deletion \in {NoDeletion} \cup [slug : Slugs, user : Owners]
  /\ import \in {"idle", "file", "store", "imported"}
  /\ import = "store" => Import.password # Absent
  /\ reloads \in BOOLEAN /\ overlapped \in BOOLEAN

\* What a save is about, by how far it has come.
SavingOK ==
  LET s == saving IN
  /\ s.pc # "idle" => s.slug \in Slugs /\ s.user \in Owners
  /\ s.pc \in {"store", "cleanup", "migrate"} => s.user \in Users
  /\ s.pc \in {"store", "cleanup"} => s.password # Absent
  /\ s.pc = "migrate" => s.password = Absent
  /\ s.pc \in {"cleanup", "migrate"} =>
       s.edit # NewConnection /\ <<s.edit.slug, s.edit.user>> # <<s.slug, s.user>>

\* One of save, deletion and import at a time.
Alone ==
  ~overlapped =>
    /\ saving.pc # "idle" => deletion = NoDeletion /\ import = "idle"
    /\ deletion # NoDeletion => import = "idle"

\* The files as a save or a deletion in flight has left them.
FilesDone ==
  ~overlapped =>
    /\ saving.pc # "idle" => files[saving.slug] = saving.user
    /\ saving.pc # "idle" /\ saving.edit # NewConnection /\ saving.edit.slug # saving.slug =>
         files[saving.edit.slug] = Absent
    /\ deletion # NoDeletion => files[deletion.slug] = Absent

\* Where the secret is that a save is about: under its new reference once it was
\* stored or moved, and until then where it was.
SecretPlaced ==
  LET s == saving IN
  ~overlapped =>
    /\ s.pc \in {"cleanup", "saved"} /\ s.user \in Users /\ s.password # Absent =>
         SecretOf(s.slug, s.user) = s.password
    /\ s.pc # "idle" /\ s.password = Absent /\ s.had # Absent =>
         /\ s.user \in Users /\ s.edit # NewConnection /\ s.edit.user = s.user
         /\ s.pc = "migrate" => SecretOf(s.edit.slug, s.user) = s.had
         /\ s.pc = "saved" => SecretOf(s.slug, s.user) = s.had

StoreInv == StoreTyped /\ SavingOK /\ Alone /\ FilesDone /\ SecretPlaced

\* The step of the action property.
Spared ==
  ~overlapped' => \A r \in Refs :
    keychain[r] # Absent /\ keychain'[r] = Absent => files'[r[1]] # r[2]

LEMMA Typing ==
  ASSUME StoreTyped
  PROVE  /\ files \in [Slugs -> Users \cup {NoUser, Absent}]
         /\ keychain \in [Refs -> Passwords \cup {Absent}]
         /\ list \in [Slugs -> Users \cup {NoUser, Absent}]
         /\ form.open \in BOOLEAN /\ form.edit \in Edits /\ saving.edit \in Edits
         /\ overlapped \in BOOLEAN
  BY DEF StoreTyped, StoreTypeOK

LEMMA OfEdit ==
  ASSUME NEW e \in Edits
  PROVE  /\ e # NewConnection => e.slug \in Slugs /\ e.user \in Owners /\ e.slug # Absent
         /\ e.slug # Absent => e # NewConnection
         /\ e.user \in Owners => e # NewConnection
  BY StoreAssumption DEF Edits, NewConnection, Owners

LEMMA SecretTyped ==
  ASSUME StoreTyped, NEW s \in Slugs, NEW u
  PROVE  /\ SecretOf(s, u) \in Passwords \cup {Absent}
         /\ u \notin Users => SecretOf(s, u) = Absent
         /\ u \in Users => SecretOf(s, u) = keychain[<<s, u>>] /\ <<s, u>> \in Refs
  BY DEF StoreTyped, StoreTypeOK, SecretOf, Refs

\* One entry is written or deleted.
Entered(s, u, p) == [keychain EXCEPT ![<<s, u>>] = p]

LEMMA Written ==
  ASSUME StoreTyped, NEW s \in Slugs, NEW u \in Users, NEW p \in Passwords \cup {Absent}
  PROVE  /\ Entered(s, u, p) \in [Refs -> Passwords \cup {Absent}] /\ Entered(s, u, p)[<<s, u>>] = p
         /\ \A r \in Refs : r # <<s, u>> => Entered(s, u, p)[r] = keychain[r]
<1>1. <<s, u>> \in Refs
  BY DEF Refs
<1> QED BY <1>1, Typing DEF Entered

\* Steps that leave the keychain alone.
LEMMA Untouched ==
  ASSUME UNCHANGED keychain
  PROVE  Spared
  BY DEF Spared

\* A file that is removed, one at most.
LEMMA Removed ==
  ASSUME StoreTyped, NEW slug \in Slugs, NEW n, n = OldRemoved(form.edit, slug)
  PROVE  /\ n \in [Slugs -> Users \cup {NoUser, Absent}]
         /\ \A s \in Slugs : n[s] \in {files[s], Absent}
         /\ form.edit.slug # Absent /\ form.edit.slug # slug => n[form.edit.slug] = Absent
<1>1. form.edit.slug # Absent => form.edit.slug \in Slugs
  BY Typing, OfEdit
<1> QED BY <1>1, Typing DEF OldRemoved

-----------------------------------------------------------------------------
(* The form.                                                               *)

LEMMA FormStep ==
  ASSUME StoreInv, ListLoaded \/ CancelForm \/ \E edit \in InSidebar \cup {NewConnection} : OpenForm(edit)
  PROVE  StoreInv' /\ Spared
<1> USE DEF StoreInv
<1>1. UNCHANGED <<files, keychain, saving, deletion, import, overlapped>>
  BY DEF ListLoaded, CancelForm, OpenForm
<1>2. list' \in [Slugs -> Users \cup {NoUser, Absent}] /\ form' \in [open : BOOLEAN, edit : Edits] /\ reloads' \in BOOLEAN
  <2>1. CASE ListLoaded
    BY <2>1, Typing DEF ListLoaded, StoreTyped
  <2>2. CASE CancelForm
    BY <2>2, Typing DEF CancelForm, StoreTyped, Edits
  <2>3. ASSUME NEW edit \in InSidebar \cup {NewConnection}, OpenForm(edit)
        PROVE  list' = list /\ form' \in [open : BOOLEAN, edit : Edits] /\ reloads' = reloads
    BY <2>3 DEF OpenForm, InSidebar, Edits, Owners
  <2> QED BY <2>1, <2>2, <2>3, Typing DEF StoreTyped
<1>3. StoreTyped'
  BY <1>1, <1>2 DEF StoreTyped, StoreTypeOK
<1>4. SavingOK' /\ Alone' /\ FilesDone' /\ SecretPlaced'
  BY <1>1 DEF SavingOK, Alone, FilesDone, SecretPlaced, SecretOf
<1> QED BY <1>1, <1>3, <1>4, Untouched

LEMMA SaveStep ==
  ASSUME StoreInv, NEW slug \in Slugs, NEW user \in Owners, NEW password \in Passwords \cup {Absent},
         FileSaved(slug, user, password)
  PROVE  StoreInv' /\ Spared
<1> USE DEF StoreInv
<1> DEFINE e == form.edit
           s == Captured(slug, user, password)
           old == OldRemoved(e, slug)
<1>1. /\ UNCHANGED <<keychain, list, form, deletion, import, reloads>>
      /\ saving.pc = "idle" /\ files' = [OldRemoved(s.edit, slug) EXCEPT ![slug] = user]
      /\ saving' = [s EXCEPT !.pc = AfterFile(s)]
      /\ overlapped' = (overlapped \/ StoreBusy)
  BY DEF FileSaved, Launched
<1>2. /\ e \in Edits
      /\ e # NewConnection => e.slug \in Slugs /\ e.slug # Absent
      /\ e.slug # Absent => e # NewConnection
  BY Typing, OfEdit
<1>3. PICK had \in Passwords \cup {Absent} :
        /\ s = [pc |-> "file", edit |-> e, slug |-> slug, user |-> user, password |-> password, had |-> had]
        /\ had # Absent => /\ user \in Users /\ e # NewConnection /\ e.user = user
                           /\ had = SecretOf(e.slug, user)
  <2> DEFINE had == IF e.user = user THEN SecretOf(e.slug, user) ELSE Absent
  <2>1. s = [pc |-> "file", edit |-> e, slug |-> slug, user |-> user, password |-> password, had |-> had]
    BY DEF Captured
  <2>2. e.user = user => e # NewConnection
    BY <1>2, OfEdit
  <2>3. had \in Passwords \cup {Absent}
    <3>1. CASE e.user = user
      BY <1>2, <2>2, <3>1, SecretTyped
    <3>2. CASE e.user # user
      BY <3>2
    <3> QED BY <3>1, <3>2
  <2>4. had # Absent => e.user = user /\ had = SecretOf(e.slug, user)
    OBVIOUS
  <2>5. had # Absent => user \in Users
    BY <1>2, <2>2, <2>4, SecretTyped
  <2> HIDE DEF s, had
  <2> QED BY <2>1, <2>2, <2>3, <2>4, <2>5
<1>4. /\ saving' = [pc |-> AfterFile(s), edit |-> e, slug |-> slug, user |-> user, password |-> password, had |-> had]
      /\ s.edit = e /\ s.slug = slug /\ s.user = user /\ s.password = password
  <2> HIDE DEF s, e
  <2> QED BY <1>1, <1>3
<1>5. LET pc == AfterFile(s) IN
      /\ pc \in {"saved", "store", "migrate"}
      /\ pc = "store" => user \in Users /\ password # Absent
      /\ pc = "migrate" => /\ user \in Users /\ password = Absent /\ e # NewConnection
                           /\ <<e.slug, e.user>> # <<slug, user>>
      /\ pc = "saved" /\ user \in Users => password = Absent
      /\ pc = "saved" /\ user \in Users /\ e # NewConnection => <<e.slug, e.user>> = <<slug, user>>
  <2>1. AfterFile(s) =
          CASE user = NoUser -> "saved"
            [] user # NoUser /\ password # Absent -> "store"
            [] user # NoUser /\ password = Absent /\ e # NewConnection
                 /\ <<e.slug, e.user>> # <<slug, user>> -> "migrate"
            [] OTHER -> "saved"
    BY <1>4 DEF AfterFile
  <2>2. user \in Users <=> user # NoUser
    BY StoreAssumption DEF Owners
  <2> HIDE DEF s, e
  <2> QED BY <2>1, <2>2
<1> HIDE DEF s
<1>6. /\ old \in [Slugs -> Users \cup {NoUser, Absent}]
      /\ e.slug # Absent /\ e.slug # slug => old[e.slug] = Absent
      /\ files' = [old EXCEPT ![slug] = user]
  BY <1>1, <1>4, Removed
<1> HIDE DEF old, e
<1>7. /\ files' \in [Slugs -> Users \cup {NoUser, Absent}] /\ files'[slug] = user
      /\ e # NewConnection /\ e.slug # slug => files'[e.slug] = Absent
  <2>1. \A t \in Slugs : t # slug => files'[t] = old[t]
    BY <1>6
  <2> QED BY <1>2, <1>6, <2>1 DEF Owners
<1>8. StoreTyped'
  <2>1. saving' \in [pc : {"idle", "store", "cleanup", "migrate", "saved"}, edit : Edits,
                     slug : Slugs \cup {Absent}, user : Owners \cup {Absent},
                     password : Passwords \cup {Absent}, had : Passwords \cup {Absent}]
    <3> DEFINE pc == AfterFile(s)
    <3>1. pc \in {"idle", "store", "cleanup", "migrate", "saved"}
      BY <1>5
    <3> HIDE DEF pc
    <3> QED BY <1>2, <1>4, <3>1 DEF pc
  <2>2. overlapped' \in BOOLEAN
    BY <1>1 DEF StoreTyped, StoreBusy
  <2> QED BY <1>1, <1>7, <2>1, <2>2 DEF StoreTyped, StoreTypeOK
<1>9. /\ saving'.pc = AfterFile(s) /\ saving'.edit = e /\ saving'.slug = slug /\ saving'.user = user
      /\ saving'.password = password /\ saving'.had = had
  BY <1>4
<1>10. SavingOK'
  BY <1>5, <1>9 DEF SavingOK
<1>11. ~overlapped' => ~overlapped /\ deletion = NoDeletion /\ import = "idle"
  BY <1>1 DEF StoreTyped, StoreBusy
<1>12. Alone' /\ FilesDone'
  BY <1>1, <1>7, <1>9, <1>11 DEF Alone, FilesDone
<1>13. SecretPlaced'
  BY <1>1, <1>3, <1>5, <1>9 DEF SecretPlaced, SecretOf
<1> QED BY <1>1, <1>8, <1>10, <1>12, <1>13, Untouched

\* A refusal may have removed a file, while nothing of the form is in flight.
LEMMA RefuseStep ==
  ASSUME StoreInv, NEW slug \in Slugs, FileRefused(slug)
  PROVE  StoreInv' /\ Spared
<1> USE DEF StoreInv
<1>1. /\ UNCHANGED <<keychain, list, form, saving, deletion, import, reloads, overlapped>>
      /\ saving.pc = "idle" /\ files' \in {files, OldRemoved(form.edit, slug)}
  BY DEF FileRefused
<1>2. files' \in [Slugs -> Users \cup {NoUser, Absent}] /\ \A s \in Slugs : files'[s] \in {files[s], Absent}
  <2> DEFINE n == OldRemoved(form.edit, slug)
  <2>1. n \in [Slugs -> Users \cup {NoUser, Absent}] /\ \A s \in Slugs : n[s] \in {files[s], Absent}
    BY Removed
  <2> HIDE DEF n
  <2>2. files' = files \/ files' = n
    BY <1>1 DEF n
  <2> QED BY <2>1, <2>2, Typing
<1>3. StoreTyped' /\ SavingOK' /\ Alone' /\ SecretPlaced'
  BY <1>1, <1>2 DEF StoreTyped, StoreTypeOK, SavingOK, Alone, SecretPlaced, SecretOf
<1>4. FilesDone'
  <2>1. deletion # NoDeletion => deletion.slug \in Slugs
    BY DEF StoreTyped
  <2> QED BY <1>1, <1>2, <2>1 DEF FilesDone
<1> QED BY <1>1, <1>3, <1>4, Untouched

-----------------------------------------------------------------------------
(* The rest of a save.                                                     *)

LEMMA StoredStep ==
  ASSUME StoreInv, SecretStored
  PROVE  StoreInv' /\ Spared
<1> USE DEF StoreInv
<1> DEFINE pc == IF /\ saving.edit # NewConnection
                    /\ <<saving.edit.slug, saving.edit.user>> # <<saving.slug, saving.user>>
                 THEN "cleanup" ELSE "saved"
<1>1. /\ UNCHANGED <<files, list, form, deletion, import, reloads, overlapped>>
      /\ saving.pc = "store" /\ saving' = [saving EXCEPT !.pc = pc]
      /\ keychain' = Entered(saving.slug, saving.user, saving.password)
  BY DEF SecretStored, Entered
<1>2. /\ saving.slug \in Slugs /\ saving.user \in Users /\ saving.password \in Passwords \cup {Absent}
      /\ saving.password # Absent
  BY <1>1 DEF SavingOK, StoreTyped
<1>3. /\ keychain' \in [Refs -> Passwords \cup {Absent}] /\ keychain'[<<saving.slug, saving.user>>] = saving.password
      /\ \A r \in Refs : r # <<saving.slug, saving.user>> => keychain'[r] = keychain[r]
  BY <1>1, <1>2, Written
<1>4. /\ pc \in {"cleanup", "saved"}
      /\ pc = "cleanup" => saving.edit # NewConnection /\ <<saving.edit.slug, saving.edit.user>> # <<saving.slug, saving.user>>
  OBVIOUS
<1> HIDE DEF pc
<1>5. /\ saving'.pc = pc /\ saving'.edit = saving.edit /\ saving'.slug = saving.slug /\ saving'.user = saving.user
      /\ saving'.password = saving.password /\ saving'.had = saving.had
      /\ saving' \in [pc : {"idle", "store", "cleanup", "migrate", "saved"}, edit : Edits,
                      slug : Slugs \cup {Absent}, user : Owners \cup {Absent},
                      password : Passwords \cup {Absent}, had : Passwords \cup {Absent}]
  BY <1>1, <1>4 DEF StoreTyped
<1>6. StoreTyped'
  BY <1>1, <1>3, <1>5 DEF StoreTyped, StoreTypeOK
<1>7. SavingOK' /\ Alone' /\ FilesDone'
  BY <1>1, <1>2, <1>4, <1>5 DEF SavingOK, Alone, FilesDone
<1>8. SecretPlaced'
  BY <1>1, <1>2, <1>3, <1>4, <1>5 DEF SecretPlaced, SecretOf
<1>9. Spared
  BY <1>2, <1>3 DEF Spared
<1> QED BY <1>6, <1>7, <1>8, <1>9

\* The old secret is of no connection: its file is gone, or the connection has
\* another user by now.
LEMMA CleanedStep ==
  ASSUME StoreInv, OldSecretDeleted
  PROVE  StoreInv' /\ Spared
<1> USE DEF StoreInv
<1> DEFINE e == saving.edit
<1>1. /\ UNCHANGED <<files, list, form, deletion, import, reloads, overlapped>>
      /\ saving.pc = "cleanup" /\ saving' = [saving EXCEPT !.pc = "saved"]
      /\ keychain' = Without(e.slug, e.user)
  BY DEF OldSecretDeleted
<1>2. /\ saving.slug \in Slugs /\ saving.user \in Users
      /\ saving.password # Absent /\ e # NewConnection
      /\ <<e.slug, e.user>> # <<saving.slug, saving.user>>
      /\ e.slug \in Slugs /\ e.user \in Owners
  BY <1>1, Typing, OfEdit DEF SavingOK
<1>3. /\ keychain' \in [Refs -> Passwords \cup {Absent}]
      /\ \A r \in Refs : r # <<e.slug, e.user>> => keychain'[r] = keychain[r]
  <2>1. CASE e.user \in Users
    <3>1. keychain' = Entered(e.slug, e.user, Absent)
      BY <1>1, <2>1 DEF Without, Entered
    <3>2. Absent \in Passwords \cup {Absent}
      OBVIOUS
    <3> QED BY <1>2, <2>1, <3>1, <3>2, Written
  <2>2. CASE e.user \notin Users
    BY <1>1, <2>2, Typing DEF Without
  <2> QED BY <2>1, <2>2
<1>4. keychain'[<<saving.slug, saving.user>>] = keychain[<<saving.slug, saving.user>>]
  BY <1>2, <1>3 DEF Refs
<1>5. /\ saving'.pc = "saved" /\ saving'.edit = saving.edit /\ saving'.slug = saving.slug /\ saving'.user = saving.user
      /\ saving'.password = saving.password /\ saving'.had = saving.had
      /\ saving' \in [pc : {"idle", "store", "cleanup", "migrate", "saved"}, edit : Edits,
                      slug : Slugs \cup {Absent}, user : Owners \cup {Absent},
                      password : Passwords \cup {Absent}, had : Passwords \cup {Absent}]
  BY <1>1 DEF StoreTyped
<1>6. StoreTyped'
  BY <1>1, <1>3, <1>5 DEF StoreTyped, StoreTypeOK
<1>7. SavingOK' /\ Alone' /\ FilesDone'
  BY <1>1, <1>2, <1>5 DEF SavingOK, Alone, FilesDone, Owners
<1>8. SecretPlaced'
  BY <1>1, <1>2, <1>4, <1>5 DEF SecretPlaced, SecretOf
<1>9. Spared
  <2> SUFFICES ASSUME ~overlapped PROVE files[e.slug] # e.user
    BY <1>1, <1>2, <1>3 DEF Spared
  <2>1. CASE e.slug = saving.slug
    BY <1>1, <1>2, <2>1 DEF FilesDone
  <2>2. CASE e.slug # saving.slug
    BY <1>1, <1>2, <2>2, StoreAssumption DEF FilesDone, Owners
  <2> QED BY <2>1, <2>2
<1> QED BY <1>6, <1>7, <1>8, <1>9

\* The secret moves, or is copied: the file under the old name is gone by then.
LEMMA MigratedStep ==
  ASSUME StoreInv, SecretMigrated
  PROVE  StoreInv' /\ Spared
<1> USE DEF StoreInv
<1> DEFINE e == saving.edit
           p == Migrant(saving)
           copy == Copied(saving)
<1>1. /\ UNCHANGED <<files, list, form, deletion, import, reloads, overlapped>>
      /\ saving.pc = "migrate" /\ saving' = [saving EXCEPT !.pc = "saved"]
      /\ \/ p = Absent /\ keychain' = keychain
         \/ p # Absent /\ keychain' \in {copy, [copy EXCEPT ![<<e.slug, saving.user>>] = Absent]}
  BY DEF SecretMigrated
<1>2. /\ saving.slug \in Slugs /\ saving.user \in Users /\ saving.password = Absent /\ e # NewConnection
      /\ <<e.slug, e.user>> # <<saving.slug, saving.user>>
      /\ e.slug \in Slugs
      /\ <<saving.slug, saving.user>> \in Refs /\ <<e.slug, saving.user>> \in Refs
  BY <1>1, Typing, OfEdit DEF SavingOK, Refs
<1>3. p \in Passwords \cup {Absent} /\ (p # Absent => e.user = saving.user /\ p = keychain[<<e.slug, saving.user>>])
  <2>1. SecretOf(e.slug, saving.user) \in Passwords \cup {Absent} /\ SecretOf(e.slug, saving.user) = keychain[<<e.slug, saving.user>>]
    BY <1>2, SecretTyped
  <2> QED BY <2>1 DEF Migrant
<1>4. /\ copy \in [Refs -> Passwords \cup {Absent}] /\ copy[<<saving.slug, saving.user>>] = p
      /\ \A r \in Refs : r # <<saving.slug, saving.user>> => copy[r] = keychain[r]
  <2>1. copy = Entered(saving.slug, saving.user, p)
    BY DEF Copied, Entered
  <2> HIDE DEF copy, p
  <2> QED BY <1>2, <1>3, <2>1, Written
<1> HIDE DEF copy, p
<1>5. /\ keychain' \in [Refs -> Passwords \cup {Absent}]
      /\ p # Absent => keychain'[<<saving.slug, saving.user>>] = p
      /\ p = Absent => keychain' = keychain
      /\ \A r \in Refs : keychain'[r] # keychain[r] => r = <<saving.slug, saving.user>> \/ (p # Absent /\ r = <<e.slug, saving.user>>)
  <2>1. CASE p = Absent
    BY <1>1, <2>1, Typing
  <2>2. CASE p # Absent /\ keychain' = copy
    BY <1>2, <1>4, <2>2
  <2>3. CASE p # Absent /\ keychain' = [copy EXCEPT ![<<e.slug, saving.user>>] = Absent]
    <3>1. <<e.slug, saving.user>> # <<saving.slug, saving.user>>
      BY <1>2, <1>3, <2>3
    <3>2. /\ keychain' \in [Refs -> Passwords \cup {Absent}]
          /\ \A r \in Refs : r # <<e.slug, saving.user>> => keychain'[r] = copy[r]
      BY <1>2, <1>4, <2>3
    <3> QED BY <1>2, <1>4, <2>3, <3>1, <3>2
  <2> QED BY <1>1, <2>1, <2>2, <2>3
<1>6. /\ saving'.pc = "saved" /\ saving'.edit = saving.edit /\ saving'.slug = saving.slug /\ saving'.user = saving.user
      /\ saving'.password = saving.password /\ saving'.had = saving.had
      /\ saving' \in [pc : {"idle", "store", "cleanup", "migrate", "saved"}, edit : Edits,
                      slug : Slugs \cup {Absent}, user : Owners \cup {Absent},
                      password : Passwords \cup {Absent}, had : Passwords \cup {Absent}]
  BY <1>1 DEF StoreTyped
<1>7. StoreTyped'
  BY <1>1, <1>5, <1>6 DEF StoreTyped, StoreTypeOK
<1>8. SavingOK' /\ Alone' /\ FilesDone'
  BY <1>1, <1>2, <1>6 DEF SavingOK, Alone, FilesDone, Owners
<1>9. SecretPlaced'
  <2> SUFFICES ASSUME ~overlapped, saving.had # Absent PROVE keychain'[<<saving.slug, saving.user>>] = saving.had
    BY <1>1, <1>2, <1>6 DEF SecretPlaced, SecretOf
  <2>1. e.user = saving.user /\ SecretOf(e.slug, saving.user) = saving.had
    BY <1>1, <1>2 DEF SecretPlaced
  <2>2. p = saving.had
    BY <2>1 DEF p, Migrant
  <2> QED BY <1>5, <2>2
<1>10. Spared
  <2> SUFFICES ASSUME ~overlapped, NEW r \in Refs, keychain[r] # Absent, keychain'[r] = Absent
               PROVE  files[r[1]] # r[2]
    BY <1>1 DEF Spared
  <2>1. r = <<e.slug, saving.user>> /\ p # Absent
    BY <1>5
  <2>2. e.slug # saving.slug
    BY <1>2, <1>3, <2>1
  <2>3. files[e.slug] = Absent
    BY <1>1, <1>2, <2>2 DEF FilesDone
  <2> QED BY <1>2, <2>1, <2>3, StoreAssumption
<1> QED BY <1>7, <1>8, <1>9, <1>10

LEMMA SaveEndsStep ==
  ASSUME StoreInv, KeychainThrew \/ Saved
  PROVE  StoreInv' /\ Spared
<1> USE DEF StoreInv
<1>1. /\ UNCHANGED <<files, keychain, list, deletion, import, overlapped>> /\ saving' = NotSaving
      /\ form' \in {form, [open |-> FALSE, edit |-> NewConnection]} /\ reloads' \in {reloads, TRUE}
  BY DEF KeychainThrew, Saved
<1>2. /\ NotSaving.pc = "idle"
      /\ NotSaving \in [pc : {"idle", "store", "cleanup", "migrate", "saved"}, edit : Edits,
                        slug : Slugs \cup {Absent}, user : Owners \cup {Absent},
                        password : Passwords \cup {Absent}, had : Passwords \cup {Absent}]
  BY DEF NotSaving, Edits
<1>3. form' \in [open : BOOLEAN, edit : Edits]
  <2>1. [open |-> FALSE, edit |-> NewConnection] \in [open : BOOLEAN, edit : Edits]
    BY DEF Edits
  <2> QED BY <1>1, <2>1 DEF StoreTyped
<1>4. StoreTyped'
  BY <1>1, <1>2, <1>3 DEF StoreTyped, StoreTypeOK
<1>5. SavingOK' /\ Alone' /\ FilesDone' /\ SecretPlaced'
  BY <1>1, <1>2 DEF SavingOK, Alone, FilesDone, SecretPlaced
<1> QED BY <1>1, <1>4, <1>5, Untouched

-----------------------------------------------------------------------------
(* Deletion and import.                                                    *)

LEMMA DeleteFileStep ==
  ASSUME StoreInv, NEW s \in Slugs, DeleteFile(s)
  PROVE  StoreInv' /\ Spared
<1> USE DEF StoreInv
<1>1. /\ UNCHANGED <<keychain, list, form, saving, import, reloads>>
      /\ files' = [files EXCEPT ![s] = Absent] /\ deletion' = [slug |-> s, user |-> list[s]]
      /\ list[s] # Absent /\ overlapped' = (overlapped \/ StoreBusy)
  BY DEF DeleteFile, Launched
<1>2. files' \in [Slugs -> Users \cup {NoUser, Absent}] /\ files'[s] = Absent
  BY <1>1, Typing
<1>3. list[s] \in Owners
  BY <1>1, Typing DEF Owners
<1>4. deletion' \in [slug : Slugs, user : Owners] /\ deletion'.slug = s
  BY <1>1, <1>3
<1>5. StoreTyped'
  BY <1>1, <1>2, <1>4 DEF StoreTyped, StoreTypeOK, StoreBusy
<1>6. ~overlapped' => ~overlapped /\ saving.pc = "idle" /\ import = "idle"
  BY <1>1 DEF StoreTyped, StoreBusy
<1>7. SavingOK' /\ Alone' /\ FilesDone' /\ SecretPlaced'
  BY <1>1, <1>2, <1>4, <1>6 DEF SavingOK, Alone, FilesDone, SecretPlaced
<1> QED BY <1>1, <1>5, <1>7, Untouched

LEMMA DeleteSecretStep ==
  ASSUME StoreInv, DeleteSecret
  PROVE  StoreInv' /\ Spared
<1> USE DEF StoreInv
<1> DEFINE d == deletion
<1>1. /\ UNCHANGED <<files, list, form, saving, import, overlapped>>
      /\ d # NoDeletion /\ deletion' = NoDeletion /\ reloads' = TRUE
      /\ keychain' \in {keychain, Without(d.slug, d.user)}
  BY DEF DeleteSecret
<1>2. d.slug \in Slugs /\ d.user \in Owners
  BY <1>1 DEF StoreTyped
<1>3. /\ keychain' \in [Refs -> Passwords \cup {Absent}]
      /\ \A r \in Refs : r # <<d.slug, d.user>> => keychain'[r] = keychain[r]
  <2>1. CASE d.user \in Users /\ keychain' = Without(d.slug, d.user)
    <3>1. keychain' = Entered(d.slug, d.user, Absent)
      BY <2>1 DEF Without, Entered
    <3>2. Absent \in Passwords \cup {Absent} /\ d.user \in Users
      BY <2>1
    <3> HIDE DEF d
    <3>3. /\ Entered(d.slug, d.user, Absent) \in [Refs -> Passwords \cup {Absent}]
          /\ \A r \in Refs : r # <<d.slug, d.user>> => Entered(d.slug, d.user, Absent)[r] = keychain[r]
      BY <1>2, <3>2, Written
    <3> QED BY <3>1, <3>3
  <2>2. CASE d.user \notin Users \/ keychain' = keychain
    BY <1>1, <2>2, Typing DEF Without
  <2> QED BY <1>1, <2>1, <2>2
<1>4. StoreTyped' /\ SavingOK'
  BY <1>1, <1>3 DEF StoreTyped, StoreTypeOK, SavingOK
<1>5. ~overlapped => saving.pc = "idle"
  BY <1>1 DEF Alone
<1>6. Alone' /\ FilesDone' /\ SecretPlaced'
  BY <1>1, <1>5 DEF Alone, FilesDone, SecretPlaced
<1>7. Spared
  <2> SUFFICES ASSUME ~overlapped, NEW r \in Refs, keychain[r] # Absent, keychain'[r] = Absent
               PROVE  files[r[1]] # r[2]
    BY <1>1 DEF Spared
  <2>1. r = <<d.slug, d.user>>
    BY <1>3
  <2>2. files[d.slug] = Absent
    BY <1>1 DEF FilesDone
  <2> QED BY <1>2, <2>1, <2>2, StoreAssumption DEF Owners
<1> QED BY <1>4, <1>6, <1>7

LEMMA ImportStep ==
  ASSUME StoreInv, StartImport \/ ImportFile \/ ImportSecret \/ ImportDone
  PROVE  StoreInv' /\ Spared
<1> USE DEF StoreInv
<1>1. /\ UNCHANGED <<list, form, saving, deletion>> /\ reloads' \in {reloads, TRUE}
      /\ import' \in {"idle", "file", "store", "imported"}
      /\ import' = "store" => Import.password # Absent
  BY DEF StartImport, ImportFile, ImportSecret, ImportDone
<1>2. Import.slug \in Slugs /\ Import.user \in Users /\ Import.password \in Passwords \cup {Absent}
  BY StoreAssumption
<1>3. overlapped' \in BOOLEAN /\ (~overlapped' => ~overlapped /\ saving.pc = "idle" /\ deletion = NoDeletion)
  <2>1. CASE StartImport
    BY <2>1 DEF StartImport, Launched, StoreBusy, StoreTyped
  <2>2. CASE ImportFile \/ ImportSecret \/ ImportDone
    <3>1. overlapped' = overlapped /\ import # "idle"
      BY <2>2 DEF ImportFile, ImportSecret, ImportDone
    <3> QED BY <3>1, Typing DEF Alone
  <2> QED BY <2>1, <2>2
<1>4. files' \in [Slugs -> Users \cup {NoUser, Absent}]
  <2>1. files' \in {files, [files EXCEPT ![Import.slug] = Import.user]}
    BY DEF StartImport, ImportFile, ImportSecret, ImportDone
  <2> QED BY <1>2, <2>1, Typing
<1>5. keychain' \in [Refs -> Passwords \cup {Absent}] /\ Spared
  <2>1. CASE keychain' = keychain
    BY <2>1, Untouched, Typing
  <2>2. CASE ImportSecret /\ keychain' = Entered(Import.slug, Import.user, Import.password)
    <3>1. /\ keychain' \in [Refs -> Passwords \cup {Absent}] /\ keychain'[<<Import.slug, Import.user>>] = Import.password
          /\ \A r \in Refs : r # <<Import.slug, Import.user>> => keychain'[r] = keychain[r]
      BY <1>2, <2>2, Written
    <3>2. Import.password # Absent
      BY <2>2 DEF ImportSecret, StoreTyped
    <3> QED BY <3>1, <3>2 DEF Spared
  <2> QED BY <2>1, <2>2 DEF StartImport, ImportFile, ImportSecret, ImportDone, Entered
<1>6. StoreTyped' /\ SavingOK'
  BY <1>1, <1>3, <1>4, <1>5 DEF StoreTyped, StoreTypeOK, SavingOK
<1>7. Alone' /\ FilesDone' /\ SecretPlaced'
  BY <1>1, <1>3 DEF Alone, FilesDone, SecretPlaced
<1> QED BY <1>5, <1>6, <1>7

\* A crash leaves the files and entries as the commands before it left them.
LEMMA KilledStep ==
  ASSUME StoreInv, Killed
  PROVE  StoreInv' /\ Spared
<1> USE DEF StoreInv
<1>1. /\ list' = NoFiles /\ form' = [open |-> FALSE, edit |-> NewConnection] /\ saving' = NotSaving
      /\ deletion' = NoDeletion /\ import' = "idle" /\ reloads' = TRUE /\ overlapped' = overlapped
  BY DEF Killed
<1>2. /\ NotSaving.pc = "idle"
      /\ NotSaving \in [pc : {"idle", "store", "cleanup", "migrate", "saved"}, edit : Edits,
                        slug : Slugs \cup {Absent}, user : Owners \cup {Absent},
                        password : Passwords \cup {Absent}, had : Passwords \cup {Absent}]
      /\ NoFiles \in [Slugs -> Users \cup {NoUser, Absent}]
  BY DEF NotSaving, Edits, NoFiles
<1>3. files' \in [Slugs -> Users \cup {NoUser, Absent}]
  <2>1. \A s \in Slugs : OldRemoved(form.edit, s) \in [Slugs -> Users \cup {NoUser, Absent}]
    BY Removed
  <2> QED BY <2>1, Typing DEF Killed
<1>4. keychain' \in [Refs -> Passwords \cup {Absent}] /\ Spared
  <2>1. CASE keychain' = keychain
    BY <2>1, Untouched, Typing
  <2>2. CASE saving.pc = "migrate" /\ Migrant(saving) # Absent /\ keychain' = Copied(saving)
    <3> DEFINE p == Migrant(saving)
    <3>1. saving.slug \in Slugs /\ saving.user \in Users /\ saving.edit.slug \in Slugs
      BY <2>2, Typing, OfEdit DEF SavingOK
    <3>2. p \in Passwords \cup {Absent} /\ p # Absent
      BY <2>2, <3>1, SecretTyped DEF Migrant
    <3>3. keychain' = Entered(saving.slug, saving.user, p)
      BY <2>2 DEF Copied, Entered
    <3> HIDE DEF p
    <3>4. /\ keychain' \in [Refs -> Passwords \cup {Absent}] /\ keychain'[<<saving.slug, saving.user>>] = p
          /\ \A r \in Refs : r # <<saving.slug, saving.user>> => keychain'[r] = keychain[r]
      BY <3>1, <3>2, <3>3, Written
    <3> QED BY <3>2, <3>4 DEF Spared
  <2> QED BY <2>1, <2>2 DEF Killed
<1>5. StoreTyped'
  BY <1>1, <1>2, <1>3, <1>4 DEF StoreTyped, StoreTypeOK, Edits
<1>6. SavingOK' /\ Alone' /\ FilesDone' /\ SecretPlaced'
  BY <1>1, <1>2 DEF SavingOK, Alone, FilesDone, SecretPlaced
<1> QED BY <1>4, <1>5, <1>6

-----------------------------------------------------------------------------
(* The theorems of the store.                                              *)

LEMMA StoreInitially == StoreInit => StoreInv
<1> SUFFICES ASSUME StoreInit PROVE StoreInv
  OBVIOUS
<1>1. /\ list = NoFiles /\ form = [open |-> FALSE, edit |-> NewConnection] /\ saving = NotSaving
      /\ deletion = NoDeletion /\ import = "idle" /\ reloads = TRUE /\ overlapped = FALSE
  BY DEF StoreInit
<1>2. /\ NotSaving.pc = "idle"
      /\ NotSaving \in [pc : {"idle", "store", "cleanup", "migrate", "saved"}, edit : Edits,
                        slug : Slugs \cup {Absent}, user : Owners \cup {Absent},
                        password : Passwords \cup {Absent}, had : Passwords \cup {Absent}]
      /\ NoFiles \in [Slugs -> Users \cup {NoUser, Absent}]
  BY DEF NotSaving, Edits, NoFiles
<1>3. files \in [Slugs -> Users \cup {NoUser, Absent}]
  <2>1. PICK s \in Slugs, u \in Users : files = [NoFiles EXCEPT ![s] = u]
    BY DEF StoreInit
  <2> QED BY <1>2, <2>1
<1>4. keychain \in [Refs -> Passwords \cup {Absent}]
  <2> DEFINE p == CHOOSE p \in Passwords : TRUE
  <2>1. p \in Passwords
    BY StoreAssumption
  <2>2. keychain = [r \in Refs |-> IF files[r[1]] = r[2] THEN p ELSE Absent]
    BY DEF StoreInit
  <2> HIDE DEF p
  <2> QED BY <2>1, <2>2
<1>5. StoreTyped
  BY <1>1, <1>2, <1>3, <1>4 DEF StoreTyped, StoreTypeOK, Edits
<1>6. SavingOK /\ Alone /\ FilesDone /\ SecretPlaced
  BY <1>1, <1>2 DEF SavingOK, Alone, FilesDone, SecretPlaced
<1> QED BY <1>5, <1>6 DEF StoreInv

LEMMA StoreStep == StoreInv /\ [StoreNext]_storeVars => StoreInv' /\ Spared
<1> SUFFICES ASSUME StoreInv, [StoreNext]_storeVars PROVE StoreInv' /\ Spared
  OBVIOUS
<1>1. CASE ListLoaded \/ CancelForm \/ \E edit \in InSidebar \cup {NewConnection} : OpenForm(edit)
  BY <1>1, FormStep
<1>2. ASSUME NEW s \in Slugs, NEW u \in Users \cup {NoUser}, NEW p \in Passwords \cup {Absent}, FileSaved(s, u, p)
      PROVE  StoreInv' /\ Spared
  BY <1>2, SaveStep DEF Owners
<1>3. ASSUME NEW s \in Slugs, FileRefused(s) \/ DeleteFile(s)
      PROVE  StoreInv' /\ Spared
  BY <1>3, RefuseStep, DeleteFileStep
<1>4. CASE SecretStored \/ OldSecretDeleted \/ SecretMigrated \/ KeychainThrew \/ Saved
  BY <1>4, StoredStep, CleanedStep, MigratedStep, SaveEndsStep
<1>5. CASE DeleteSecret \/ StartImport \/ ImportFile \/ ImportSecret \/ ImportDone \/ Killed
  BY <1>5, DeleteSecretStep, ImportStep, KilledStep
<1>6. CASE UNCHANGED storeVars
  <2>1. UNCHANGED <<files, keychain, list, form, saving, deletion, import, reloads, overlapped>>
    BY <1>6 DEF storeVars
  <2> QED BY <2>1, Untouched
          DEF StoreInv, StoreTyped, StoreTypeOK, SavingOK, Alone, FilesDone, SecretPlaced, SecretOf
<1> QED BY <1>1, <1>2, <1>3, <1>4, <1>5, <1>6 DEF StoreNext

LEMMA StoreInductive == StoreSpec => []StoreInv
  BY StoreInitially, StoreStep, PTL DEF StoreSpec

\* Files, keychain entries and the list are of their types, crashes included.
THEOREM StoreTypeCorrect == StoreSpec => []StoreTypeOK
<1>1. StoreInv => StoreTypeOK
  BY DEF StoreInv, StoreTyped
<1> QED BY <1>1, StoreInductive, PTL

\* A save that succeeds leaves the connection with the secret it is about, and
\* one that fails on the way leaves that secret somewhere.
THEOREM SavedWithItsSecretAlways == StoreSpec => []SavedWithItsSecret
<1>1. StoreInv => SavedWithItsSecret
  <2> SUFFICES ASSUME StoreInv, ~overlapped PROVE SavedWithItsSecret
    BY DEF SavedWithItsSecret
  <2>1. /\ saving.pc # "idle" => files[saving.slug] = saving.user
        /\ saving.pc \in {"idle", "store", "cleanup", "migrate", "saved"}
    BY DEF StoreInv, StoreTyped, FilesDone
  <2> QED BY <2>1 DEF StoreInv, SavingOK, SecretPlaced, SavedWithItsSecret
<1> QED BY <1>1, StoreInductive, PTL

\* No step deletes the secret of a connection that is on disk.
THEOREM NoSecretOfAnotherAlways == StoreSpec => NoSecretOfAnother
<1>1. StoreInv /\ [StoreNext]_storeVars =>
        [~overlapped' => \A r \in Refs :
           keychain[r] # Absent /\ keychain'[r] = Absent => files'[r[1]] # r[2]]_storeVars
  BY StoreStep DEF Spared
<1> QED BY <1>1, StoreInductive, PTL DEF StoreSpec, NoSecretOfAnother

-----------------------------------------------------------------------------
(* Preferences.                                                            *)

\* The shape of every variable.
PrefsTyped ==
  /\ disk \in Settings
  /\ stored \in BOOLEAN
  /\ prefs \in [settings : Settings, draft : Settings, showSettings : BOOLEAN, auditLogEnabled : BOOLEAN]
  /\ reading \in Settings \cup {Nothing}
  /\ writing \in [content : Settings, edits : SUBSET Fields] \cup {Nothing}
  /\ lock \in [locked : BOOLEAN, captured : Minutes, armed : BOOLEAN]
  /\ recent \in BOOLEAN /\ diverged \in BOOLEAN /\ stirred \in BOOLEAN
  /\ edits \subseteq Fields

\* What a load and a save in flight carry: without divergence the load has what
\* is on disk, the save has the draft, and they are not in flight together.
Carried ==
  ~diverged =>
    /\ reading = Nothing => prefs.settings = disk
    /\ reading # Nothing => reading = disk /\ writing = Nothing
    /\ writing # Nothing => prefs.draft = writing.content

\* What was not edited is as in the settings in force, and as on disk.
Unedited ==
  /\ reading # Nothing => edits = Fields
  /\ reading = Nothing => \A f \in Fields \ edits : prefs.draft[f] = prefs.settings[f]
  /\ ~diverged /\ writing # Nothing =>
       \A f \in Fields \ writing.edits : writing.content[f] = disk[f]

PrefsInv == PrefsTyped /\ Carried /\ Unedited /\ LockArmed

LEMMA DefaultsAreSettings == DefaultSettings \in Settings
  BY PreferencesAssumption DEF DefaultSettings, Settings

LEMMA EditIsSettings ==
  ASSUME NEW d \in Settings, NEW f \in Fields, NEW v,
         f = "lockTimeoutMins" => v \in Minutes, f = "auditLogEnabled" => v \in BOOLEAN
  PROVE  /\ [d EXCEPT ![f] = v] \in Settings
         /\ \A g \in Fields : g # f => [d EXCEPT ![f] = v][g] = d[g]
  BY DEF Settings, Fields

LEMMA FreshTyped ==
  ASSUME NEW audit \in BOOLEAN
  PROVE  /\ FreshPrefs(audit) \in
              [settings : Settings, draft : Settings, showSettings : BOOLEAN, auditLogEnabled : BOOLEAN]
         /\ Mounted \in [locked : BOOLEAN, captured : Minutes, armed : BOOLEAN]
  BY DefaultsAreSettings, PreferencesAssumption DEF FreshPrefs, Mounted, DefaultSettings

LEMMA PrefsInitially == PrefsInit => PrefsInv
<1> SUFFICES ASSUME PrefsInit PROVE PrefsInv
  OBVIOUS
<1>1. /\ disk \in Settings /\ stored \in BOOLEAN /\ prefs = FreshPrefs(stored)
      /\ reading = disk /\ reading # Nothing /\ writing = Nothing
      /\ lock = Mounted /\ recent = TRUE /\ edits = Fields /\ diverged = FALSE /\ stirred = FALSE
  BY NothingAssumption DEF PrefsInit
<1>2. PrefsTyped
  BY <1>1, FreshTyped DEF PrefsTyped
<1>3. Carried /\ Unedited /\ LockArmed
  BY <1>1 DEF Carried, Unedited, LockArmed
<1> QED
  BY <1>2, <1>3 DEF PrefsInv

\* The lock and the half second touch no setting.
LEMMA LockStep ==
  ASSUME PrefsInv, Stir \/ HalfSecond \/ LockFires \/ Unlock
  PROVE  PrefsInv'
<1>1. UNCHANGED <<disk, stored, prefs, reading, writing, edits, diverged>>
  BY DEF Stir, HalfSecond, LockFires, Unlock
<1>2. Carried' /\ Unedited'
  BY <1>1 DEF PrefsInv, Carried, Unedited
<1>3. prefs.settings.lockTimeoutMins \in Minutes
  BY DEF PrefsInv, PrefsTyped, Settings
<1>4. PrefsTyped' /\ LockArmed'
  <2>1. CASE Stir
    BY <2>1, <1>1 DEF Stir, PrefsInv, PrefsTyped, LockArmed
  <2>2. CASE HalfSecond
    BY <2>2, <1>1 DEF HalfSecond, PrefsInv, PrefsTyped, LockArmed
  <2>3. CASE LockFires
    BY <2>3, <1>1, <1>3 DEF LockFires, Attached, PrefsInv, PrefsTyped, LockArmed
  <2>4. CASE Unlock
    BY <2>4, <1>1, <1>3 DEF Unlock, Attached, PrefsInv, PrefsTyped, LockArmed
  <2> QED BY <2>1, <2>2, <2>3, <2>4
<1> QED
  BY <1>2, <1>4 DEF PrefsInv

\* A dispatch under the dialog: one lemma per action, since each has its own way
\* to keep `edits` true to the draft.
LEMMA DialogStep ==
  ASSUME PrefsInv, OpenFromSidebar \/ OpenFromPalette \/ CloseSettings \/ ResetDraft
  PROVE  PrefsInv'
<1> USE DEF PrefsInv
<1>1. UNCHANGED <<disk, stored, reading, writing, lock, recent, stirred>>
  BY DEF OpenFromSidebar, OpenFromPalette, CloseSettings, ResetDraft, lockVars
<1>2. LockArmed'
  BY <1>1 DEF LockArmed
<1>3. CASE OpenFromSidebar
  <2>1. prefs' = [prefs EXCEPT !.draft = prefs.settings, !.showSettings = TRUE]
    BY <1>3 DEF OpenFromSidebar, Dispatched
  <2>2. prefs'.draft = prefs.settings /\ prefs'.settings = prefs.settings
    BY <2>1 DEF PrefsTyped
  <2>3. PrefsTyped'
    BY <1>1, <1>3, <2>1 DEF OpenFromSidebar, Dispatched, PrefsTyped
  <2>4. Carried' /\ Unedited'
    BY <1>1, <1>3, <2>2 DEF OpenFromSidebar, Dispatched, PrefsTyped, Carried, Unedited
  <2> QED BY <1>2, <2>3, <2>4
<1>4. CASE OpenFromPalette \/ CloseSettings
  <2>1. \E b \in BOOLEAN : prefs' = [prefs EXCEPT !.showSettings = b]
    BY <1>4 DEF OpenFromPalette, CloseSettings, Dispatched
  <2>2. prefs'.draft = prefs.draft /\ prefs'.settings = prefs.settings
    BY <2>1 DEF PrefsTyped
  <2>3. edits' \in {edits, Fields} /\ diverged' = diverged
    BY <1>4, <2>2 DEF OpenFromPalette, CloseSettings, Dispatched, PrefsTyped
  <2>4. PrefsTyped'
    BY <1>1, <2>1, <2>3 DEF PrefsTyped
  <2>5. Carried' /\ Unedited'
    BY <1>1, <2>2, <2>3 DEF PrefsTyped, Carried, Unedited
  <2> QED BY <1>2, <2>4, <2>5
<1>5. CASE ResetDraft
  <2>1. prefs' = [prefs EXCEPT !.draft = DefaultSettings] /\ edits' = Fields
    BY <1>5 DEF ResetDraft, Dispatched
  <2>2. prefs'.draft = DefaultSettings /\ prefs'.settings = prefs.settings
    BY <2>1 DEF PrefsTyped
  <2>3. diverged' = (diverged \/ (writing # Nothing /\ prefs'.draft # prefs.draft))
    BY <1>5 DEF ResetDraft, Dispatched
  <2>4. PrefsTyped'
    BY <1>1, <2>1, <2>3, DefaultsAreSettings DEF PrefsTyped
  <2>5. Carried' /\ Unedited'
    BY <1>1, <2>1, <2>2, <2>3 DEF PrefsTyped, Carried, Unedited
  <2> QED BY <1>2, <2>4, <2>5
<1> QED
  BY <1>3, <1>4, <1>5

LEMMA EditStep ==
  ASSUME PrefsInv, NEW f \in Fields, NEW v, EditField(f, v),
         f = "lockTimeoutMins" => v \in Minutes, f = "auditLogEnabled" => v \in BOOLEAN
  PROVE  PrefsInv'
<1> USE DEF PrefsInv
<1>1. UNCHANGED <<disk, stored, reading, writing, lock, recent, stirred>>
  BY DEF EditField, lockVars
<1>2. prefs' = [prefs EXCEPT !.draft[f] = v] /\ edits' = edits \cup {f}
  BY DEF EditField, Dispatched
<1>3. prefs'.draft = [prefs.draft EXCEPT ![f] = v] /\ prefs'.settings = prefs.settings
  BY <1>2 DEF PrefsTyped
<1>4. diverged' = (diverged \/ (writing # Nothing /\ prefs'.draft # prefs.draft))
  BY DEF EditField, Dispatched
<1>5. prefs.draft \in Settings
  BY DEF PrefsTyped
<1>6. prefs'.draft \in Settings /\ \A g \in Fields : g # f => prefs'.draft[g] = prefs.draft[g]
  BY <1>3, <1>5, EditIsSettings
<1>7. PrefsTyped'
  <2>1. prefs' = [prefs EXCEPT !.draft = prefs'.draft]
    BY <1>2, <1>3 DEF PrefsTyped
  <2>2. prefs' \in [settings : Settings, draft : Settings, showSettings : BOOLEAN, auditLogEnabled : BOOLEAN]
    BY <1>6, <2>1 DEF PrefsTyped
  <2> QED BY <1>1, <1>2, <1>4, <2>2 DEF PrefsTyped
<1>8. Carried'
  BY <1>1, <1>3, <1>4 DEF PrefsTyped, Carried
<1>9. Unedited'
  BY <1>1, <1>2, <1>3, <1>4, <1>6 DEF PrefsTyped, Unedited
<1>10. LockArmed'
  BY <1>1 DEF LockArmed
<1> QED
  BY <1>7, <1>8, <1>9, <1>10

LEMMA CallStep ==
  ASSUME PrefsInv,
         SettingsLoaded \/ SettingsNotLoaded \/ SaveSettings \/ SettingsSaved \/ SettingsNotSaved \/ ToggleAudit
  PROVE  PrefsInv'
<1> USE DEF PrefsInv
<1>1. UNCHANGED <<lock, recent, stirred, edits>>
  BY DEF SettingsLoaded, SettingsNotLoaded, SaveSettings, SettingsSaved, SettingsNotSaved, ToggleAudit, lockVars
<1>2. LockArmed'
  BY <1>1 DEF LockArmed
<1>3. CASE SettingsLoaded
  <2>1. /\ reading \in Settings /\ reading # Nothing /\ reading' = Nothing
        /\ prefs' = [prefs EXCEPT !.settings = reading, !.auditLogEnabled = reading.auditLogEnabled]
        /\ UNCHANGED <<disk, stored, writing, diverged>>
    BY <1>3 DEF SettingsLoaded, PrefsTyped
  <2>2. prefs'.settings = reading /\ prefs'.draft = prefs.draft
    BY <2>1 DEF PrefsTyped
  <2>3. reading.auditLogEnabled \in BOOLEAN
    BY <2>1 DEF Settings
  <2>4. PrefsTyped'
    BY <1>1, <2>1, <2>3 DEF PrefsTyped
  <2>5. Carried' /\ Unedited'
    BY <1>1, <2>1, <2>2 DEF PrefsTyped, Carried, Unedited
  <2> QED BY <1>2, <2>4, <2>5
<1>4. CASE SettingsNotLoaded
  <2>1. /\ reading # Nothing /\ reading' = Nothing /\ diverged' = TRUE
        /\ UNCHANGED <<disk, stored, prefs, writing>>
    BY <1>4 DEF SettingsNotLoaded
  <2> QED BY <1>1, <1>2, <2>1 DEF PrefsTyped, Carried, Unedited
<1>5. CASE SaveSettings
  <2>1. /\ writing = Nothing /\ writing' = [content |-> prefs.draft, edits |-> edits]
        /\ diverged' = (diverged \/ reading # Nothing)
        /\ UNCHANGED <<disk, stored, prefs, reading>>
    BY <1>5 DEF SaveSettings
  <2>2. writing' \in [content : Settings, edits : SUBSET Fields]
        /\ writing'.content = prefs.draft /\ writing'.edits = edits
    BY <2>1 DEF PrefsTyped
  <2> QED BY <1>1, <1>2, <2>1, <2>2, ZenonT(30) DEF PrefsTyped, Carried, Unedited
<1>6. CASE SettingsSaved
  <2>1. /\ writing # Nothing /\ writing' = Nothing /\ disk' = writing.content
        /\ prefs' = Committed(prefs)
        /\ UNCHANGED <<stored, reading, diverged>>
    BY <1>6 DEF SettingsSaved
  <2>2. prefs'.settings = prefs.draft /\ prefs'.draft = prefs.draft
    BY <2>1 DEF Committed, PrefsTyped
  <2>3. writing.content \in Settings /\ prefs.draft \in Settings /\ prefs.draft.auditLogEnabled \in BOOLEAN
    BY <2>1 DEF PrefsTyped, Settings
  <2>4. PrefsTyped'
    BY <1>1, <2>1, <2>3 DEF PrefsTyped, Committed
  <2>5. Carried' /\ Unedited'
    BY <1>1, <2>1, <2>2 DEF PrefsTyped, Carried, Unedited
  <2> QED BY <1>2, <2>4, <2>5
<1>7. CASE SettingsNotSaved
  BY <1>1, <1>2, <1>7 DEF SettingsNotSaved, PrefsTyped, Carried, Unedited
<1>8. CASE ToggleAudit
  <2>1. /\ prefs' = [prefs EXCEPT !.auditLogEnabled = ~@] /\ stored' = prefs'.auditLogEnabled
        /\ UNCHANGED <<disk, reading, writing, diverged>>
    BY <1>8 DEF ToggleAudit
  <2>2. prefs'.settings = prefs.settings /\ prefs'.draft = prefs.draft /\ prefs'.auditLogEnabled \in BOOLEAN
    BY <2>1 DEF PrefsTyped
  <2>3. PrefsTyped'
    BY <1>1, <2>1, <2>2 DEF PrefsTyped
  <2>4. Carried' /\ Unedited'
    BY <1>1, <2>1, <2>2 DEF Carried, Unedited
  <2> QED BY <1>2, <2>3, <2>4
<1> QED
  BY <1>3, <1>4, <1>5, <1>6, <1>7, <1>8

LEMMA RestartStep ==
  ASSUME PrefsInv, Restart
  PROVE  PrefsInv'
<1>1. disk' \in Settings
  BY DEF PrefsInv, PrefsTyped, Restart
<1>2. /\ prefs' = FreshPrefs(stored) /\ reading' = disk' /\ reading' # Nothing /\ writing' = Nothing
      /\ lock' = Mounted /\ recent' = TRUE /\ stirred' = FALSE /\ edits' = Fields /\ diverged' = FALSE
      /\ stored' = stored /\ stored \in BOOLEAN
  BY <1>1, NothingAssumption DEF Restart, PrefsInv, PrefsTyped
<1> QED
  BY <1>1, <1>2, FreshTyped DEF PrefsInv, PrefsTyped, Carried, Unedited, LockArmed

LEMMA PrefsPreserved == PrefsInv /\ [PrefsNext]_prefsVars => PrefsInv'
<1> SUFFICES ASSUME PrefsInv, [PrefsNext]_prefsVars PROVE PrefsInv'
  OBVIOUS
<1>1. CASE \E m \in Minutes : EditField("lockTimeoutMins", m)
  BY <1>1, EditStep DEF Fields
<1>2. CASE \E b \in BOOLEAN : EditField("auditLogEnabled", b)
  BY <1>2, EditStep DEF Fields
<1>3. CASE UNCHANGED prefsVars
  BY <1>3 DEF prefsVars, lockVars, PrefsInv, PrefsTyped, Carried, Unedited, LockArmed
<1> QED
  BY <1>1, <1>2, <1>3, LockStep, DialogStep, CallStep, RestartStep DEF PrefsNext

LEMMA PrefsAlways == PrefsSpec => []PrefsInv
  BY PrefsInitially, PrefsPreserved, PTL DEF PrefsSpec

\* The settings on disk, in force and in the draft are settings, and the lock is
\* of minutes that may be chosen.
THEOREM PrefsTypeCorrect == PrefsSpec => []PrefsTypeOK
<1>1. PrefsInv => PrefsTypeOK
  BY DEF PrefsInv, PrefsTyped, PrefsTypeOK
<1> QED
  BY <1>1, PrefsAlways, PTL

\* The settings in force are those on disk, whatever was edited, cancelled,
\* saved and refused (settingsReducer.ts, SettingsModal.tsx).
THEOREM SettingsInForce == PrefsSpec => []SettingsAreOnDisk
<1>1. PrefsInv => SettingsAreOnDisk
  BY DEF PrefsInv, PrefsTyped, Carried, SettingsAreOnDisk
<1> QED
  BY <1>1, PrefsAlways, PTL

\* A timer of the lock is pending once activity was counted (App.tsx,
\* resetInactivityTimer), for any number of minutes.
THEOREM LockStaysArmed == PrefsSpec => []LockArmed
<1>1. PrefsInv => LockArmed
  BY DEF PrefsInv
<1> QED
  BY <1>1, PrefsAlways, PTL

\* A save changes on disk only what was edited in a dialog opened on the
\* settings in force, and so does a crash under a save.
THEOREM OnlyEditsSaved == PrefsSpec => SavesOnlyEdits
<1>1. PrefsInv /\ [PrefsNext]_prefsVars =>
        [disk' # disk /\ ~diverged => \A f \in Fields \ writing.edits : disk'[f] = disk[f]]_prefsVars
  <2> SUFFICES ASSUME PrefsInv, PrefsNext, disk' # disk, ~diverged
               PROVE  \A f \in Fields \ writing.edits : disk'[f] = disk[f]
    OBVIOUS
  <2>1. writing # Nothing /\ disk' = writing.content
    BY DEF PrefsNext, SettingsLoaded, SettingsNotLoaded, OpenFromSidebar, OpenFromPalette, CloseSettings,
           EditField, ResetDraft, SaveSettings, SettingsSaved, SettingsNotSaved, ToggleAudit,
           Stir, HalfSecond, LockFires, Unlock, Restart
  <2> QED BY <2>1 DEF PrefsInv, Unedited
<1> QED
  BY <1>1, PrefsAlways, PTL DEF PrefsSpec, SavesOnlyEdits

-----------------------------------------------------------------------------
(* QueryLibrary.                                                           *)

Halfway == {"write meta", "remove meta"}
Phases  == {"idle", "write sql", "remove sql", "list", "answer"} \cup Halfway
Maybe   == Versions \cup {Missing}

\* The shape of the state; a call that touches files is about a query.
LibraryTyped ==
  /\ sqlFile \in [Ids -> Maybe] /\ metaFile \in [Ids -> Maybe]
  /\ dialog \in BOOLEAN /\ behind \in BOOLEAN
  /\ calls \in [Calls -> [pc : Phases, id : Ids \cup {Missing}, version : Maybe,
                          answer : [Ids -> Maybe \X Maybe], alone : BOOLEAN]]
  /\ \A k \in Calls : calls[k].pc \in {"write sql", "remove sql"} \cup Halfway => calls[k].id \in Ids

\* One call at most is about the query.
OneCall(i) ==
  \A k, m \in Calls : InFlight(k) /\ InFlight(m) /\ calls[k].id = i /\ calls[m].id = i => k = m

\* When its files differ, a call is between the two.
Explained(i) == sqlFile[i] # metaFile[i] => \E k \in Calls : calls[k].pc \in Halfway /\ calls[k].id = i

\* A call between the two has written or removed the first.
FirstDone(i) ==
  \A k \in Calls : calls[k].id = i =>
    /\ calls[k].pc = "write meta" => sqlFile[i] = calls[k].version
    /\ calls[k].pc = "remove meta" => sqlFile[i] = Missing

WholeQueries == \A i \in Ids \ torn : OneCall(i) /\ Explained(i) /\ FirstDone(i)

\* A list that is still alone has the files as they are, and no call is in
\* flight beside it; nothing is in flight when the list on display is current.
CurrentLists ==
  /\ \A k \in Calls : calls[k].alone =>
       /\ calls[k].pc = "answer" /\ calls[k].answer = Listing
       /\ \A m \in Calls \ {k} : ~InFlight(m)
  /\ ~behind => library = Listing /\ \A k \in Calls : ~InFlight(k)

LibraryInv == LibraryTyped /\ WholeQueries /\ CurrentLists

LEMMA ListingTyped ==
  ASSUME LibraryTyped
  PROVE  Listing \in [Ids -> Maybe \X Maybe]
  BY DEF LibraryTyped, Listing, Maybe

LEMMA DoneTyped ==
  /\ Done \in [pc : Phases, id : Ids \cup {Missing}, version : Maybe,
               answer : [Ids -> Maybe \X Maybe], alone : BOOLEAN]
  /\ Done.pc = "idle" /\ Done.id = Missing /\ Done.alone = FALSE
  BY DEF Done, Phases, Maybe, Empty

LEMMA LibraryInitially == LibraryInit => LibraryInv
<1> SUFFICES ASSUME LibraryInit PROVE LibraryInv
  OBVIOUS
<1>1. PICK m \in Calls : calls = [k \in Calls |-> IF k = m THEN [Done EXCEPT !.pc = "list"] ELSE Done]
  BY DEF LibraryInit
<1>2. [Done EXCEPT !.pc = "list"] \in
        [pc : Phases, id : Ids \cup {Missing}, version : Maybe, answer : [Ids -> Maybe \X Maybe], alone : BOOLEAN]
  BY DoneTyped DEF Phases
<1>3. \A k \in Calls : calls[k].pc \in {"idle", "list"} /\ calls[k].id = Missing /\ ~calls[k].alone
  BY <1>1, DoneTyped
<1>4. LibraryTyped
  <2>1. calls \in [Calls -> [pc : Phases, id : Ids \cup {Missing}, version : Maybe,
                             answer : [Ids -> Maybe \X Maybe], alone : BOOLEAN]]
    BY <1>1, <1>2, DoneTyped
  <2> QED BY <1>3, <2>1 DEF LibraryInit, LibraryTyped, NoFile, Maybe, Halfway
<1>5. WholeQueries
  BY <1>3, LibraryAssumption DEF LibraryInit, WholeQueries, OneCall, Explained, FirstDone, NoFile
<1>6. CurrentLists
  BY <1>3 DEF LibraryInit, CurrentLists
<1> QED BY <1>4, <1>5, <1>6 DEF LibraryInv

\* A call k starts on query i.
LEMMA StartStep ==
  ASSUME LibraryInv, NEW k \in Calls, NEW i \in Ids, NEW c, ~InFlight(k),
         c \in [pc : {"write sql", "remove sql"}, id : {i}, version : Maybe,
                answer : [Ids -> Maybe \X Maybe], alone : {FALSE}],
         torn' = IF OnSame(i) THEN torn \cup {i} ELSE torn,
         behind' = TRUE, Start(k, c), UNCHANGED <<sqlFile, metaFile, dialog, library>>
  PROVE  LibraryInv'
<1> USE DEF LibraryInv
<1>1. /\ calls'[k] = c
      /\ \A m \in Calls \ {k} : /\ calls'[m].pc = calls[m].pc /\ calls'[m].id = calls[m].id
                                /\ calls'[m].version = calls[m].version
                                /\ calls'[m].alone = FALSE
  BY DEF Start, LibraryTyped
<1>2. LibraryTyped'
  <2>1. calls' \in [Calls -> [pc : Phases, id : Ids \cup {Missing}, version : Maybe,
                              answer : [Ids -> Maybe \X Maybe], alone : BOOLEAN]]
    BY DEF Start, LibraryTyped, Phases
  <2>2. \A m \in Calls : calls'[m].pc \in {"write sql", "remove sql"} \cup Halfway => calls'[m].id \in Ids
    BY <1>1 DEF LibraryTyped
  <2> QED BY <2>1, <2>2 DEF LibraryTyped
<1>3. WholeQueries'
  <2> SUFFICES ASSUME NEW j \in Ids \ torn' PROVE OneCall(j)' /\ Explained(j)' /\ FirstDone(j)'
    BY DEF WholeQueries
  <2>1. OneCall(j) /\ Explained(j) /\ FirstDone(j)
    BY DEF WholeQueries
  <2>2. j = i => \A m \in Calls : InFlight(m) => calls[m].id # j
    BY DEF OnSame
  <2>3. c.pc \in {"write sql", "remove sql"} /\ c.id = i
    OBVIOUS
  <2>4. \A m \in Calls : InFlight(m)' /\ calls'[m].id = j => (m = k /\ j = i) \/ (m # k /\ InFlight(m) /\ calls[m].id = j)
    BY <1>1, <2>3 DEF InFlight
  <2>5. OneCall(j)'
    BY <2>1, <2>2, <2>4 DEF OneCall
  <2>6. \A m \in Calls : calls[m].pc \in Halfway => m # k
    BY DEF InFlight, Halfway
  <2>7. Explained(j)'
    BY <1>1, <2>1, <2>6 DEF Explained
  <2>8. FirstDone(j)'
    BY <1>1, <2>1, <2>3 DEF FirstDone
  <2> QED BY <2>5, <2>7, <2>8
<1>4. CurrentLists'
  <2>1. \A m \in Calls : calls'[m].alone = FALSE
    BY <1>1
  <2> QED BY <2>1 DEF CurrentLists
<1> QED BY <1>2, <1>3, <1>4

LEMMA OtherFields ==
  ASSUME LibraryTyped, NEW k \in Calls, NEW c, calls' = [calls EXCEPT ![k] = c]
  PROVE  calls'[k] = c /\ \A m \in Calls \ {k} : calls'[m] = calls[m]
  BY DEF LibraryTyped

LEMMA StepFields ==
  ASSUME LibraryTyped, NEW k \in Calls, NEW pc \in Phases, Step(k, pc)
  PROVE  /\ calls' \in [Calls -> [pc : Phases, id : Ids \cup {Missing}, version : Maybe,
                                  answer : [Ids -> Maybe \X Maybe], alone : BOOLEAN]]
         /\ calls'[k].pc = pc /\ calls'[k].id = calls[k].id /\ calls'[k].version = calls[k].version
         /\ calls'[k].alone = calls[k].alone /\ calls'[k].answer = calls[k].answer
         /\ \A m \in Calls \ {k} : calls'[m] = calls[m]
  BY DEF LibraryTyped, Step

\* The first file of a query is written or removed.
LEMMA FirstFileStep ==
  ASSUME LibraryInv, NEW k \in Calls, SqlWritten(k) \/ SqlRemoved(k)
  PROVE  LibraryInv'
<1> USE DEF LibraryInv
<1> DEFINE i == calls[k].id
<1>1. calls[k].pc \in {"write sql", "remove sql"} /\ i \in Ids /\ calls[k].version \in Maybe
  BY DEF SqlWritten, SqlRemoved, LibraryTyped
<1>2. UNCHANGED <<metaFile, dialog, library, torn, behind>>
  BY DEF SqlWritten, SqlRemoved
<1>3. PICK v \in Maybe, pc \in Halfway :
        /\ sqlFile' = [sqlFile EXCEPT ![i] = v] /\ Step(k, pc)
        /\ pc = "write meta" => v = calls[k].version
        /\ pc = "remove meta" => v = Missing
  <2>1. CASE SqlWritten(k)
    BY <1>1, <2>1 DEF SqlWritten, Halfway
  <2>2. CASE SqlRemoved(k)
    BY <1>1, <2>2 DEF SqlRemoved, Halfway, Maybe
  <2> QED BY <2>1, <2>2
<1>4. Step(k, pc)
  BY <1>3
<1>5. sqlFile'[i] = v /\ \A j \in Ids \ {i} : sqlFile'[j] = sqlFile[j]
  BY <1>1, <1>3 DEF LibraryTyped
<1>7. pc \in Phases
  BY DEF Phases
<1>8. LibraryTyped'
  BY <1>1, <1>2, <1>3, <1>4, <1>7, StepFields, ZenonT(30) DEF LibraryTyped
<1>9. WholeQueries'
  <2> SUFFICES ASSUME NEW j \in Ids \ torn PROVE OneCall(j)' /\ Explained(j)' /\ FirstDone(j)'
    BY <1>2 DEF WholeQueries
  <2>1. \A m \in Calls : calls'[m].id = calls[m].id /\ calls'[m].version = calls[m].version /\ (InFlight(m)' <=> InFlight(m))
    BY <1>1, <1>4, <1>7, StepFields, ZenonT(30) DEF InFlight, Halfway
  <2>2. OneCall(j) /\ Explained(j) /\ FirstDone(j)
    BY DEF WholeQueries
  <2>3. OneCall(j)'
    BY <2>1, <2>2 DEF OneCall
  <2>4. CASE j = i
    <3>1. \A m \in Calls \ {k} : calls'[m].id = j => calls'[m].pc = "idle"
      BY <1>1, <2>1, <2>2, <2>4 DEF OneCall, InFlight
    <3>2. calls'[k].pc = pc /\ calls'[k].id = j /\ calls'[k].version = calls[k].version
      BY <1>4, <1>7, <2>4, StepFields
    <3>3. Explained(j)'
      BY <3>2 DEF Explained
    <3>4. FirstDone(j)'
      BY <1>3, <1>5, <2>4, <3>1, <3>2 DEF FirstDone
    <3> QED BY <2>3, <3>3, <3>4
  <2>5. CASE j # i
    <3>1. sqlFile'[j] = sqlFile[j]
      BY <1>5, <2>5
    <3>2. \A m \in Calls : calls'[m].id = j \/ calls[m].id = j => calls'[m] = calls[m]
      BY <1>4, <1>7, <2>1, <2>5, StepFields
    <3>3. Explained(j)'
      BY <1>2, <2>2, <3>1, <3>2 DEF Explained
    <3>4. FirstDone(j)'
      BY <2>2, <3>1, <3>2 DEF FirstDone
    <3> QED BY <2>3, <3>3, <3>4
  <2> QED BY <2>4, <2>5
<1>10. CurrentLists'
  <2>1. InFlight(k) /\ behind
    BY <1>1 DEF InFlight, CurrentLists, LibraryTyped
  <2>2. \A m \in Calls : ~calls[m].alone
    BY <1>1, <2>1 DEF CurrentLists
  <2>3. \A m \in Calls : ~calls'[m].alone
    BY <1>4, <1>7, <2>2, StepFields
  <2> QED BY <1>2, <2>1, <2>3 DEF CurrentLists
<1> QED BY <1>8, <1>9, <1>10

\* The second one, which makes the query whole again.
LEMMA SecondFileStep ==
  ASSUME LibraryInv, NEW k \in Calls, MetaWritten(k) \/ MetaRemoved(k)
  PROVE  LibraryInv'
<1> USE DEF LibraryInv
<1> DEFINE i == calls[k].id
<1>1. calls[k].pc \in Halfway /\ i \in Ids /\ calls[k].version \in Maybe
  BY DEF MetaWritten, MetaRemoved, LibraryTyped, Halfway
<1>2. UNCHANGED <<sqlFile, library, torn, behind>> /\ dialog' \in BOOLEAN
  BY DEF MetaWritten, MetaRemoved, LibraryTyped
<1>3. PICK v \in Maybe : metaFile' = [metaFile EXCEPT ![i] = v] /\ (i \notin torn => v = sqlFile[i])
  <2>1. CASE MetaWritten(k)
    BY <1>1, <2>1 DEF MetaWritten, WholeQueries, FirstDone
  <2>2. CASE MetaRemoved(k)
    BY <1>1, <2>2 DEF MetaRemoved, WholeQueries, FirstDone, Maybe
  <2> QED BY <2>1, <2>2
<1>4. Step(k, "list") /\ "list" \in Phases
  BY DEF MetaWritten, MetaRemoved, Phases
<1>5. LibraryTyped'
  BY <1>1, <1>2, <1>3, <1>4, StepFields, ZenonT(30) DEF LibraryTyped, Halfway
<1>6. WholeQueries'
  <2> SUFFICES ASSUME NEW j \in Ids \ torn PROVE OneCall(j)' /\ Explained(j)' /\ FirstDone(j)'
    BY <1>2 DEF WholeQueries
  <2>1. \A m \in Calls : calls'[m].id = calls[m].id /\ calls'[m].version = calls[m].version /\ (InFlight(m)' <=> InFlight(m))
    BY <1>1, <1>4, StepFields, ZenonT(30) DEF InFlight, Halfway
  <2>2. OneCall(j) /\ Explained(j) /\ FirstDone(j)
    BY DEF WholeQueries
  <2>3. OneCall(j)'
    BY <2>1, <2>2 DEF OneCall
  <2>4. \A m \in Calls : calls'[m].pc \in Halfway => calls'[m] = calls[m]
    BY <1>4, StepFields DEF Halfway
  <2>5. FirstDone(j)'
    BY <1>2, <2>2, <2>4 DEF FirstDone, Halfway
  <2>6. CASE j = i
    <3>1. metaFile'[j] = sqlFile[j]
      BY <1>1, <1>3, <2>6 DEF LibraryTyped
    <3> QED BY <1>2, <2>3, <2>5, <3>1 DEF Explained
  <2>7. CASE j # i
    <3>1. metaFile'[j] = metaFile[j] /\ \A m \in Calls : calls[m].id = j => calls'[m] = calls[m]
      BY <1>3, <1>4, <2>7, StepFields, ZenonT(30) DEF LibraryTyped
    <3>2. Explained(j)'
      BY <1>2, <2>2, <3>1 DEF Explained
    <3> QED BY <2>3, <2>5, <3>2
  <2> QED BY <2>6, <2>7
<1>7. CurrentLists'
  <2>1. InFlight(k) /\ behind
    BY <1>1 DEF InFlight, CurrentLists, LibraryTyped, Halfway
  <2>2. \A m \in Calls : ~calls[m].alone
    BY <1>1, <2>1 DEF CurrentLists, Halfway
  <2>3. \A m \in Calls : ~calls'[m].alone
    BY <1>4, <2>2, StepFields
  <2> QED BY <1>2, <2>1, <2>3 DEF CurrentLists
<1> QED BY <1>5, <1>6, <1>7

\* A call that is not about a query any more changes no file: what is left to
\* show is that no call at work on a query was changed.
LEMMA FilesUntouched ==
  ASSUME LibraryInv, NEW k \in Calls, NEW c, calls' = [calls EXCEPT ![k] = c],
         c.pc \in {"idle", "answer"}, c.id = Missing,
         torn \subseteq torn', calls[k].pc \in Halfway => calls[k].id \in torn',
         UNCHANGED <<sqlFile, metaFile>>
  PROVE  WholeQueries'
<1> SUFFICES ASSUME NEW j \in Ids \ torn' PROVE OneCall(j)' /\ Explained(j)' /\ FirstDone(j)'
  BY DEF WholeQueries
<1>1. calls'[k] = c /\ \A m \in Calls \ {k} : calls'[m] = calls[m]
  BY OtherFields DEF LibraryInv
<1>2. \A m \in Calls : calls'[m].id = j => m # k /\ calls'[m] = calls[m]
  BY <1>1, LibraryAssumption
<1>3. OneCall(j) /\ Explained(j) /\ FirstDone(j)
  BY DEF LibraryInv, WholeQueries
<1>4. OneCall(j)'
  BY <1>2, <1>3 DEF OneCall, InFlight
<1>5. \A m \in Calls : calls[m].pc \in Halfway /\ calls[m].id = j => calls'[m] = calls[m]
  BY <1>1
<1>6. Explained(j)'
  BY <1>3, <1>5 DEF Explained
<1>7. FirstDone(j)'
  BY <1>2, <1>3 DEF FirstDone
<1> QED BY <1>4, <1>6, <1>7

LEMMA ReadStep ==
  ASSUME LibraryInv, NEW k \in Calls, Read(k)
  PROVE  LibraryInv'
<1> USE DEF LibraryInv
<1> DEFINE lone == \A m \in Calls \ {k} : ~InFlight(m)
           c    == [Done EXCEPT !.pc = "answer", !.answer = Listing, !.alone = lone]
<1>1. calls' = [calls EXCEPT ![k] = c] /\ UNCHANGED <<sqlFile, metaFile, dialog, library, torn, behind>>
  BY DEF Read
<1>2. /\ c \in [pc : Phases, id : Ids \cup {Missing}, version : Maybe,
                answer : [Ids -> Maybe \X Maybe], alone : BOOLEAN]
      /\ c.pc = "answer" /\ c.id = Missing /\ c.answer = Listing /\ (c.alone <=> lone)
  BY DoneTyped, ListingTyped DEF Phases
<1> HIDE DEF c
<1>3. calls'[k] = c /\ \A m \in Calls \ {k} : calls'[m] = calls[m]
  BY <1>1, OtherFields
<1>4. LibraryTyped'
  BY <1>1, <1>2, <1>3 DEF LibraryTyped, Halfway
<1>5. WholeQueries'
  BY <1>1, <1>2, FilesUntouched DEF Read, Halfway
<1>6. CurrentLists'
  <2>1. InFlight(k) /\ behind /\ behind'
    <3>1. InFlight(k)
      BY DEF Read, InFlight
    <3>2. behind
      BY <3>1 DEF CurrentLists
    <3>3. behind' = behind
      BY <1>1
    <3> QED BY <3>1, <3>2, <3>3
  <2>2. Listing' = Listing
    BY <1>1 DEF Listing
  <2>3. \A m \in Calls \ {k} : ~calls[m].alone
    BY <2>1 DEF CurrentLists
  <2>4. c.alone => \A m \in Calls \ {k} : ~InFlight(m)'
    BY <1>2, <1>3 DEF InFlight
  <2> QED BY <1>2, <1>3, <2>1, <2>2, <2>3, <2>4 DEF CurrentLists
<1> QED BY <1>4, <1>5, <1>6

\* A call failed, or its list was shown: it is idle from now on.
LEMMA CallEndStep ==
  ASSUME LibraryInv, NEW k \in Calls, ListShown(k) \/ CommandFails(k)
  PROVE  LibraryInv'
<1> USE DEF LibraryInv
<1>1. calls' = [calls EXCEPT ![k] = Done] /\ UNCHANGED <<sqlFile, metaFile, dialog>> /\ torn \subseteq torn'
  BY DEF ListShown, CommandFails
<1>2. calls'[k] = Done /\ \A m \in Calls \ {k} : calls'[m] = calls[m]
  BY <1>1, OtherFields
<1>3. behind' \in BOOLEAN
  BY DEF ListShown, CommandFails, LibraryTyped
<1>4. LibraryTyped'
  BY <1>1, <1>2, <1>3, DoneTyped DEF LibraryTyped, Halfway
<1>5. calls[k].pc \in Halfway => calls[k].id \in torn'
  BY DEF ListShown, CommandFails, Halfway
<1>6. WholeQueries'
  BY <1>1, <1>5, DoneTyped, FilesUntouched
<1>7. Listing' = Listing
  BY <1>1 DEF Listing
<1>8. \A m \in Calls : calls'[m].alone =>
        /\ calls'[m].pc = "answer" /\ calls'[m].answer = Listing
        /\ \A n \in Calls \ {m} : ~InFlight(n)'
  BY <1>2, DoneTyped DEF CurrentLists, InFlight
<1>9. ~behind' => library' = Listing /\ \A m \in Calls : ~InFlight(m)'
  <2> SUFFICES ASSUME ~behind' PROVE library' = Listing /\ \A m \in Calls : ~InFlight(m)'
    OBVIOUS
  <2>1. library' = calls[k].answer /\ calls[k].alone
    BY DEF ListShown, CommandFails, LibraryTyped
  <2> QED BY <1>2, <2>1, DoneTyped DEF CurrentLists, InFlight
<1>10. CurrentLists'
  BY <1>7, <1>8, <1>9 DEF CurrentLists
<1> QED BY <1>4, <1>6, <1>10

LEMMA ReopenStep ==
  ASSUME LibraryInv, NEW k \in Calls, Reopened(k)
  PROVE  LibraryInv'
<1> USE DEF LibraryInv
<1>1. /\ torn' = torn \cup {calls[m].id : m \in {n \in Calls : calls[n].pc \in Halfway}}
      /\ dialog' = FALSE /\ behind' = TRUE /\ UNCHANGED <<sqlFile, metaFile>>
      /\ calls' = [m \in Calls |-> IF m = k THEN [Done EXCEPT !.pc = "list"] ELSE Done]
  BY DEF Reopened, Halfway
<1>2. [Done EXCEPT !.pc = "list"] \in
        [pc : Phases, id : Ids \cup {Missing}, version : Maybe, answer : [Ids -> Maybe \X Maybe], alone : BOOLEAN]
  BY DoneTyped DEF Phases
<1>3. \A m \in Calls : calls'[m].pc \in {"idle", "list"} /\ calls'[m].id = Missing /\ ~calls'[m].alone
  BY <1>1, DoneTyped
<1>4. LibraryTyped'
  <2>1. calls' \in [Calls -> [pc : Phases, id : Ids \cup {Missing}, version : Maybe,
                              answer : [Ids -> Maybe \X Maybe], alone : BOOLEAN]]
    BY <1>1, <1>2, DoneTyped
  <2> QED BY <1>1, <1>3, <2>1 DEF LibraryTyped, Halfway
<1>5. \A j \in Ids \ torn' : sqlFile[j] = metaFile[j]
  BY <1>1 DEF WholeQueries, Explained
<1>6. WholeQueries'
  BY <1>1, <1>3, <1>5, LibraryAssumption DEF WholeQueries, OneCall, Explained, FirstDone
<1>7. CurrentLists'
  BY <1>1, <1>3 DEF CurrentLists
<1> QED BY <1>4, <1>6, <1>7

LEMMA UnchangedStep ==
  ASSUME LibraryInv, dialog' \in BOOLEAN, UNCHANGED <<sqlFile, metaFile, library, calls, torn, behind>>
  PROVE  LibraryInv'
<1>1. LibraryTyped'
  BY DEF LibraryInv, LibraryTyped
<1>2. \A i \in Ids : OneCall(i)' = OneCall(i) /\ Explained(i)' = Explained(i) /\ FirstDone(i)' = FirstDone(i)
  BY DEF OneCall, Explained, FirstDone, InFlight
<1>3. WholeQueries'
  BY <1>2 DEF LibraryInv, WholeQueries
<1>4. Listing' = Listing
  BY DEF Listing
<1>5. CurrentLists'
  BY <1>4 DEF LibraryInv, CurrentLists, InFlight
<1> QED BY <1>1, <1>3, <1>5 DEF LibraryInv

LEMMA LibraryPreserved == LibraryInv /\ [LibraryNext]_libraryVars => LibraryInv'
<1> SUFFICES ASSUME LibraryInv, [LibraryNext]_libraryVars PROVE LibraryInv'
  OBVIOUS
<1>1. CASE ToggleDialog
  <2>1. dialog' \in BOOLEAN /\ UNCHANGED <<sqlFile, metaFile, library, calls, torn, behind>>
    BY <1>1 DEF ToggleDialog
  <2> QED BY <2>1, UnchangedStep
<1>2. ASSUME NEW k \in Calls, NEW i \in Ids, NEW v \in Versions, SaveQuery(k, i, v) PROVE LibraryInv'
  <2> DEFINE c == [Done EXCEPT !.pc = "write sql", !.id = i, !.version = v]
  <2>1. c \in [pc : {"write sql", "remove sql"}, id : {i}, version : Maybe,
               answer : [Ids -> Maybe \X Maybe], alone : {FALSE}]
    BY DoneTyped DEF Maybe
  <2> HIDE DEF c
  <2>2. Start(k, c)
    BY <1>2 DEF SaveQuery, c
  <2> QED BY <1>2, <2>1, <2>2, StartStep DEF SaveQuery
<1>3. ASSUME NEW k \in Calls, NEW i \in Ids, DeleteQuery(k, i) PROVE LibraryInv'
  <2> DEFINE c == [Done EXCEPT !.pc = "remove sql", !.id = i]
  <2>1. c \in [pc : {"write sql", "remove sql"}, id : {i}, version : Maybe,
               answer : [Ids -> Maybe \X Maybe], alone : {FALSE}]
    BY DoneTyped
  <2> HIDE DEF c
  <2>2. Start(k, c)
    BY <1>3 DEF DeleteQuery, c
  <2> QED BY <1>3, <2>1, <2>2, StartStep DEF DeleteQuery
<1>4. CASE UNCHANGED libraryVars
  <2>1. dialog' \in BOOLEAN /\ UNCHANGED <<sqlFile, metaFile, library, calls, torn, behind>>
    BY <1>4 DEF libraryVars, LibraryInv, LibraryTyped
  <2> QED BY <2>1, UnchangedStep
<1> QED
  BY <1>1, <1>2, <1>3, <1>4, FirstFileStep, SecondFileStep, ReadStep, CallEndStep, ReopenStep DEF LibraryNext

LEMMA LibraryAlways == LibrarySpec => []LibraryInv
  BY LibraryInitially, LibraryPreserved, PTL DEF LibrarySpec

\* The two files of every query are a version or missing, and a call is about a
\* query or none.
THEOREM LibraryTypeCorrect == LibrarySpec => []LibraryTypeOK
<1>1. LibraryInv => LibraryTypeOK
  BY DEF LibraryInv, LibraryTyped, LibraryTypeOK, Maybe
<1> QED
  BY <1>1, LibraryAlways, PTL

\* The two files of a query are a pair, unless a call on that very query failed,
\* was killed halfway or met another (save_query and delete_query in history.rs).
THEOREM QueriesStayWhole == LibrarySpec => []NoTornQuery
<1>1. LibraryInv => NoTornQuery
  BY DEF LibraryInv, WholeQueries, Explained, NoTornQuery, OnSame, InFlight, Halfway
<1> QED
  BY <1>1, LibraryAlways, PTL

\* After a list that was read and answered undisturbed the panel shows what is on
\* disk (list_queries, and SET_QUERIES in savedQueriesReducer.ts).
THEOREM PanelIsDisk == LibrarySpec => []LibraryIsDisk
<1>1. LibraryInv => LibraryIsDisk
  BY DEF LibraryInv, CurrentLists, LibraryIsDisk
<1> QED
  BY <1>1, LibraryAlways, PTL

-----------------------------------------------------------------------------
(* The window.                                                             *)

\* Each component takes its own steps or stutters.
LEMMA WorkbenchSteps ==
  Init /\ [][Next]_workbenchVars => SchemaSpec /\ StoreSpec /\ PrefsSpec /\ LibrarySpec
<1>1. Init => SchemaInit /\ StoreInit /\ PrefsInit /\ LibraryInit
  BY DEF Init
<1>2. [Next]_workbenchVars => [SchemaNext]_schemaVars
  BY DEF Next, InUse, workbenchVars
<1>3. [Next]_workbenchVars => [StoreNext]_storeVars
  BY DEF Next, InUse, workbenchVars
<1>4. [Next]_workbenchVars => [PrefsNext]_prefsVars
  BY DEF Next, InUse, workbenchVars
<1>5. [Next]_workbenchVars => [LibraryNext]_libraryVars
  BY DEF Next, InUse, workbenchVars
<1> QED BY <1>1, <1>2, <1>3, <1>4, <1>5, PTL DEF SchemaSpec, StoreSpec, PrefsSpec, LibrarySpec

\* The state of every component is of its type, whichever of them is in use.
THEOREM WorkbenchTypeCorrect == Spec => []TypeOK
<1>1. SchemaTypeOK /\ StoreTypeOK /\ PrefsTypeOK /\ LibraryTypeOK => TypeOK
  BY DEF TypeOK
<1> QED BY <1>1, WorkbenchSteps, SchemaTypeCorrect, StoreTypeCorrect, PrefsTypeCorrect, LibraryTypeCorrect, PTL DEF Spec

\* And each component keeps what it promises, whichever of them is in use: the schema
\* browser, the saved connections and their secrets, the settings and the lock, and
\* the saved queries.
THEOREM WorkbenchKeepsItsPromises ==
  Spec => /\ []ShownIsActives /\ []SchemaLoadingExplained /\ []DroppedIsForgotten /\ []CacheBounded
          /\ []SavedWithItsSecret /\ NoSecretOfAnother
          /\ []SettingsAreOnDisk /\ []LockArmed /\ SavesOnlyEdits
          /\ []NoTornQuery /\ []LibraryIsDisk
  BY WorkbenchSteps, ShownIsActivesAlways, LoadingExplainedAlways, DroppedIsForgottenAlways, CacheBoundedAlways,
     SavedWithItsSecretAlways, NoSecretOfAnotherAlways, SettingsInForce, LockStaysArmed, OnlyEditsSaved,
     QueriesStayWhole, PanelIsDisk, PTL DEF Spec
=============================================================================
