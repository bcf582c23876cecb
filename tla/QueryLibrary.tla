----------------------------- MODULE QueryLibrary -----------------------------
(***************************************************************************)
(* The library of saved queries: the save dialog, the panel, and the       *)
(* commands save_query, delete_query and list_queries.                     *)
(*                                                                         *)
(* A query is two files, the SQL and a sidecar, written and removed one    *)
(* after the other.  Commands run beside one another, since neither the    *)
(* dialog nor the panel waits; every save and every deletion goes on as a  *)
(* reload of the list, and a list may be answered after a younger one.     *)
(*                                                                         *)
(* fs::write and fs::remove_file of one file are taken as atomic: a file   *)
(* is as it was before, or as it is after; one that a crash leaves empty   *)
(* or half written, as the code permits, is left out.                      *)
(*                                                                         *)
(* Data: a query is named by its id; a version stands for its text and for *)
(* the sidecar written with it.  Without a sidecar a query is listed under *)
(* its id.                                                                 *)
(***************************************************************************)
EXTENDS Integers

CONSTANTS Ids, Versions, Missing, Calls

ASSUME LibraryAssumption == Missing \notin Versions \cup Ids

VARIABLES
  sqlFile,   \* the version of every <id>.sql
  metaFile,  \* the version of every <id>.meta.toml
  dialog,    \* saveOpen
  library,   \* `queries`: id -> its two versions, Missing when not listed
  calls,     \* where each call is
  torn,      \* history: ids a call was stopped on halfway, or two calls met on
  behind     \* history: the list on display may be older than the files

libraryVars == <<sqlFile, metaFile, dialog, library, calls, torn, behind>>

NoFile == [i \in Ids |-> Missing]
Listing ==
  [i \in Ids |-> IF sqlFile[i] = Missing THEN <<Missing, Missing>> ELSE <<sqlFile[i], metaFile[i]>>]
Empty == [i \in Ids |-> <<Missing, Missing>>]
Done == [pc |-> "idle", id |-> Missing, version |-> Missing, answer |-> Empty, alone |-> FALSE]

LibraryInit ==
  /\ sqlFile = NoFile /\ metaFile = NoFile
  /\ dialog = FALSE
  /\ library = Empty
  /\ calls \in {[k \in Calls |-> IF k = m THEN [Done EXCEPT !.pc = "list"] ELSE Done] : m \in Calls}
  /\ torn = {} /\ behind = TRUE

InFlight(k) == calls[k].pc # "idle"
Idle == \A k \in Calls : ~InFlight(k)
OnSame(i) == \E k \in Calls : InFlight(k) /\ calls[k].id = i

\* From here on no list that was read before is known to be the last.
Start(k, c) == calls' = [m \in Calls |-> IF m = k THEN c ELSE [calls[m] EXCEPT !.alone = FALSE]]
Step(k, pc) == calls' = [calls EXCEPT ![k].pc = pc]

-----------------------------------------------------------------------------
(* The user.                                                               *)

ToggleDialog ==
  /\ dialog' = ~dialog
  /\ UNCHANGED <<sqlFile, metaFile, library, calls, torn, behind>>

\* Save, or Enter, and nothing keeps the user from pressing it twice.
SaveQuery(k, i, v) ==
  /\ dialog /\ ~InFlight(k)
  /\ torn' = IF OnSame(i) THEN torn \cup {i} ELSE torn
  /\ behind' = TRUE
  /\ Start(k, [Done EXCEPT !.pc = "write sql", !.id = i, !.version = v])
  /\ UNCHANGED <<sqlFile, metaFile, dialog, library>>

DeleteQuery(k, i) ==
  /\ library[i] # <<Missing, Missing>> /\ ~InFlight(k)
  /\ torn' = IF OnSame(i) THEN torn \cup {i} ELSE torn
  /\ behind' = TRUE
  /\ Start(k, [Done EXCEPT !.pc = "remove sql", !.id = i])
  /\ UNCHANGED <<sqlFile, metaFile, dialog, library>>

-----------------------------------------------------------------------------
(* The commands, and what follows their answers.                           *)

SqlWritten(k) ==
  /\ calls[k].pc = "write sql"
  /\ sqlFile' = [sqlFile EXCEPT ![calls[k].id] = calls[k].version]
  /\ Step(k, "write meta")
  /\ UNCHANGED <<metaFile, dialog, library, torn, behind>>

\* SAVE_COMPLETE closes the dialog, whatever it holds by now; the list is next.
MetaWritten(k) ==
  /\ calls[k].pc = "write meta"
  /\ metaFile' = [metaFile EXCEPT ![calls[k].id] = calls[k].version]
  /\ dialog' = FALSE
  /\ Step(k, "list")
  /\ UNCHANGED <<sqlFile, library, torn, behind>>

\* Mutant of SqlRemoved: the sidecar is left.
SidecarLeft(k) ==
  /\ calls[k].pc = "remove sql"
  /\ sqlFile' = [sqlFile EXCEPT ![calls[k].id] = Missing]
  /\ Step(k, "list")
  /\ UNCHANGED <<metaFile, dialog, library, torn, behind>>

SqlRemoved(k) ==
  /\ calls[k].pc = "remove sql"
  /\ sqlFile' = [sqlFile EXCEPT ![calls[k].id] = Missing]
  /\ Step(k, "remove meta")
  /\ UNCHANGED <<metaFile, dialog, library, torn, behind>>

MetaRemoved(k) ==
  /\ calls[k].pc = "remove meta"
  /\ metaFile' = [metaFile EXCEPT ![calls[k].id] = Missing]
  /\ Step(k, "list")
  /\ UNCHANGED <<sqlFile, dialog, library, torn, behind>>

\* list_queries reads the directory, some time before its answer is shown.
Read(k) ==
  /\ calls[k].pc = "list"
  /\ calls' = [calls EXCEPT ![k] = [Done EXCEPT !.pc = "answer", !.answer = Listing,
                 !.alone = \A m \in Calls \ {k} : ~InFlight(m)]]
  /\ UNCHANGED <<sqlFile, metaFile, dialog, library, torn, behind>>

\* Mutant of ListShown: the answer is merged into the list on display.
ListMerged(k) ==
  /\ calls[k].pc = "answer"
  /\ library' = [i \in Ids |-> IF calls[k].answer[i] = <<Missing, Missing>> THEN library[i] ELSE calls[k].answer[i]]
  /\ behind' = ~calls[k].alone
  /\ calls' = [calls EXCEPT ![k] = Done]
  /\ UNCHANGED <<sqlFile, metaFile, dialog, torn>>

ListShown(k) ==
  /\ calls[k].pc = "answer"
  /\ library' = calls[k].answer
  /\ behind' = ~calls[k].alone
  /\ calls' = [calls EXCEPT ![k] = Done]
  /\ UNCHANGED <<sqlFile, metaFile, dialog, torn>>

\* Any command may fail.  Then the dialog stays open and no list is read.
CommandFails(k) ==
  /\ InFlight(k)
  /\ torn' = IF calls[k].pc \in {"write meta", "remove meta"} THEN torn \cup {calls[k].id} ELSE torn
  /\ behind' = TRUE
  /\ calls' = [calls EXCEPT ![k] = Done]
  /\ UNCHANGED <<sqlFile, metaFile, dialog, library>>

\* The application is closed under its calls and started again.
Reopened(k) ==
  /\ torn' = torn \cup {calls[m].id : m \in {n \in Calls : calls[n].pc \in {"write meta", "remove meta"}}}
  /\ dialog' = FALSE /\ library' = Empty /\ behind' = TRUE
  /\ calls' = [m \in Calls |-> IF m = k THEN [Done EXCEPT !.pc = "list"] ELSE Done]
  /\ UNCHANGED <<sqlFile, metaFile>>

-----------------------------------------------------------------------------

LibraryNext ==
  \/ ToggleDialog
  \/ \E k \in Calls :
       \/ \E i \in Ids, v \in Versions : SaveQuery(k, i, v)
       \/ \E i \in Ids : DeleteQuery(k, i)
       \/ SqlWritten(k) \/ MetaWritten(k) \/ SqlRemoved(k) \/ MetaRemoved(k)
       \/ Read(k) \/ ListShown(k) \/ CommandFails(k) \/ Reopened(k)

LibrarySpec == LibraryInit /\ [][LibraryNext]_libraryVars

-----------------------------------------------------------------------------
(* Properties                                                              *)

LibraryTypeOK ==
  /\ {sqlFile, metaFile} \subseteq [Ids -> Versions \cup {Missing}]
  /\ dialog \in BOOLEAN
  /\ \A k \in Calls : calls[k].id \in Ids \cup {Missing}

\* The two files of a query belong together, and are both there or both gone,
\* unless a call on that query failed or was killed halfway or met another: no
\* calls on other queries tear it.
NoTornQuery ==
  \A i \in Ids : sqlFile[i] # metaFile[i] => i \in torn \/ OnSame(i)

\* The panel lists what is on disk after a list that was read and answered with
\* no other call in flight, however lists were overtaken before.
LibraryIsDisk == ~behind => library = Listing
=============================================================================
