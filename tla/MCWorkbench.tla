----------------------------- MODULE MCWorkbench -----------------------------
(***************************************************************************)
(* The components of the window that share no state with one another, each *)
(* explored from its own initial states while the others rest: `focus` is  *)
(* the component that is in use.  The state space is the sum of theirs.    *)
(***************************************************************************)
EXTENDS MCSchemaBrowser, ConnectionStore, Preferences, QueryLibrary

VARIABLE focus

workbenchVars == <<schemaVars, storeVars, prefsVars, libraryVars, focus>>

MCImport == [slug |-> CHOOSE s \in Slugs : TRUE, user |-> CHOOSE u \in Users : TRUE,
             password |-> CHOOSE p \in Passwords : TRUE]

Init ==
  /\ focus \in {"schema", "store", "preferences", "library"}
  /\ SchemaInit /\ StoreInit /\ PrefsInit /\ LibraryInit
  \* One initial state stands for those of a component that rests.
  /\ focus # "store" => files = [NoFiles EXCEPT ![Import.slug] = Import.user]
  /\ focus # "preferences" => disk = DefaultSettings /\ ~stored

InUse(component, vars1, vars2, vars3) ==
  focus = component /\ UNCHANGED <<vars1, vars2, vars3, focus>>

Next ==
  \/ InUse("schema", storeVars, prefsVars, libraryVars) /\ SchemaNext
  \/ InUse("store", schemaVars, prefsVars, libraryVars) /\ StoreNext
  \/ InUse("preferences", schemaVars, storeVars, libraryVars) /\ PrefsNext
  \/ InUse("library", schemaVars, storeVars, prefsVars) /\ LibraryNext

Spec == Init /\ [][Next]_workbenchVars

\* No property of the store says anything once two of its calls have met.
StoreBound == ~overlapped

Symmetry == LoadSymmetry \cup Permutations(Calls)

\* Every component's state is of its type.
TypeOK == SchemaTypeOK /\ StoreTypeOK /\ PrefsTypeOK /\ LibraryTypeOK
=============================================================================
