----------------------------- MODULE EditorText -----------------------------
(***************************************************************************)
(* The text of the editor and the text of the tabs.                        *)
(*                                                                         *)
(* There is one Monaco editor for all tabs.  What it holds is written to   *)
(* the active tab 300 ms after the last change, and by the handlers that   *)
(* leave a tab; the text of the tab they go to is put into it by a timer   *)
(* of 0 ms, which the browser runs before the next event of the user but   *)
(* perhaps after the 300 ms timer.  The handlers below write and read that *)
(* text each in its own way, and two items of the command palette change   *)
(* tabs without doing either.                                              *)
(***************************************************************************)
EXTENDS Tabs

CONSTANTS
  Texts,       \* what the user puts into the editor
  Default,     \* SqlEditor's defaultValue, shown before anything was typed
  Blank,       \* "", the sql of a new tab
  Definition   \* the definition of a schema object

ASSUME EditorAssumption ==
  {Default, Blank, Definition} \cap Texts = {} /\ Null \notin Texts \cup {Default, Blank, Definition}

VARIABLES
  shelf,    \* the tab strip: the sql of each tab
  taken,    \* tab ids handed out so far
  buffer,   \* the text in the editor
  timer,    \* sqlSaveTimer: the text it will save, or Null
  load,     \* the text a timer of 0 ms will put into the editor, or Null
  asking,   \* the tab that was active when a definition was asked for, or Null
  meant,    \* history: the text the user last left in each tab
  strayed   \* history: the palette changed tabs, or a definition arrived when
            \* another tab was active or being shown

editorVars == <<shelf, taken, buffer, timer, load, asking, meant, strayed>>

AllTexts == Texts \cup {Default, Blank, Definition}

EditorInit ==
  /\ shelf = InitTabs([sql |-> Blank])
  /\ taken = {FirstTab}
  /\ buffer = Default
  /\ timer = Null /\ load = Null /\ asking = Null
  /\ meant = [t \in TabIds |-> IF t = FirstTab THEN Default ELSE Blank]
  /\ strayed = FALSE

Kept(s, id) == UpdateTab(s, id, LAMBDA t : [t EXCEPT !.sql = buffer])
Settling == load # Null

-----------------------------------------------------------------------------
(* The editor.                                                             *)

\* A change of the text by typing, or by setValue: an entry of the history, a
\* saved query, a file, a script, the formatter, an item of the palette.  It
\* arms the timer again.
PutText(x) ==
  /\ ~Settling
  /\ buffer' = x /\ timer' = x
  /\ meant' = [meant EXCEPT ![shelf.active] = x]
  /\ UNCHANGED <<shelf, taken, load, asking, strayed>>

\* To the tab that is active by now.
SaveFires ==
  /\ timer # Null
  /\ shelf' = UpdateActiveTab(shelf, LAMBDA t : [t EXCEPT !.sql = timer])
  /\ timer' = Null
  /\ UNCHANGED <<taken, buffer, load, asking, meant, strayed>>

\* setValue is a change like any other.
ShowLoaded ==
  /\ Settling
  /\ buffer' = load /\ timer' = load
  /\ load' = Null
  /\ UNCHANGED <<shelf, taken, asking, meant, strayed>>

-----------------------------------------------------------------------------
(* The tab bar and its shortcuts.                                          *)

\* Mutant of ClickTab: it trusts the timer to have saved the text.
ClickWithoutKeeping(t) ==
  /\ ~Settling /\ t \in OpenTabs(shelf) \ {shelf.active}
  /\ shelf' = SetActive(shelf, t)
  /\ load' = shelf.tab[t].sql
  /\ UNCHANGED <<taken, buffer, timer, asking, meant, strayed>>

ClickTab(t) ==
  /\ ~Settling /\ t \in OpenTabs(shelf) \ {shelf.active}
  /\ shelf' = SetActive(Kept(shelf, shelf.active), t)
  /\ load' = shelf.tab[t].sql
  /\ UNCHANGED <<taken, buffer, timer, asking, meant, strayed>>

PlusTab(t) ==
  /\ ~Settling /\ t \in TabIds \ taken
  /\ shelf' = AppendActivate(Kept(shelf, shelf.active), t, [sql |-> Blank])
  /\ taken' = taken \cup {t}
  /\ load' = Blank
  /\ UNCHANGED <<buffer, timer, asking, meant, strayed>>

\* The text goes to the active tab, whichever is closed; the neighbour's is
\* shown when that was the active one.
ShutTabKeeping(t) ==
  /\ ~Settling /\ t \in OpenTabs(shelf) /\ Len(shelf.order) > 1
  /\ shelf' = Close(Kept(shelf, shelf.active), t)
  /\ load' = IF t = shelf.active THEN shelf.tab[shelf'.active].sql ELSE Null
  /\ meant' = [meant EXCEPT ![t] = Blank]
  /\ UNCHANGED <<taken, buffer, timer, asking, strayed>>

-----------------------------------------------------------------------------
(* The command palette: neither saves the text nor shows the other tab's.  *)

PaletteJump(t) ==
  /\ ~Settling /\ t \in OpenTabs(shelf) \ {shelf.active}
  /\ shelf' = SetActive(shelf, t)
  /\ strayed' = TRUE
  /\ UNCHANGED <<taken, buffer, timer, load, asking, meant>>

PaletteNewTab(t) ==
  /\ ~Settling /\ t \in TabIds \ taken
  /\ shelf' = AppendActivate(shelf, t, [sql |-> Blank])
  /\ taken' = taken \cup {t}
  /\ strayed' = TRUE
  /\ UNCHANGED <<buffer, timer, load, asking, meant>>

-----------------------------------------------------------------------------
(* openDefinition, scriptDropAndCreate and scriptCreateOrAlter.            *)

AskDefinition ==
  /\ ~Settling /\ asking = Null
  /\ asking' = shelf.active
  /\ UNCHANGED <<shelf, taken, buffer, timer, load, meant, strayed>>

\* The text in the editor is saved to the tab that was active when asked, and a
\* tab with the definition opens.
DefinitionArrived(t) ==
  /\ asking # Null /\ t \in TabIds \ taken
  /\ shelf' = AppendActivate(Kept(shelf, asking), t, [sql |-> Definition])
  /\ taken' = taken \cup {t}
  /\ load' = Definition
  /\ asking' = Null
  /\ meant' = [meant EXCEPT ![t] = Definition]
  /\ strayed' = (strayed \/ asking # shelf.active \/ Settling)
  /\ UNCHANGED <<buffer, timer>>

\* An error is shown, no tab opens.
DefinitionRefused ==
  /\ asking # Null
  /\ asking' = Null
  /\ UNCHANGED <<shelf, taken, buffer, timer, load, meant, strayed>>

-----------------------------------------------------------------------------

EditorNext ==
  \/ \E x \in Texts : PutText(x)
  \/ SaveFires \/ ShowLoaded
  \/ \E t \in TabIds : \/ ClickTab(t) \/ PlusTab(t) \/ ShutTabKeeping(t)
                       \/ PaletteJump(t) \/ PaletteNewTab(t) \/ DefinitionArrived(t)
  \/ AskDefinition \/ DefinitionRefused

EditorSpec == EditorInit /\ [][EditorNext]_editorVars

-----------------------------------------------------------------------------
(* Properties                                                              *)

EditorTypeOK ==
  /\ StripOK(shelf)
  /\ \A t \in OpenTabs(shelf) : shelf.tab[t].sql \in AllTexts
  /\ buffer \in AllTexts /\ {timer, load} \subseteq AllTexts \cup {Null}
  /\ asking \in TabIds \cup {Null}

\* "Each tab has its own SQL": through any sequence of typing, switching, opening
\* and closing, with timers that run late, the editor shows the text last left
\* in the active tab, or is about to, and every other tab holds its own.  With no
\* timer outstanding the active tab holds it too: a save that fired between the
\* change of tab and its text is always made good.  Only the text a fresh window
\* starts with is in no tab.
TextsKept ==
  ~strayed =>
    /\ \A t \in OpenTabs(shelf) \ {shelf.active} : shelf.tab[t].sql = meant[t]
    /\ meant[shelf.active] = IF Settling THEN load ELSE buffer
    /\ timer = Null /\ ~Settling =>
         \/ shelf.tab[shelf.active].sql = buffer
         \/ shelf.tab[shelf.active].sql = Blank /\ buffer = Default
=============================================================================
