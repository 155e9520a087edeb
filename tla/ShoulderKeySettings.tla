-------------------------- MODULE ShoulderKeySettings --------------------------
(***************************************************************************)
(* Where the coordinates of the shoulder keys come from.  The service and   *)
(* its fragments, on the main thread of their process, edit mInfoList, the  *)
(* copy of the table that ShoulderKeyUtils keeps in memory, and save it row *)
(* by row when the overlay or the list of apps is closed.  The input filter, *)
(* in the system server, reads the table itself on every key event, for the *)
(* package its task stack listener was last told.                           *)
(***************************************************************************)
EXTENDS Naturals

CONSTANTS
  Apps,      \* packages whose keys the user may map
  Settings,  \* the package of the settings of the keys
  Positions, \* coordinates of the two keys on the screen
  Origin     \* those of a new ShoulderKeyInfo

ASSUME SettingsAssumption == Settings \notin Apps /\ Origin \notin Positions

Packages  == Apps \cup {Settings}
Global    == "global.keymapping.package"
Rotations == {0, 1}
NoView    == "no view"

VARIABLES
  table,       \* the rows of the table KeyMapping
  global,      \* GLOBAL_MODE of the table KeyMappingConfig
  list,        \* mInfoList of the service's ShoulderKeyUtils
  view,        \* the package whose overlay is shown, or NoView
  fragment,    \* the list of apps is open
  reconfigure, \* onConfigurationChanged has still to be called
  top,         \* the package on screen (external)
  rotation,    \* of the display (external)
  telling,     \* the filter's task stack listener has still to be called
  task,        \* mPackageName of the filter's ShoulderKeyUtils
  loading,     \* an event of a key has read that global mode is on, and
               \* has still to overwrite mPackageName
  overtaken,   \* history: it did so after global mode was switched off
  torn         \* history: the process died while it was saving

rows   == <<table, list>>
ui     == <<view, fragment>>
screen  == <<top, rotation, reconfigure>>
filter == <<telling, task, loading, overtaken>>
settingsVars == <<rows, global, ui, screen, filter, torn>>

(* A definition whose name ends in an underscore and a word is never used   *)
(* by the specification: it is the next definition with a plausible bug,    *)
(* listed under "mutants" in PROJECT.json.                                  *)

Row == [package : Packages \cup {Global}, rotation : Rotations,
        enabled : BOOLEAN, at : Positions \cup {Origin}]

SettingsInit ==
  /\ table = {} /\ global = FALSE /\ list = {}
  /\ view = NoView /\ fragment = FALSE
  /\ reconfigure = FALSE /\ top = Settings /\ rotation = 0
  /\ telling = FALSE /\ task = Settings /\ torn = FALSE
  /\ loading = FALSE /\ overtaken = FALSE

SameKey(x, y) == x.package = y.package /\ x.rotation = y.rotation
RowsOf(some, p, r) == {x \in some : x.package = p /\ x.rotation = r}

KeyOf(p) == IF global THEN Global ELSE p

(* getEnabledByPackage: what the row of the first rotation that has one says. *)
Enabled(some, p) ==
  \/ global
  \/ LET turns == {r \in Rotations : RowsOf(some, p, r) # {}}
         first == CHOOSE r \in turns : \A s \in turns : r <= s
     IN  turns # {} /\ \E x \in RowsOf(some, p, first) : x.enabled

-----------------------------------------------------------------------------
(* saveAllAppsCoordinate: every row of the list updates its row in the      *)
(* table or is added, and the list is read again.                           *)

Saved(some) == {x \in table : \A y \in some : ~SameKey(x, y)} \cup some

SaveAllAppsCoordinate == table' = Saved(list) /\ list' = table'

(* The overlay: tile and list of apps show it, and hide it if it is shown.  *)

RemoveKeyMappingViews_Unsaved == view' = NoView /\ UNCHANGED rows
RemoveKeyMappingViews == view' = NoView /\ SaveAllAppsCoordinate

ShowKeyMappingViews(p) ==
  /\ p = top \/ (fragment /\ p \in Apps)
  /\ IF view # NoView THEN RemoveKeyMappingViews
     ELSE view' = (IF Enabled(list, p) THEN p ELSE NoView) /\ UNCHANGED rows
  /\ UNCHANGED <<global, fragment, screen, filter, torn>>

(* Cancel, long click, back, and the screen that goes off.                  *)
Hide ==
  /\ view # NoView /\ RemoveKeyMappingViews
  /\ UNCHANGED <<global, fragment, screen, filter, torn>>

(* The overlay comes back for the package that is on screen by now, if its  *)
(* keys are enabled.                                                        *)
OnConfigurationChanged ==
  /\ reconfigure /\ reconfigure' = FALSE
  /\ IF view = NoView THEN UNCHANGED <<view, rows>>
     ELSE /\ SaveAllAppsCoordinate
          /\ view' = IF Enabled(list', top) THEN top ELSE NoView
  /\ UNCHANGED <<global, fragment, top, rotation, filter, torn>>

(* A button is dropped: saveCoordinate, for the rotation of the display.    *)
SaveCoordinate(at) ==
  /\ view # NoView
  /\ LET old == RowsOf(list, KeyOf(view), rotation)
     IN  list' = IF old # {}
                 THEN (list \ old) \cup {[x EXCEPT !.at = at] : x \in old}
                 ELSE list \cup {[package |-> KeyOf(view), rotation |-> rotation,
                                  enabled |-> TRUE, at |-> at]}
  /\ UNCHANGED <<table, global, ui, screen, filter, torn>>

-----------------------------------------------------------------------------
(* The list of apps, which global mode closes, and the switch of that mode. *)

Open ==
  /\ ~fragment /\ ~global /\ top = Settings
  /\ fragment' = TRUE
  /\ UNCHANGED <<rows, global, view, screen, filter, torn>>

OnDestroy ==
  /\ fragment /\ fragment' = FALSE
  /\ SaveAllAppsCoordinate
  /\ UNCHANGED <<global, view, screen, filter, torn>>

Switched_Upright == {0}
Switched == Rotations

SetEnabledByPackage(p, enabled) ==
  /\ fragment
  /\ list' = {IF x.package = p /\ x.rotation \in Switched
              THEN [x EXCEPT !.enabled = enabled] ELSE x : x \in list}
             \cup {[package |-> p, rotation |-> r, enabled |-> enabled, at |-> Origin] :
                     r \in {s \in Switched : RowsOf(list, p, s) = {}}}
  /\ UNCHANGED <<table, global, ui, screen, filter, torn>>

ResetAllAppsCoordinate ==
  /\ fragment
  /\ list' = {} /\ table' = {}
  /\ UNCHANGED <<global, ui, screen, filter, torn>>

SetKeyMappingGlobalMode ==
  /\ ~fragment /\ top = Settings
  /\ global' = ~global
  /\ UNCHANGED <<rows, ui, screen, filter, torn>>

(* The process dies, maybe with some rows of a save in the table, and is    *)
(* started again.                                                           *)
Die ==
  /\ \E some \in SUBSET (IF view # NoView \/ fragment THEN list ELSE {}) :
       /\ table' = Saved(some) /\ list' = table'
       /\ torn' = (torn \/ some # {})
  /\ view' = NoView /\ fragment' = FALSE /\ reconfigure' = FALSE
  /\ UNCHANGED <<global, top, rotation, filter>>

-----------------------------------------------------------------------------
(* The world and the input filter.                                          *)

Switch(p) ==
  /\ top' = p /\ telling' = TRUE
  /\ UNCHANGED <<rows, global, ui, rotation, reconfigure, task, loading, overtaken, torn>>

Rotate ==
  /\ rotation' = 1 - rotation /\ reconfigure' = TRUE
  /\ UNCHANGED <<rows, global, ui, top, filter, torn>>

(* onTaskStackChanged compares references: the name is always taken.        *)
Told_KeepGlobal == IF task = Global THEN Global ELSE top
Told == top

OnTaskStackChanged ==
  /\ telling /\ telling' = FALSE
  /\ task' = Told /\ overtaken' = FALSE
  /\ UNCHANGED <<rows, global, ui, screen, loading, torn>>

(* loadCoordinateByTaskPackage, on every event of a key, reads global mode  *)
(* from the database, and holds no lock that keeps the process of the       *)
(* settings or the listener from going on before it writes mPackageName.    *)
LoadCoordinate ==
  /\ ~loading /\ loading' = global
  /\ UNCHANGED <<rows, global, ui, screen, telling, task, overtaken, torn>>

OverwritePackage ==
  /\ loading /\ loading' = FALSE
  /\ task' = Global /\ overtaken' = ~global
  /\ UNCHANGED <<rows, global, ui, screen, telling, torn>>

SettingsNext ==
  \/ \E p \in Packages : ShowKeyMappingViews(p) \/ Switch(p)
  \/ Hide \/ OnConfigurationChanged \/ \E at \in Positions : SaveCoordinate(at)
  \/ Open \/ OnDestroy \/ ResetAllAppsCoordinate \/ SetKeyMappingGlobalMode \/ Die
  \/ \E p \in Apps, enabled \in BOOLEAN : SetEnabledByPackage(p, enabled)
  \/ Rotate \/ OnTaskStackChanged \/ LoadCoordinate \/ OverwritePackage

SettingsSpec == SettingsInit /\ [][SettingsNext]_settingsVars

-----------------------------------------------------------------------------
(* Correctness.                                                             *)

SettingsTypeOK ==
  /\ table \subseteq Row /\ list \subseteq Row /\ global \in BOOLEAN
  /\ view \in Packages \cup {NoView} /\ fragment \in BOOLEAN
  /\ reconfigure \in BOOLEAN /\ top \in Packages /\ rotation \in Rotations
  /\ telling \in BOOLEAN /\ task \in Packages \cup {Global} /\ torn \in BOOLEAN
  /\ loading \in BOOLEAN /\ overtaken \in BOOLEAN

Edited == view # NoView \/ fragment

(* Once overlay and list are closed, and after a crash, the process and the *)
(* filter agree on every row, of which a package has one in each rotation   *)
(* (saveAllAppsCoordinate, saveAppKeyInfo).                                 *)
NothingUnsaved ==
  /\ SettingsTypeOK
  /\ ~Edited => list = table
  /\ \A some \in {list, table} : \A x, y \in some : SameKey(x, y) => x = y

(* The rows an app has in the table are enabled exactly when its switch is  *)
(* on, in both rotations, although each row has an enabled of its own and   *)
(* rows come from switches and from drops (a crash in the middle of a save  *)
(* breaks it).  A rotation that has no row, or none of whose keys was moved *)
(* from x = 0, is not mapped although the switch is on: getAppKeyInfo and   *)
(* getAllCoordinate return null.                                            *)
RowsFollowSwitch ==
  ~Edited /\ ~torn /\ ~global =>
    \A x \in table : x.package # Global => x.enabled = Enabled(list, x.package)

(* The keys are mapped for the app on screen, also after a time in global   *)
(* mode, in which the filter overwrites mPackageName; unless an event that  *)
(* had read global mode overwrote it once more when the mode was off (until *)
(* the next app is told).                                                   *)
KeysFollowApp ==
  ~telling /\ ~global /\ top # Settings => task = top \/ (overtaken /\ task = Global)

=============================================================================
