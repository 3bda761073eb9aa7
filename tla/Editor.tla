-------------------------------- MODULE Editor --------------------------------
(***************************************************************************)
(* The editor's panels over the command bus (editor/shell.py, session.py,  *)
(* hierarchy.py, inspector.py, toolbar.py, viewport.py, gizmo.py), and any *)
(* other client of the bus beside them.                                    *)
(*                                                                         *)
(* The hierarchy panel shows the rows it was given when the window opened; *)
(* the inspector edits a copy of one object's fields, loaded earlier, and  *)
(* Apply writes them back by name in a row of commands none of whose       *)
(* results it reads.  Each handler runs to its end on the UI thread.       *)
(***************************************************************************)
EXTENDS CommandBus

CONSTANTS NewName(_),  \* create_empty: "GameObject" + str(child_count + 1)
          SampleFile,   \* the scene editor_main opens
          FirstSelected \* "Player"

ASSUME EditorAssumption ==
    /\ IsTree(SampleFile)
    /\ FirstSelected \in Name
    /\ "moved" \in Setting /\ "JumpMotor" \in Kind

VARIABLES rows,      \* HierarchyView.rows, by name
          form,      \* the inspector: the name it is bound to, and whether it shows a motor
          dragging   \* TranslateGizmo.dragging

editorVars == <<bus, rows, form, dragging>>

\* load_from_selection
LoadForm(b) ==
    [bound |-> b.selected,
     hasJump |-> /\ b.selected # NoName
                 /\ LevelOf(b, b.selected, "JumpMotor") # "none"]

\* editor_main: load the sample, select the player, open the shell.
EditorInit ==
    /\ bus = Select(Load(NewBus, SampleFile), FirstSelected)
    /\ rows = [i \in DOMAIN bus.scene |-> bus.scene[i].name]
    /\ form = LoadForm(bus)
    /\ dragging = FALSE

\* on_pointer_down of the hierarchy: the clicked row is selected and the inspector reloads.
ClickRow(i) ==
    /\ bus' = Select(bus, rows[i])
    /\ form' = LoadForm(bus')
    /\ UNCHANGED <<rows, dragging>>

\* apply, with any text in the fields: rename, then write each field to the name the form
\* now calls its own.
Apply(text, settings, motor) ==
    /\ form.bound # NoName
    /\ LET renames == text \notin {NoName, form.bound}
           own == IF renames THEN text ELSE form.bound
           renamed == IF renames THEN Rename(bus, form.bound, text) ELSE bus
           placed == SetAll(renamed, own, settings)
       IN  /\ bus' = IF form.hasJump THEN SetFloat(placed, own, "JumpMotor", motor) ELSE placed
           /\ form' = [form EXCEPT !.bound = own]
    /\ Fits(bus')
    /\ UNCHANGED <<rows, dragging>>

\* create_empty: below the bound object, under a name counted from the root's children.
CreateEmpty ==
    LET n == NewName(Cardinality({i \in DOMAIN bus.scene : bus.scene[i].depth = 1}))
    IN  /\ n \in Name
        /\ bus' = Select(Create(bus, n, form.bound), n)
        /\ Fits(bus')
        /\ form' = LoadForm(bus')
        /\ UNCHANGED <<rows, dragging>>

\* add_mesh and add_camera
AddToBound(k) ==
    /\ form.bound # NoName
    /\ bus' = AddComponent(bus, form.bound, k, "plain")
    /\ Fits(bus')
    /\ form' = LoadForm(bus')
    /\ UNCHANGED <<rows, dragging>>

SelectedHere == bus.selected # NoName /\ Has(bus.scene, bus.selected)

\* render: the gizmo follows the mouse while the world does not play and the selection
\* names an object; in every other frame it keeps what it knew.
Frame(down, hit) ==
    /\ bus.state # "playing" /\ SelectedHere
    /\ dragging' = (down /\ (dragging \/ hit))
    /\ \/ down /\ dragging /\ \E on \in BOOLEAN : bus' = Set(bus, bus.selected, "moved", on)
       \/ ~(down /\ dragging) /\ bus' = bus
    /\ Fits(bus')
    /\ UNCHANGED <<rows, form>>

\* Toolbar, Save, and every client that is not a panel: a command, and nothing else.
Client == Next /\ UNCHANGED <<rows, form, dragging>>

EditorNext ==
    \/ Client
    \/ \E i \in DOMAIN rows : ClickRow(i)
    \/ \E text \in Name \union {NoName}, settings \in SUBSET Setting,
          motor \in {"plain", "tuned"} : Apply(text, settings, motor)
    \/ CreateEmpty
    \/ \E k \in Kind \ {"JumpMotor", "PlatformPad"} : AddToBound(k)
    \/ \E down, hit \in BOOLEAN : Frame(down, hit)

EditorSpec == EditorInit /\ [][EditorNext]_editorVars
=============================================================================
