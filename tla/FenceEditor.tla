------------------------------ MODULE FenceEditor -----------------------------
(***************************************************************************)
(* The fence in the dashboard: App.tsx, the map's drag handles and         *)
(* fenceService.ts, composed with the backend of FenceStore.  One page is  *)
(* open, on which the polygon is edited and saved; the older panel may be  *)
(* used beside it.                                                         *)
(***************************************************************************)
EXTENDS FenceStore

CONSTANTS
    MaxSaves,       \* bound on the saves
    MaxReloads      \* bound on the reloads of the page

ASSUME FenceEditorAssumption == MaxSaves \in Nat /\ MaxReloads \in Nat

Drawn == 1              \* INITIAL_GEOFENCE as it is written in the source

VARIABLES
    shown,      \* polygonCoords
    initial,    \* what the array INITIAL_GEOFENCE contains
    shared,     \* polygonCoords is this array itself
    load,       \* the request for the current fence
    save,       \* the request that saves a fence
    fences, saves, reloads,     \* for the bounds
    fresh       \* no write was under way at the reload, nothing done since

page == <<shown, initial, shared>>
pageBounds == <<fences, saves, reloads>>
editorVars == <<storeVars, page, load, save, pageBounds, fresh>>

Idle == [at |-> "idle", try |-> 0, fence |-> 0]
Sent(n, f) == [at |-> "sent", try |-> n, fence |-> f]

(* A request that is not answered with 200 is made once more, to another   *)
(* address.                                                                *)
Retry(request, f) == IF request.try = 1 THEN Sent(2, f) ELSE Idle

EditorInit ==
    /\ StoreInit
    /\ shown = Drawn /\ initial = Drawn /\ shared = TRUE
    /\ load = Sent(1, 0) /\ save = Idle
    /\ fences = Drawn /\ saves = 0 /\ reloads = 0
    /\ fresh = TRUE

-----------------------------------------------------------------------------
(* Variants with a plausible bug, to test the properties against; none is  *)
(* a part of the specification.                                            *)

(* What Node-RED remembers comes before what the database says.            *)
Found_MemoryFirst == IF vertices # 0 THEN vertices ELSE load.fence

-----------------------------------------------------------------------------
(* Loading.                                                                *)

(* The page is loaded, or loaded again: it shows the initial fence and     *)
(* asks for the current one.  A save that is not answered is given up.     *)
Reload ==
    /\ reloads < MaxReloads /\ reloads' = reloads + 1
    /\ shown' = Drawn /\ initial' = Drawn /\ shared' = TRUE
    /\ load' = Sent(1, 0) /\ save' = Idle
    /\ fresh' = (writes = << >>)
    /\ UNCHANGED <<storeVars, fences, saves>>

(* func_query_fence_db: the last fence of geofence_config.                 *)
AskFence ==
    /\ load.at = "sent"
    /\ load' = [load EXCEPT !.at = "read", !.fence = stored]
    /\ UNCHANGED <<storeVars, page, save, pageBounds, fresh>>

(* func_format_current_fence_resp: without a row, what memory holds; 0 is  *)
(* the answer 404.                                                         *)
Found == IF load.fence # 0 THEN load.fence ELSE vertices

(* The answer replaces whatever the page shows by then.                    *)
ShowLoaded ==
    /\ load.at = "read"
    /\ IF Found = 0
          THEN load' = Retry(load, 0) /\ UNCHANGED page
          ELSE /\ load' = Idle
               /\ shown' = Found /\ shared' = FALSE /\ UNCHANGED initial
    /\ UNCHANGED <<storeVars, save, pageBounds, fresh>>

(* A proxy's error is tried again, a rejected fetch is not.                *)
LoadFails ==
    /\ load.at # "idle"
    /\ load' \in {Retry(load, 0), Idle}
    /\ fresh' = (fresh /\ load'.at # "idle")
    /\ Trouble
    /\ UNCHANGED <<store, page, save, pageBounds>>

-----------------------------------------------------------------------------
(* Editing.                                                                *)

Draw ==
    /\ fences < MaxFence /\ fences' = fences + 1
    /\ shown' = fences'
    /\ shared' = FALSE
    /\ fresh' = FALSE
    /\ UNCHANGED <<storeVars, load, save, saves, reloads>>

(* moveVertex, by key or button, moves a vertex of a copy.                 *)
MoveVertex == Draw /\ UNCHANGED initial

(* Dragging a handle moves a vertex of the array itself, and gives a copy  *)
(* of it to the page in the end.                                           *)
DragVertex == Draw /\ initial' = IF shared THEN shown' ELSE initial

ResetFence ==
    /\ save.at = "idle"
    /\ shown' = initial /\ shared' = TRUE
    /\ fresh' = FALSE
    /\ UNCHANGED <<storeVars, initial, load, save, pageBounds>>

-----------------------------------------------------------------------------
(* Saving.                                                                 *)

SaveFence ==
    /\ save.at = "idle"
    /\ saves < MaxSaves /\ saves' = saves + 1
    /\ save' = Sent(1, shown)
    /\ fresh' = FALSE
    /\ UNCHANGED <<storeVars, page, load, fences, reloads>>

PostArrives ==
    /\ save.at = "sent"
    /\ Post(save.fence)
    /\ save' = [save EXCEPT !.at = "posted"]
    /\ UNCHANGED <<page, load, pageBounds, fresh>>

SaveAnswered ==
    /\ save.at = "posted"
    /\ save' = Idle
    /\ UNCHANGED <<storeVars, page, load, pageBounds, fresh>>

(* The request or its answer is lost, and the fence may have been posted.  *)
SaveFails ==
    /\ save.at # "idle"
    /\ save' \in {Retry(save, save.fence), Idle}
    /\ Trouble
    /\ UNCHANGED <<store, page, load, pageBounds, fresh>>

-----------------------------------------------------------------------------
(* A box ordered from the older panel.                                     *)
UsePanel ==
    /\ fences < MaxFence /\ fences' = fences + 1
    /\ PressPanel(fences')
    /\ UNCHANGED <<page, load, save, saves, reloads, fresh>>

(* Node-RED starts again: a query it waited for is not answered.           *)
RestartNodeRed ==
    /\ RestartFlows
    /\ load' = IF load.at = "read" THEN Retry(load, 0) ELSE load
    /\ fresh' = (fresh /\ (load.at = "idle" \/ load'.at # "idle"))
    /\ UNCHANGED <<page, save, pageBounds>>

Backend ==
    /\ Flows \/ WriteFails \/ PublishFails
    /\ UNCHANGED <<page, load, save, pageBounds, fresh>>

EditorNext ==
    \/ Reload \/ AskFence \/ ShowLoaded \/ LoadFails
    \/ MoveVertex \/ DragVertex \/ ResetFence
    \/ SaveFence \/ PostArrives \/ SaveAnswered \/ SaveFails
    \/ UsePanel \/ RestartNodeRed \/ Backend

(* What was sent is written or delivered in the end.                       *)
EditorFairness ==
    WF_editorVars(Flows /\ UNCHANGED <<page, load, save, pageBounds, fresh>>)

EditorSpec == EditorInit /\ [][EditorNext]_editorVars /\ EditorFairness

-----------------------------------------------------------------------------
EditorTypeOK ==
    /\ StoreTypeOK
    /\ shown \in Fence \ {0} /\ initial \in Fence \ {0} /\ shared \in BOOLEAN
    /\ load \in [at : {"idle", "sent", "read"}, try : 0 .. 2, fence : Fence]
    /\ save \in [at : {"idle", "sent", "posted"}, try : 0 .. 2, fence : Fence]
    /\ fences \in Fence \ {0}
    /\ saves \in 0 .. MaxSaves /\ reloads \in 0 .. MaxReloads
    /\ fresh \in BOOLEAN

(* A page loaded while nothing was being written shows, once it is loaded  *)
(* and as long as nobody edits or saves, the fence acknowledged last if    *)
(* InfluxDB has it, however often Node-RED was restarted and whatever it   *)
(* still remembers; and the initial fence if none was ever posted.         *)
ShowsSaved ==
    fresh /\ load.at = "idle" /\ stored = acked =>
        shown = IF acked = 0 THEN Drawn ELSE acked

=============================================================================
