------------------------------ MODULE FenceStore ------------------------------
(***************************************************************************)
(* The fence in the backend: the tab "API Geofence Perímetro" of the       *)
(* Node-RED flows, which takes a fence from the dashboard and restores one *)
(* at start, the node of the Telegram tab that stores what the broker      *)
(* says, the older panel that orders a box by itself, and the two places   *)
(* outside of Node-RED that keep a fence: InfluxDB and the retained        *)
(* messages.                                                               *)
(*                                                                         *)
(* A fence is a number, 0 for none.  It has two parts that travel apart:   *)
(* its vertices, and the box around them that collars are sent.  What the  *)
(* panel orders is a box only.                                             *)
(***************************************************************************)
EXTENDS Naturals, Sequences, SequencesExt

CONSTANTS
    MaxFence,       \* bound on the fences drawn
    MaxTroubles     \* bound on restarts of Node-RED and on what fails

ASSUME FenceStoreAssumption ==
    MaxFence \in Nat \ {0} /\ MaxTroubles \in Nat

Fence == 0 .. MaxFence

Topics == {"config_update", "fence_update"}

VARIABLES
    vertices,   \* fence_vertices_json in the global context
    box,        \* fence_min_lat and the others in the global context
    botBox,     \* the same in the flow context of the Telegram tab
    restore,    \* where the restore is, and what the database told it
    writes,     \* the writes to geofence_config under way
    outgoing,   \* publications on their way to the broker
    incoming,   \* and boxes from the broker to the Telegram tab
    stored,     \* the last fence in geofence_config
    retained,   \* per topic, the retained message, 0 if none
    acked,      \* the last fence answered with status success
    latest,     \* the last fence or box ordered
    troubles,   \* for the bound
    failed,     \* a write or a publication failed, or Node-RED did
    early       \* the last fence was posted before the restore was over

memory == <<vertices, box, botBox>>
transit == <<writes, outgoing, incoming>>
outsiders == <<stored, retained>>
orders == <<acked, latest, early>>
store == <<memory, restore, transit, outsiders, orders, failed>>
storeVars == <<store, troubles>>

StoreInit ==
    /\ vertices = 0 /\ box = 0 /\ botBox = 0
    /\ restore = [at |-> "waiting", row |-> 0]
    /\ writes = << >> /\ outgoing = << >> /\ incoming = << >>
    /\ stored = 0 /\ retained = [t \in Topics |-> 0]
    /\ acked = 0 /\ latest = 0 /\ troubles = 0
    /\ failed = FALSE /\ early = FALSE

-----------------------------------------------------------------------------
(* Variants with a plausible bug, to test the properties against; none is  *)
(* a part of the specification.                                            *)

(* The vertices are kept in the tab's own context only.                    *)
Post_BoxOnly(f) ==
    /\ box' = f
    /\ writes' = Append(writes, f)
    /\ outgoing' = Append(outgoing, <<"config_update", f>>)
    /\ acked' = f /\ latest' = f
    /\ early' = (restore.at # "done")
    /\ UNCHANGED <<vertices, botBox, restore, incoming, outsiders, troubles, failed>>

(* The vertices are left to the broker.                                    *)
Restore_BoxOnly ==
    /\ restore.at = "read" /\ restore' = [at |-> "done", row |-> 0]
    /\ IF restore.row = 0 THEN UNCHANGED box ELSE box' = restore.row
    /\ UNCHANGED <<vertices, botBox, transit, outsiders, orders, troubles, failed>>

-----------------------------------------------------------------------------
(* Something fails.                                                        *)
Trouble == troubles < MaxTroubles /\ troubles' = troubles + 1

(* func_format_fence_mqtt: memory, and then, by its three outputs, broker, *)
(* database and answer, of which none waits for the others.  The three     *)
(* addresses it can be posted to lead here.                                *)
Post(f) ==
    /\ vertices' = f /\ box' = f
    /\ writes' = Append(writes, f)
    /\ outgoing' = Append(outgoing, <<"config_update", f>>)
    /\ acked' = f /\ latest' = f
    /\ early' = (restore.at # "done")
    /\ UNCHANGED <<botBox, restore, incoming, outsiders, troubles, failed>>

(* fence_combiner puts a box together from the panel's four inputs and     *)
(* publishes it, to a topic of its own.                                    *)
PressPanel(f) ==
    /\ outgoing' = Append(outgoing, <<"fence_update", f>>)
    /\ latest' = f
    /\ UNCHANGED <<memory, restore, writes, incoming, outsiders, acked, early,
                   troubles, failed>>

(* Each write is a request of its own; InfluxDB gives a point the time it  *)
(* arrives.                                                                *)
WriteEnds == \E i \in DOMAIN writes :
    /\ stored' = writes[i]
    /\ writes' = RemoveAt(writes, i)
    /\ UNCHANGED <<memory, restore, outgoing, incoming, retained, orders,
                   troubles, failed>>

WriteFails == \E i \in DOMAIN writes :
    /\ Trouble /\ failed' = TRUE
    /\ writes' = RemoveAt(writes, i)
    /\ UNCHANGED <<memory, restore, outgoing, incoming, outsiders, orders>>

(* The broker keeps the message and passes it on to the Telegram tab.  All *)
(* nodes share one connection, which keeps the order.                      *)
PublishEnds ==
    /\ outgoing # << >> /\ outgoing' = Tail(outgoing)
    /\ LET sent == Head(outgoing) IN
          /\ retained' = [retained EXCEPT ![sent[1]] = sent[2]]
          /\ incoming' = Append(incoming, sent[2])
    /\ UNCHANGED <<memory, restore, writes, stored, orders, troubles, failed>>

(* Node-RED is not connected to the broker and drops it.                   *)
PublishFails ==
    /\ Trouble /\ failed' = TRUE
    /\ outgoing # << >> /\ outgoing' = Tail(outgoing)
    /\ UNCHANGED <<memory, restore, writes, incoming, outsiders, orders>>

(* tg_store_fence: neither topic carries vertices.                         *)
StoreFence ==
    /\ incoming # << >> /\ incoming' = Tail(incoming)
    /\ botBox' = Head(incoming) /\ box' = Head(incoming)
    /\ UNCHANGED <<vertices, restore, writes, outgoing, outsiders, orders,
                   troubles, failed>>

-----------------------------------------------------------------------------
(* One second after the start, the last fence is read from the database... *)
ReadStored ==
    /\ restore.at = "waiting" /\ restore' = [at |-> "read", row |-> stored]
    /\ UNCHANGED <<memory, transit, outsiders, orders, troubles, failed>>

(* ... and func_init_fence_from_db puts it into memory when it comes.      *)
Restore ==
    /\ restore.at = "read" /\ restore' = [at |-> "done", row |-> 0]
    /\ IF restore.row = 0 THEN UNCHANGED <<vertices, box>>
                          ELSE vertices' = restore.row /\ box' = restore.row
    /\ UNCHANGED <<botBox, transit, outsiders, orders, troubles, failed>>

(* The contexts are in memory.  The subscriptions bring the retained       *)
(* messages again; a write that had not been answered may have been made.  *)
RestartFlows ==
    /\ Trouble /\ failed' = TRUE /\ early' = FALSE
    /\ vertices' = 0 /\ box' = 0 /\ botBox' = 0
    /\ restore' = [at |-> "waiting", row |-> 0]
    /\ writes' = << >> /\ outgoing' = << >>
    /\ \E order \in SetToSeqs({ t \in Topics : retained[t] # 0 }) :
          incoming' = [i \in DOMAIN order |-> retained[order[i]]]
    /\ stored' \in {stored} \cup ToSet(writes)
    /\ UNCHANGED <<retained, acked, latest>>

Flows == WriteEnds \/ PublishEnds \/ StoreFence \/ ReadStored \/ Restore

-----------------------------------------------------------------------------
StoreTypeOK ==
    /\ {vertices, box, botBox, stored, acked, latest} \subseteq Fence
    /\ restore \in [at : {"waiting", "read", "done"}, row : Fence]
    /\ {writes, incoming} \subseteq Seq(Fence \ {0})
    /\ outgoing \in Seq(Topics \X (Fence \ {0}))
    /\ retained \in [Topics -> Fence]
    /\ troubles \in 0 .. MaxTroubles
    /\ failed \in BOOLEAN /\ early \in BOOLEAN

Settled ==
    /\ restore.at = "done"
    /\ writes = << >> /\ outgoing = << >> /\ incoming = << >>

(* The bot prefers its own tab's context to the global one.                *)
UsedBox == IF botBox # 0 THEN botBox ELSE box

(* Once InfluxDB and the broker hold the fence acknowledged last and       *)
(* nothing is under way, alerts (by the vertices) are of this fence, and   *)
(* so are the bot's details (by the box) if the panel ordered no other,    *)
(* whatever failed and however often Node-RED was restarted on the way,    *)
(* unless the fence was posted while the restore was under way.            *)
StoredIsUsed ==
    Settled /\ stored = acked /\ retained["config_update"] = acked =>
        \/ early
        \/ /\ vertices = acked
           /\ retained["fence_update"] = 0 => UsedBox = acked

(* Unless something fails, everybody comes to use what was ordered last:   *)
(* the fence posted last for the alerts, the last box, of this fence or of *)
(* the panel, for the details, although the broker returns every box to    *)
(* Node-RED and may return an older one after a newer one was posted.      *)
SettlesOnLatest ==
    <>[](\/ failed \/ early
         \/ /\ vertices = acked /\ retained["config_update"] = acked
            /\ UsedBox = latest)

=============================================================================
