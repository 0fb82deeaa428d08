----------------------------- MODULE WifiStore -----------------------------
(***************************************************************************)
(* The networks and the variables that esp_wifi_manager keeps: a list in   *)
(* memory, guarded by a mutex, and in flash a counter and one blob for     *)
(* each place of the list, which are written one after the other.  HTTP,   *)
(* console, Bluetooth and event bus change them, each in a task of its own *)
(* and each with defaults of its own; the device may restart at any time,  *)
(* and the flash may fail: whoever saves ignores the result.               *)
(* The value of a network is its priority.                                 *)
(***************************************************************************)
EXTENDS Naturals, Sequences

CONSTANTS Keys,          \* SSIDs and names of variables
          Given,         \* values that a request may give
          MaxItems,      \* WIFI_MGR_MAX_NETWORKS and WIFI_MGR_MAX_VARS
          Defaults,      \* default_networks and default_vars of the configuration
          None,          \* no blob, and nobody
          MaxRequests,   \* bound: requests that change a list
          MaxRestarts,   \* bound: restarts
          MaxFaults      \* bound: loads, saves and erasures that fail

Clients == {"boot", "http", "cli", "ble", "bus", "manager"}
Lists == {"networks", "vars"}
Entries == [key : Keys, value : Nat]

ASSUME StoreAssumption ==
    /\ MaxItems \in Nat \ {0} /\ MaxRequests \in Nat /\ MaxRestarts \in Nat /\ MaxFaults \in Nat
    /\ Given \subseteq Nat /\ None \notin Entries \cup Clients
    /\ \A l \in Lists : Defaults[l] \in Seq(Entries) /\ Len(Defaults[l]) <= MaxItems

VARIABLES
    memory,      \* g_wifi_mgr->networks and ->vars; after a restart, and until a
                 \* list is loaded, the list of before, which nobody reads any more
    count,       \* net_count and var_count in flash
    blob,        \* net_0, net_1, ... and var_0, var_1, ... in flash
    holder,      \* who holds g_wifi_mgr->mutex
    doing,       \* where each client is
    torn,        \* history: a reset overlapped another request
    unsaved,     \* history: lists whose last load or save failed or was cut short
    requests, restarts, faults

storeBounds == <<requests, restarts, faults>>
storeVars == <<memory, count, blob, holder, doing, torn, unsaved, storeBounds>>

Resting == [pc |-> "idle", list |-> "networks", i |-> 0]
Loads(l) == [pc |-> "load", list |-> l, i |-> 0]
Saves(l) == [pc |-> "count", list |-> l, i |-> 0]
Booting == [c \in Clients |-> IF c = "boot" THEN Loads("networks") ELSE Resting]

StoreInit ==
    /\ memory = [l \in Lists |-> <<>>]
    /\ count = [l \in Lists |-> 0]
    /\ blob = [l \in Lists |-> [i \in 1..MaxItems |-> None]]
    /\ holder = "boot"
    /\ doing = Booting
    /\ torn = FALSE /\ unsaved = {}
    /\ requests = 0 /\ restarts = 0 /\ faults = 0

-----------------------------------------------------------------------------
(* wifi_mgr_nvs_load_networks and _vars pass over a blob that they do not   *)
(* get.                                                                     *)
Collected(b, n) ==
    LET got[i \in 0..n] ==
            IF i = 0 THEN <<>>
            ELSE IF b[i] = None THEN got[i - 1]
            ELSE Append(got[i - 1], b[i])
    IN  got[n]

Loaded(l) == Collected(blob[l], count[l])

(* Whoever is done with a list rests, but the boot goes on with the next.   *)
Finishes(c) ==
    IF c = "boot" /\ doing[c].list = "networks"
    THEN doing' = [doing EXCEPT ![c] = Loads("vars")] /\ UNCHANGED holder
    ELSE doing' = [doing EXCEPT ![c] = Resting] /\ holder' = None

(***************************************************************************)
(* wifi_manager_init loads a list: what flash holds but for the places it  *)
(* cannot read, which are all of them when it cannot read the counter or   *)
(* open the flash at all, and that is only worth a warning.  A list that   *)
(* is empty then gets the defaults, which it saves.                        *)
(***************************************************************************)
LoadsList(l, unread) ==
    LET got == Collected([i \in 1..MaxItems |-> IF i \in unread THEN None ELSE blob[l][i]], count[l]) IN
    IF got = <<>> /\ Defaults[l] # <<>>
    THEN /\ memory' = [memory EXCEPT ![l] = Defaults[l]]
         /\ doing' = [doing EXCEPT !["boot"] = Saves(l)]
         /\ UNCHANGED holder
    ELSE /\ memory' = [memory EXCEPT ![l] = got]
         /\ Finishes("boot")

Boots ==
    /\ doing["boot"].pc = "load"
    /\ LET l == doing["boot"].list IN
       \E unread \in SUBSET (1..MaxItems) :
           /\ LoadsList(l, unread)
           /\ IF unread = {} THEN unsaved' = unsaved \ {l} /\ UNCHANGED faults
              ELSE /\ unsaved' = unsaved \cup {l}
                   /\ faults < MaxFaults /\ faults' = faults + 1
    /\ UNCHANGED <<count, blob, torn, requests, restarts>>

(***************************************************************************)
(* wifi_mgr_nvs_save_networks and wifi_mgr_nvs_save_vars, with the mutex.  *)
(***************************************************************************)
Continues(c, i) ==
    LET l == doing[c].list IN
    IF i < Len(memory[l])
    THEN /\ doing' = [doing EXCEPT ![c] = [pc |-> "entry", list |-> l, i |-> i + 1]]
         /\ UNCHANGED <<holder, unsaved>>
    ELSE Finishes(c) /\ unsaved' = unsaved \ {l}

SavesCount(c) ==
    /\ doing[c].pc = "count"
    /\ count' = [count EXCEPT ![doing[c].list] = Len(memory[doing[c].list])]
    /\ Continues(c, 0)
    /\ UNCHANGED <<memory, blob, torn, storeBounds>>

SavesEntry(c) ==
    /\ doing[c].pc = "entry"
    /\ LET l == doing[c].list IN
       LET i == doing[c].i IN
       blob' = [blob EXCEPT ![l][i] = memory[l][i]]
    /\ Continues(c, doing[c].i)
    /\ UNCHANGED <<memory, count, torn, storeBounds>>

(* A save that cannot open the flash or write to it ends there: what it     *)
(* wrote stays, the caller goes on as if all was well.                      *)
SaveFails(c) ==
    /\ doing[c].pc \in {"count", "entry"}
    /\ faults < MaxFaults /\ faults' = faults + 1
    /\ unsaved' = unsaved \cup {doing[c].list}
    /\ Finishes(c)
    /\ UNCHANGED <<memory, count, blob, torn, requests, restarts>>

-----------------------------------------------------------------------------
(* The functions of esp_wifi_manager.h that change a list.                  *)

Places(l, k) == {i \in 1..Len(memory[l]) : memory[l][i].key = k}
Entry(k, v) == [key |-> k, value |-> v]

Resetting == \E c \in Clients : doing[c].pc = "clear"

(* The client c gets the mutex, changes the list and starts to save it.     *)
Changes(c, l, changed) ==
    /\ doing[c].pc = "idle" /\ holder = None
    /\ requests < MaxRequests /\ requests' = requests + 1
    /\ memory' = [memory EXCEPT ![l] = changed]
    /\ holder' = c
    /\ doing' = [doing EXCEPT ![c] = Saves(l)]
    /\ torn' = (torn \/ Resetting)
    /\ UNCHANGED <<count, blob, unsaved, restarts, faults>>

AddNetwork(c, k, v) ==
    /\ Places("networks", k) = {}
    /\ Len(memory["networks"]) < MaxItems
    /\ Changes(c, "networks", Append(memory["networks"], Entry(k, v)))

UpdateNetwork(c, k, v) ==
    \E i \in Places("networks", k) :
        /\ \A j \in Places("networks", k) : i <= j
        /\ Changes(c, "networks", [memory["networks"] EXCEPT ![i] = Entry(k, v)])

(* The places behind the one that goes move up; their last blob stays.      *)
Remove(c, l, k) ==
    \E i \in Places(l, k) :
        /\ \A j \in Places(l, k) : i <= j
        /\ Changes(c, l, [j \in 1..(Len(memory[l]) - 1) |-> memory[l][IF j < i THEN j ELSE j + 1]])

SetVar(c, k, v) ==
    \/ /\ Places("vars", k) = {}
       /\ Len(memory["vars"]) < MaxItems
       /\ Changes(c, "vars", Append(memory["vars"], Entry(k, v)))
    \/ \E i \in Places("vars", k) :
        /\ \A j \in Places("vars", k) : i <= j
        /\ Changes(c, "vars", [memory["vars"] EXCEPT ![i] = Entry(k, v)])

(* wifi_manager_factory_reset: the flash without the mutex, ...             *)
Reset(c) ==
    /\ doing[c].pc = "idle" /\ holder # "boot"
    /\ requests < MaxRequests /\ requests' = requests + 1
    /\ count' = [l \in Lists |-> 0]
    /\ blob' = [l \in Lists |-> [i \in 1..MaxItems |-> None]]
    /\ doing' = [doing EXCEPT ![c] = [Resting EXCEPT !.pc = "clear"]]
    /\ torn' = (torn \/ holder # None)
    /\ UNCHANGED <<memory, holder, unsaved, restarts, faults>>

(* ... of which some may be erased when it fails, and then nothing else is  *)
(* done, ...                                                                *)
ResetFails(c) ==
    /\ doing[c].pc = "idle" /\ holder # "boot"
    /\ requests < MaxRequests /\ requests' = requests + 1
    /\ faults < MaxFaults /\ faults' = faults + 1
    /\ \E gone \in SUBSET (Lists \X (0..MaxItems)) :
        /\ count' = [l \in Lists |-> IF <<l, 0>> \in gone THEN 0 ELSE count[l]]
        /\ blob' = [l \in Lists |-> [i \in 1..MaxItems |-> IF <<l, i>> \in gone THEN None ELSE blob[l][i]]]
    /\ unsaved' = Lists
    /\ torn' = (torn \/ holder # None)
    /\ UNCHANGED <<memory, holder, doing, restarts>>

(* Variant with a plausible bug: the variables are forgotten.               *)
ResetClears_NetworksOnly(c) ==
    /\ doing[c].pc = "clear" /\ holder = None
    /\ memory' = [memory EXCEPT !["networks"] = <<>>]
    /\ doing' = [doing EXCEPT ![c] = Resting]
    /\ unsaved' = {}
    /\ UNCHANGED <<count, blob, holder, torn, storeBounds>>

(* ... the memory with it.                                                  *)
ResetClears(c) ==
    /\ doing[c].pc = "clear" /\ holder = None
    /\ memory' = [l \in Lists |-> <<>>]
    /\ doing' = [doing EXCEPT ![c] = Resting]
    /\ unsaved' = {}
    /\ UNCHANGED <<count, blob, holder, torn, storeBounds>>

(***************************************************************************)
(* sort_networks_by_priority, before the manager tries the networks: with  *)
(* the mutex, and only in memory.                                          *)
(***************************************************************************)
ByPriority(s) == \A i, j \in DOMAIN s : i < j => s[i].value >= s[j].value

SortNetworks ==
    LET nets == memory["networks"] IN
    /\ holder = None
    /\ ~ByPriority(nets)
    /\ \E place \in [DOMAIN nets -> DOMAIN nets] :
        /\ {place[i] : i \in DOMAIN nets} = DOMAIN nets
        /\ LET sorted == [i \in DOMAIN nets |-> nets[place[i]]] IN
           /\ ByPriority(sorted)
           /\ memory' = [memory EXCEPT !["networks"] = sorted]
    /\ UNCHANGED <<count, blob, holder, doing, torn, unsaved, storeBounds>>

-----------------------------------------------------------------------------
(***************************************************************************)
(* What each interface makes of a request.  A network that comes without   *)
(* priority, or is updated without one, gets 0 from HTTP; the console and  *)
(* Bluetooth give it 10; the bus takes the record it gets.                 *)
(***************************************************************************)
HttpPostNetwork == \E k \in Keys, v \in Given \cup {0} : AddNetwork("http", k, v)
HttpPutNetwork == \E k \in Keys, v \in Given \cup {0} : UpdateNetwork("http", k, v)
HttpDeleteNetwork == \E k \in Keys : Remove("http", "networks", k)
HttpPutVar == \E k \in Keys, v \in Given : SetVar("http", k, v)
HttpDeleteVar == \E k \in Keys : Remove("http", "vars", k)
HttpFactoryReset == Reset("http") \/ ResetFails("http")

CliAdd == \E k \in Keys, v \in Given \cup {10} : AddNetwork("cli", k, v)
CliDel == \E k \in Keys : Remove("cli", "networks", k)
CliVarSet == \E k \in Keys, v \in Given : SetVar("cli", k, v)
CliReset == Reset("cli") \/ ResetFails("cli")

BleAdd == \E k \in Keys, v \in Given \cup {10} : AddNetwork("ble", k, v)
BleDel == \E k \in Keys : Remove("ble", "networks", k)
BleSetVar == \E k \in Keys, v \in Given : SetVar("ble", k, v)
BleReset == Reset("ble") \/ ResetFails("ble")

BusRequest ==
    \/ Reset("bus") \/ ResetFails("bus")
    \/ \E k \in Keys :
        \/ Remove("bus", "networks", k) \/ Remove("bus", "vars", k)
        \/ \E v \in Given : AddNetwork("bus", k, v) \/ UpdateNetwork("bus", k, v) \/ SetVar("bus", k, v)

Requests ==
    \/ HttpPostNetwork \/ HttpPutNetwork \/ HttpDeleteNetwork \/ HttpPutVar \/ HttpDeleteVar
    \/ HttpFactoryReset
    \/ CliAdd \/ CliDel \/ CliVarSet \/ CliReset
    \/ BleAdd \/ BleDel \/ BleSetVar \/ BleReset
    \/ BusRequest

(* The device restarts, whatever it is doing.                               *)
Saving(l) == \E c \in Clients : doing[c].pc \in {"count", "entry"} /\ doing[c].list = l

Restarts ==
    /\ restarts < MaxRestarts /\ restarts' = restarts + 1
    /\ holder' = "boot"
    /\ doing' = Booting
    /\ torn' = FALSE
    /\ unsaved' = {l \in Lists : l \in unsaved \/ Saving(l) \/ Resetting \/ torn}
    /\ UNCHANGED <<memory, count, blob, requests, faults>>

StoreNext ==
    \/ Boots \/ Requests \/ SortNetworks \/ Restarts
    \/ \E c \in Clients : SavesCount(c) \/ SavesEntry(c) \/ SaveFails(c) \/ ResetClears(c)

StoreSpec == StoreInit /\ [][StoreNext]_storeVars

-----------------------------------------------------------------------------
StoreTypeOK ==
    /\ memory \in [Lists -> Seq(Entries)]
    /\ \A l \in Lists : Len(memory[l]) <= MaxItems
    /\ count \in [Lists -> 0..MaxItems]
    /\ blob \in [Lists -> [1..MaxItems -> Entries \cup {None}]]
    /\ holder \in Clients \cup {None}
    /\ doing \in [Clients -> [pc : {"idle", "load", "count", "entry", "clear"}, list : Lists,
                              i : 0..MaxItems]]
    /\ torn \in BOOLEAN /\ unsaved \subseteq Lists

(***************************************************************************)
(* What the interfaces list is what a restart finds.  The flash holds the  *)
(* entries of a list and no others whenever the list is not being saved:   *)
(* while the device works, for the restart that may come, and after a      *)
(* restart, with the list it had before, until it is loaded.  The blobs of *)
(* entries that were removed stay in the flash, and the list is sorted     *)
(* without being saved.  The exceptions are those of the code: a load or a *)
(* save that failed, or was cut short by a restart, leaves what it may     *)
(* until the list is saved or loaded whole, and so does a factory reset    *)
(* that failed, was cut short or overlapped another request.               *)
(***************************************************************************)
Members(s) == {s[i] : i \in DOMAIN s}

ReloadsWhatIsListed ==
    \A l \in Lists :
        (l \notin unsaved /\ ~Saving(l) /\ ~Resetting /\ ~torn) =>
            /\ Members(Loaded(l)) = Members(memory[l])
            /\ Len(Loaded(l)) = Len(memory[l])
=============================================================================
