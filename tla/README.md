# TLA+ models of the cattle geofencing system and the environment web server

The repository holds three programs of an IoT course. The final project,
`src/proyecto-final`, is a virtual fence for cattle: battery-powered collars
report their position over LoRa to a gateway, which publishes it over MQTT to a
Node-RED / InfluxDB / React backend; orders of the operator (a simulated
position, a new fence) go the other way, in the answer to a collar's heartbeat.
The second, `src/async-web-server`, is a web server for a temperature sensor;
it carries the libraries it is built from (an event bus, a Wi-Fi manager, mDNS),
which are most of the repository's C code. The third, `src/practica-2`, is a
sensor that publishes over MQTT.

This directory models the parts in which several actors share state. TLC checks
the models on small instances (`*.cfg`); TLAPS proves every safety property that
the passing runs check for every value of the constants (`*Proofs.tla`).

## 1. The system's components

### Collar (`proyecto-final/edge-module/main`)

* State: the `RTC_DATA_ATTR` variables of `rtc_state.cpp` (position, fence,
  last status, wake count), which survive deep sleep and nothing else; while
  awake, the locals of `app_main` and of the position console.
* Operations: one run of `app_main` per wake-up: count it, open the console for
  15 s, compute inside/outside, start the radio, send the heartbeat, listen for
  a downlink for 8 s, store what it brings, compute the status again, sleep.
* Interacts by LoRa packets only: its heartbeat, and the first packet of
  anybody that comes into its receive window.
* Correct when: it always gets back to sleep; the status it reports is that of
  the position it reports; what it remembers across deep sleep is consistent;
  it never goes back to an older fence.
* Hard: position and fence change after the status is computed, in two ways
  (console, downlink); resets other than deep sleep; packets not meant for it.

### Gateway (`proyecto-final/gateway-module/main`)

* State: two command buffers with a flag each and `mqtt_connected`
  (`mqtt_service.cpp`), `s_wifi_connected` (`wifi_service.cpp`), the radio and
  its DIO0 pin, the notification count of the LoRa task.
* Operations: the DIO0 interrupt notifies the LoRa task; the task reads the
  packet, waits 350 ms, sends a downlink with what is pending, clears the
  flags, publishes the heartbeat (waiting up to 3 s for the broker) and listens
  again; the MQTT client's task stores commands and the connection state; the
  Wi-Fi manager's callbacks note the Wi-Fi state; at startup the broker is
  looked for by UDP beacon and subnet scan.
* Interacts with collars by LoRa and with the broker by MQTT; its two tasks
  share the buffers and the flags with no lock.
* Correct when: it is never left deaf (radio idle, or a pin high that nobody
  was notified of); every heartbeat it takes is answered, once, before the next; a
  command that is pending is relayed whole; heartbeats are handed to the MQTT
  client in order, none twice.
* Hard: the two tasks interleave while a buffer is read; flags are cleared some
  time after they were read; `transmit` raises the same interrupt as a received
  packet; every branch of the loop has to lead back to listening.

### Air and broker

* One frequency and one sync word for everybody: a packet is heard by whoever
  listens. The broker keeps the last order per topic (retained) and delivers
  it again when the gateway reconnects with a clean session. Heartbeats go with
  QoS 1: the gateway's MQTT client keeps each until the broker has acknowledged
  it, and may send it again.
* Correct when: loss, reconnection and restart never make a collar go back, or
  the gateway publish a heartbeat that is not newer than those before it.

### Gateway startup (`mqtt_service.cpp`, `wifi_service.cpp`, `discovery_beacon.py`)

* State: `s_dynamic_mqtt_uri`, `mqtt_client`, `s_lora_started`; the position of a
  task in the search for the broker: UDP beacon, mDNS, scan of the subnet, a
  default address.
* Operations: on an IP address the Wi-Fi manager's task searches, creates and
  starts the client and starts the radio; the LoRa task may create a client as
  well (`mqtt_init_and_publish`).
* Correct when: there is one client and the handle is that of a client that was
  started, or whose start failed; the beacon decides while it runs; the radio comes up whatever the
  network does.
* Hard: two tasks with check-then-act on the handle; packets that are not the
  beacon; hosts that refuse; everything that may not answer.

### Node-RED flows (`backend-services/nodered/data/flows.json`)

* State: flow and global context (fence box and vertices, `muted_<device>`,
  time of the last alert, who asked last), the tables of InfluxDB, the retained
  topics.
* Operations: store heartbeats; poll every 15 s and alert on Telegram (muted
  collars skipped, 40 s between alerts); Telegram commands and buttons; POST and
  GET of the fence; restoring the fence from the database a second after start;
  an older panel that publishes a box of its own.
* Correct when: what operators were told is so; a collar outside is alerted for
  again and again; vertices and box settle on the fence ordered last.
* Hard: the same fence in five places, written by three flows; flow variables
  (`tg_detalle_chatId` and others) read after an asynchronous query; what a
  restart forgets.

### React dashboard (`backend-services/frontend-app`)

* State: the latest point, whether points are simulated, the polygon being
  edited. Points are polled; the fence is loaded **once**, when the page is
  mounted (`App.tsx:57-66`), and saved with POST, with a second address to fall
  back to.
* Correct when: real points are not replaced by simulated or older ones; a page
  shows the fence saved last.
* Hard: overlapping fetches, each applied when it arrives; the answer of the
  load against an edit in progress; the fallback posts what may already have
  been taken; a drag handle that writes into React's state.

### Environment web server (`async-web-server/main`)

* State: a ring of the last 30 readings (`dht11.c`), written by the sampling
  task and copied by the HTTP server's task without a lock; a registry of five
  WebSocket clients and the latest reading (`web_server.c`), used by the HTTP
  server's task, the sampling task and the event bus.
* Operations: sampling; `/api/history`; handshake and close of a socket, the
  snapshot a new page gets, broadcasts queued with `httpd_queue_work`, LED
  commands of a page; a handler for the stop of the access point.
* Correct when: a copy of the ring is the last readings in order; each page that
  is registered gets each broadcast, and the registry fits its array.
* Hard: sockets are numbers that are used again at once; the handshake is
  reported before a session ends elsewhere; three tasks write without a lock.
* Clients are only registered if the server is built with
  `CONFIG_HTTPD_WS_POST_HANDSHAKE_CB_SUPPORT`, which is off by default and which
  no configuration in the repository sets: the model is of a build that has it.

### Event bus with LED and button (`managed_components/tuanpmt__esp_bus`)

* State: four lists (modules, subscriptions, routes, services) under one mutex,
  nodes with reference counts and a mark for removal, a queue of messages; in
  the LED module a state, a count and a timer; in the button module two levels
  of the pin and three times.
* Operations: register and remove nodes, post events and requests, all from any
  task; the bus task takes a message, collects the nodes it is for, calls them
  without the mutex and releases them; services run when they are due.
* Correct when: nothing that was freed is called; a one-shot timer runs at most
  once, and leaves the list only if it ran or was removed; a wildcard matches what
  it means; an LED blinks as often as asked; presses and releases come in turn.
* Hard: names are cut to their room; handlers remove nodes, themselves included, while others wait to be
  called; memory may run out halfway; requests time out while they are queued.

### Wi-Fi manager (`managed_components/tuanpmt__esp_wifi_manager`)

* State: the manager's state and flags (`connecting`, `ap_active`), two event
  bits, a lossy queue, the state of the driver, a DNS server for the captive
  portal; the lists of networks and variables with a copy in flash.
* Operations: the manager's task tries the saved networks in rounds and reacts to
  the driver; HTTP, console, Bluetooth and event bus call connect, disconnect,
  start and stop of the access point, and add, change, remove and reset of the
  lists, each in its own task.
* Correct when: what is reported settles on what is; a station that may reconnect
  comes back; a restart finds in flash what was listed.
* Hard: the driver's events come late; two tasks start and stop the access
  point at once; the number of networks and each network are written one after
  the other; whoever changes the mode, starts the DNS server or saves a list
  ignores the result.

### mDNS library (`managed_components/espressif__mdns`)

* State: the service lock and a queue of actions; for each interface and
  protocol a state (probing, announcing, running); the packets scheduled; the
  host's name, instance and services; the searches and browses with their
  results.
* Operations: the service task runs the actions; a timer queues what is due; the
  program sets names, adds and removes services, searches and browses; packets
  bring questions, conflicts and answers.
* Correct when: a name is used only after it was probed; probing and announcing
  come to an end; every search ends while the task runs, and only the one that was
  meant; results belong together whatever the order of the records.
* Hard: the queue holds pointers to packets, searches and browses that may be
  freed before their turn, and may be full; probing is restarted in the middle; a
  packet may turn out malformed after half of it was used.

### Without a model

Mock gateway and compose files; the sensor firmware of practica-2 (one task that
reads and publishes); pages, console and Bluetooth of the Wi-Fi manager as
texts; console, networking and string helpers of the mDNS library; the driver of
the sensor's pin; the LaTeX report, the PDFs and sdkconfig files. Section 5
says why.

## 2. The modules

    final project
      Edge -----+
                +--> Geofence        Gateway implements Responder
      Gateway --+                    FenceStore <-- FenceEditor
      Startup                        AlertBot    Telemetry

    web server
      EventBus    BusPattern    BusLed    BusButton    Dht11    WsClients
      WifiManager    WifiStore
      MdnsQueue <-- MdnsQuery        MdnsResults
          ^-------- MdnsResponder

| proofs | of |
|---|---|
| `EdgeProofs`, `GatewayProofs` | `Edge`; `Gateway`, and that it implements `Responder` |
| `GeofenceProofs` | `Geofence` |
| `BackendProofs` | `AlertBot`, `FenceStore` with `FenceEditor`, `Telemetry` |
| `ServerProofs` | `EventBus`, `BusPattern`, `BusLed`, `BusButton`, `Dht11`, `WsClients` |
| `NetworkProofs` | `Startup`, `WifiManager`, `WifiStore` |
| `MdnsProofs` | `MdnsQuery`, `MdnsResults`, `MdnsResponder` |
| `Induction` | lemmas on natural numbers for the last three |

Parts that share a module of proofs read no state of each other; each has an
invariant of its own.

| module | models | state ↔ code |
|---|---|---|
| `Edge` | a collar | `pos`, `fence`, `wakeCount`, `lastInside` are the RTC variables; `pc` is where `app_main` is; `console` are the locals of `console_update_position`; `inside` is `app_main`'s |
| `Gateway` | the gateway's two tasks, interrupt and radio | `buffer`, `has`, `connected` are the statics of `mqtt_service.cpp`; `lora`, `rx`, `asked`, `copied`, `downlink` the LoRa task's position and locals; `notified`, `dio0`, `radio`, `fifo` the radio as RadioLib drives it; `newest`, `relayed`, `troubled` (the driver has reported an error) are history |
| `Responder` | the promise of the gateway on the radio: take, answer once, resume | abstract |
| `Geofence` | collars × gateway × air × broker | instances of `Edge` and `Gateway`; `air` is a packet a listening collar is about to read, `retained` and `inbox` are the broker's, `published` what the broker got last of each collar, `kept` the outbox of the gateway's MQTT client |
| `Startup` | from the IP address to the running radio | `at` is where the Wi-Fi manager's and the LoRa task are; `quiet`, `listened`, `host`, `found` locals of the search; `uri`, `client`, `radio` the statics; `clients`, `started` what the MQTT library has, `unstarted` the clients whose start failed; `port`, `beacon` the network |
| `AlertBot` | the Telegram tab of the flows | `muted`, `since`, `modulosChat`, `alertasChat`, `detalle` are context variables; `queries` those InfluxDB has not answered, with who asked (which the flow does not know); `buttons` what was sent to the chats; `told`, `alerted` are history |
| `FenceStore` | the fence in the flows, InfluxDB and at the broker | `vertices`, `box` the global context, `botBox` the Telegram tab's; `writes`, `outgoing`, `incoming` what is under way; `stored`, `retained` what is kept outside; `acked`, `latest`, `failed`, `early` are history |
| `FenceEditor` | the fence in the dashboard, on top of `FenceStore` | `shown` is `polygonCoords`, `initial` what the array `INITIAL_GEOFENCE` contains, `shared` whether the state is that array; `load`, `save` the two requests |
| `Telemetry` | the dashboard's polling of positions | `latestPoint`; `fetches` the requests under way with what their closures know, `timer` the interval |
| `Dht11` | the sensor history | `temperature`, `humidity`, `head`, `count` are `buffer`; `toRead`, `got`, `out` the copy under way |
| `WsClients` | the pages of the web server | `clients` is `ws_clients` with `ws_client_count`; `lastTemp`, `lastHum`, `ledState` the statics; `session` the descriptors; `works`, `frame`, `place` the broadcasts queued and the one under way; `page` what each page got last; history of a broadcast that was given up |
| `EventBus` | the bus: registration, removal, queue, dispatch, requests, services | `kind`, `state`, `refs`, `when` are the nodes of the four lists; `queue`; `at`, `todo`, `running`, `held`, `cursor`, `request` the bus task's position and locals; `client` the other tasks |
| `BusPattern` | its wildcards, the splitting of a pattern and the room for names | a pattern and a name that grow |
| `BusLed` | the LED module and its timers | `lit`, `blinkCount`, `ledTimer` are the fields of `led`; `timers`, `round` the bus's services; `asked`, `flashes` history |
| `BusButton` | the button module | `rawState`, `stable`, `debounceUntil`, `pressTime`, `lastPress`, `longFired` are its fields; `pressed`, `longEmitted` history |
| `WifiManager` | station and access point | `station`, `target`, `apOn`, `posted` are the driver; `queue`, `bits`, `mgrState`, `connecting`, `apActive`, `dnsRunning` the manager's, `failed` the calls that did (history); `task`, `ap` where its task and the callers are |
| `WifiStore` | networks and variables, memory and flash | `memory` the lists, `count` and `blob` the entries in flash, `holder` the mutex, `doing` where each interface is; `unsaved` and `torn` are history |
| `MdnsQueue` | queue, service task and lock of the mDNS library | `actions` is `s_action_queue`, `hand` the action taken out, `lock` the service lock |
| `MdnsResponder` | names, probing, announcing, on top of `MdnsQueue` | `net` is `s_pcbs`, `s_tx_queue_head` and `s_server`; `linked` the interface; `sema`, `caller` the tasks that set the hostname |
| `MdnsQuery` | when searches and browses begin and end, on top of `MdnsQueue` | `search` the searches by their address, `browse` the browses with the service each knows, `dangling` a browse used after it was freed |
| `MdnsResults` | what a search and a browse make of records | `found` is `search->result`, `seen` is `browse->result`, `syncs` the actions queued for the notifier, `told` what it saw, `untold` what it was never told |

`MCEdge`, `MCGateway`, `MCGeofence`, `MCFenceEditor` give a module its instance.
`MCBackend` (`AlertBot`, `Telemetry`), `MCDevices` (`BusLed`, `BusButton`,
`BusPattern`, `Dht11`, `WsClients`), `MCWifi` (`WifiManager`, `WifiStore`,
`Startup`) and `MCMdnsSearch` (`MdnsQuery`, `MdnsResults`) hold parts that read no
state of each other: every interleaving of them is one of their own steps, and
the variable `part` lets TLC run them one at a time. The responder starts
empty or as the firmware has it. `EventBus` needs no module of its own.

Some choices that need a word:

* **Coordinates** are integers, the 1e-6 degree grid on which every message
  carries them. Position and fence are doubles inside the collar; what six
  decimals lose at the border is not modelled.
* **Texts.** A command is a version number; the texts in the gateway's buffers
  are pairs of halves, because `memcpy` in the MQTT task and `snprintf` in the
  LoRa task both go from front to back and can overtake each other at any
  byte. `Geofence` gives the halves a meaning (latitudes, longitudes), so that
  a mixed text is a mixed fence. Texts that are not JSON are not modelled.
* **The radio.** DIO0 is level, the interrupt its rising edge. `transmit`
  leaves the radio in standby and has raised the interrupt once (TxDone).
  A heartbeat lasts about three quarters of a second on the air (SF9, 125 kHz,
  4/7), so that none can be complete in the microseconds between
  `startReceive` and the `ulTaskNotifyTake(pdTRUE, 0)` after it: that is the
  guard `lora # "drain"` of `PacketArrives`.
* **`Echo`** stands for what a transmission leaves in the FIFO, **`Noise`** for
  any packet that is not a heartbeat.
* **The receive window** of 8 s (`RX_WAIT_TIMEOUT_MS`) outlasts the answer to a
  heartbeat the gateway is already working on, which comes 350 ms and one
  packet's time later: `Awaited` in `Geofence` keeps the window open that long.
  In `Edge` by itself it may close at any time.
* **Flows.** A function node of Node-RED runs to its end, so that a handler of
  `AlertBot` and `FenceStore` is one action up to the next query, publication
  or answer; what the queries' answers are for is in shared variables.
* **Fences** of `FenceStore` and `FenceEditor` are numbers: what matters is which
  of them is where. Vertices and box of a fence travel apart.
* **Networks** of `Startup` are all assignments of "broker", "refuses" and
  "silent" to the addresses; the scan's sockets, the beacon's packets, mDNS,
  client, its start and radio may each fail.
* **Nodes of the bus** are numbered as they are allocated and never used again,
  so that a use of a freed node shows. All modules have one name and there is one
  event: which node a message is for is the subject of `BusPattern`.
* **Wi-Fi time** is kept in one respect: the event loop handles what the driver
  reported before a pause or a time-out, which lasts seconds, is over.
* **Ignored results** are modelled as what the code leaves behind: a call that may
  fail is an alternative of the step that makes it, and a bound on their number
  keeps the run finite. The history variables named above note them, so that a
  property can except just the part that a failure spoils.
* **Heartbeats at the broker.** Publishing puts a message into the client's outbox;
  from there it reaches the broker at once or later, once or several times, until
  it is acknowledged, given up after a while, or forgotten in a restart; a client
  without memory refuses it.
* **Packets of names.** `MdnsResults` reads a packet as the library does, record by
  record, with what one record leaves to the next: a record for a name of the
  device is not looked up and goes where the one before it went.
* **mDNS time** is left out: any packet that waits may be the next one due. The
  timer takes the lock for the whole of its walk and queues one packet after the
  other, while the service task may take actions out of the queue.
* **Addresses.** Packets and searches are known to the queue by their address,
  and `malloc` may give an address out again; a browse is told apart by the
  number of its allocation, so that the use of a freed one is seen.
* **Variants.** Definitions named `X_Something` under "variants with a plausible
  bug" are altered copies of `X` used to test that each property can fail; no
  specification uses them.

## 3. What the runs check

| run | instance | checks | distinct states |
|---|---|---|---|
| `edge` | one collar, 3×3 map, 3 positions and 3 fences to receive, 2 resets, wake count modulo 3 | `SleepStatusFresh`, `HeartbeatTruthful`, `SleepsAgain` | 12,045 |
| `gateway` | 1 position and 1 fence to relay, again and again; noise, driver errors, Wi-Fi and broker coming and going | `NotDeaf`, `NoSpuriousWake`, `ListensAgain`, `PendingIsRelayed`, `AnswersEachHeartbeat` | 61,316 |
| `gateway_lost_command` | 2 fences | violated: `HeldUntilRelayed` | |
| `geofence` | 1 collar, 2 wake-ups, 2 fence orders, lossy air, one reset, restart or driver error, one message kept by the client | `PublishedInOrder`, `FenceAdvances` | 1,402,308 |
| `geofence_live` | 1 collar, 1 fence order, air that loses nothing | `PendingReachesCollar` | 70,754 |
| `fence` | 2 fences, 2 saves, 1 reload, one failure or restart, the older panel | `StoredIsUsed`, `ShowsSaved`, `SettlesOnLatest` | 763,944 |
| `backend` | bot: 1 chat, 2 collars, 3 commands or a restart, 2 queries waiting; page: interval 3, answers within 2, 3 points, 1 use of the button, 2 outages | `ToldIsTrue`, `KeepsAlerting`; `OneAtATime`, `RealStaysLatest`, `LiveAgain` | 194,659 |
| `bus` | the bus task and one other, 3 nodes of any kind, a queue of 1, 2 messages, memory out once | `HeldIsListed`, `OnceRunsOnce` | 2,207,754 |
| `devices` | LED: counts of 5 bits, 8 timers; button: debounce 3, long press 5, double press 8, 22 polls; patterns and names up to 4 characters, room for 2 and 4; a ring of 3, 7 readings; 3 descriptors, 2 pages, 2 readings, 2 failed sends, works or snapshots | `BlinksAsAsked`; `InTurn`; `MatchesAsMeant`; `HistoryWhenFull`; `NobodyForgotten` | 2,193,993 |
| `wifi` | station: 1 known network, 2 tries, 1 call, 2 mishaps, the web server's configuration and two others; lists: 2 keys, 2 places, 3 requests, 1 restart, 1 failed load, save or erasure; gateway's startup: a subnet of 3 hosts with any behaviour, one beacon lost in a row, any number of other packets, one failure | `StatusSettles`, `ComesBack`; `ReloadsWhatIsListed`; `HandleIsLive`, `OneClient`, `BeaconDecides`, `RadioComesUp` | 627,179 |
| `mdns_names` | IPv4, 2 services, 1 call, 1 packet, 2 events of the interface, a queue of 2 | `BusyHasItsPacket`, `OnlyProbedIsAnswered`, `Settles` | 171,671 |
| `mdns_search` | 2 searches and 1 browse, 3 calls, 1 answer, a queue of 2; 2 services and one of the device on 2 hosts and its own, up to 3 records | `EndsItsOwn`, `SearchesEnd`; `SearchIsSound`, `ToldOfChanges` | 174,267 |

`geofence` is checked under the view `WithoutHistory`, which leaves out `newest`
and `relayed`: no guard reads them, and neither of the two action properties.
Each module has a type invariant (`EdgeTypeOK`, `GatewayTypeOK`, `TypeOK`, ...).
They hold on these instances, but are in no run's list; those of `Edge`,
`Gateway`, `Startup` and `FenceEditor` with `FenceStore` are theorems of their own,
most others are part of an invariant in section 4.

What they show:

* **Collar.** Whatever comes over console and air, and whenever it is reset, a
  collar reports the status of the position it reports and sleeps with a
  status that fits position and fence; it always sleeps again. The fences on
  the map include an inverted one and one of a single point, so that each
  comparison of `geofence_is_inside` decides somewhere. Collars do not share
  state, so that one is enough.
* **Gateway.** Until the driver reports an error it is never deaf, and it is
  never woken by itself; its loop always comes back to listening; a command
  that was stored while the loop waited for a packet goes out whole. The two
  kinds tell the two flags apart. `RearmFails` has no retry in the code: after
  an error the radio may stay off, so `ListensAgain` and `NotDeaf` except it.
* **System.** The gateway publishes each heartbeat once and in order; what its client
  sends again may reach the broker late or twice, which `published` and `kept`
  allow for, and nothing downstream compares wakes. A collar's fence
  only advances, coordinate by coordinate, as long as one topic carries the
  fences, which is what the dashboard does. This needed a model of the mixed
  texts: a fence relayed while it is written is a mixture, and is repaired by
  the next downlink because the flag goes up after the text. With both topics
  (`config_update` and the older `fence_update`) in use the property does not
  hold: after a reconnection the broker delivers `fence_update` first and an
  older `config_update` after it. Two fence orders and one outage are what the
  shortest way back would need.
* **Downlinks that are lost.** `PendingReachesCollar` is stated for air that
  loses nothing and one collar. The gateway clears its flags without knowing
  whether the downlink was received, so with loss, or with a second collar
  taking the answer, an order reaches nobody until it is published again or
  the gateway reconnects.
* **Startup.** Two tasks may create a client and neither takes a lock, yet there
  is never a second one: the LoRa task comes to life only when the radio was
  started, and the radio is started after the client. The price is that
  the radio waits for the search; `RadioComesUp` says that the search ends
  whatever answers or stays silent, if the beacon runs or other packets on its
  port stop coming: without the beacon, one such packet every few seconds keeps
  the radio down for ever. A client whose start failed stays, and nobody starts
  it again. The beacon wins over everything else.
* **Bot.** The messages are put together from variables that another question may
  have changed, and still what they say of a collar's alerts is true, because
  name and status are taken from the same variables. The anti-flood never
  holds an alert back for good. Poll period and anti-flood are scaled to 1 and
  2; in the code they are 3 and 8 units of 5 s.
* **Fence.** The broker returns every box to Node-RED, where it overwrites the
  one in memory, possibly with an older one; vertices and box may differ for a
  while. In the end both are of the fence posted last, or the box is the
  panel's, unless something failed; after failures and restarts they are as
  soon as database and broker have the fence. A page loaded then shows it.
* **Telemetry.** Without the refresh button and with answers quicker than the
  interval, one fetch is under way at a time and points only advance. With
  both and whatever overlaps, the page ends up with real points.
* **Sensor history.** A full ring is copied in order, if no reading is stored
  meanwhile.
* **Pages.** A session that ended is not taken out of the registry at once, and
  its descriptor is given to the next one, yet no page whose sends succeed is
  missing from it or in it twice, and each shows the last reading, unless the
  broadcast of it was not queued or had no memory for its snapshot: then pages
  stay behind until the next one. This rests on
  sends to dead descriptors failing, and on the work being queued to the task
  that also registers.
* **Event bus.** Whatever is removed while an event is dispatched, nothing that
  somebody still uses is freed: the mark for removal and the reference count
  suffice, also when memory runs out while receivers are collected. One-shot
  timers run at most once although they are collected before they are called, and
  stay in the list until they ran; those collected when memory runs out stay there
  for ever, and never run. Names that do not fit are refused or cut, and what
  is cut is never taken for the name of a shorter one.
* **LED and button.** A timer that was collected is called although it has been
  cancelled; the LED's counting survives that, except when another callback of
  the same round asks for something else (`overtaken`). Presses and releases
  are told in turn whatever the contacts do and however late a poll is.
* **Wi-Fi.** Starts and stops of the access point by several tasks, with events
  of the driver that come late, settle on a status that is true, as long as the
  manager's queue loses nothing and the driver takes the mode it is given. A station that may reconnect does, whoever
  takes it down. After a restart the flash gives the lists as they were, because
  counter and entries are written in that order and entries are passed over
  when they are missing; a load or save that failed or was cut short spoils that
  until the list is saved or loaded whole.
* **mDNS, names.** A pcb that probes or announces always has the packet that will
  move it on, through restarts, conflicts, removals and a queue that is full;
  the device's names are used after they were probed.
* **mDNS, searches.** A search may be ended by its timer, an answer or its caller.
  It ends once, for the caller that waits, and never for another search at the
  same address: the queue keeps the order. When a goodbye has stopped the task
  (below) no search ends any more: `SearchesEnd` excepts that, and the use of a freed
  browse, after which anything may happen, and the run goes through both.
  Records in any order, with names of the device between them, give results that
  belong together, and the notifier is told of what changed unless the queue had
  no room or the packet was malformed further on.

### Disagreements and faults

`HeldUntilRelayed` is a run of its own: an order that comes while a downlink is
on the air loses its flag to `mqtt_reset_flags` and is not relayed. The guide
says the gateway holds a command until it hears the collar
(`GUIA_DEFENSA_Y_PRESENTACION.md:103`).

The others below came up while the code was modelled. The models contain the
behaviour where the property above has an exception for it; no run is about them.

Final project:

* A refused connection counts as a broker found (`mqtt_service.cpp:181-182`), and
  the address is not searched for again. Every packet that is not the beacon
  starts the time-out of the listening again (`mqtt_service.cpp:94`).
* The result of `esp_mqtt_client_start` is ignored (`mqtt_service.cpp:343`): a client
  that did not start is taken for the gateway's from then on.
* A heartbeat that is sent again after a reconnection (QoS 1, `mqtt_service.cpp:359`)
  may reach the dashboard after a newer one.
* From the downlink until the broker answered, up to 3 s and more, the radio is in
  standby; the report says the gateway listens permanently
  (`03_firmware.tex:55-62`). Any packet ends a collar's window, also another
  collar's heartbeat (`proyecto-final/README.md:36`). The window is 8 s in
  `edge_config.h:40` and 2 s in four documents.
* Every collar is built with the same `DEVICE_ID` (`edge_config.h:33`), while the
  model tells collars apart as the documents do. `is_muted`, LED, buzzer,
  acknowledgements and the mute order of the documents do not exist in the
  firmware.
* With two questions waiting, both answers of the bot go to the chat that asked
  second. A restart forgets who is silenced, which the guide keeps in
  `cattle_mute_status`. An old button takes the opposite of what is, whatever
  its text. Alerts go by the fence's vertices, the bot's detail shows its box.
* The fence is answered with success before database and broker have it, and two
  writes may change places; a fence posted within the first second after a start
  is overwritten by the restore.
* In the page, the answer to the load replaces a polygon already edited; dragging
  writes into `INITIAL_GEOFENCE` itself (`GeofenceMap.tsx:125`), which "Restaurar
  coordenadas iniciales" then restores; each point sets the polling timer anew.

Web server and event bus:

* Until the ring is full `dht11_get_history` starts at the next slot to be
  written: for the first four minutes the history is made of empty readings.
* The handler of the access point's stop compares the event with
  "wifi:ap_stop" (`async-web-server.c:23`); the bus hands it the event's own
  name, "ap_stop" (`esp_bus_msg.c`). WebSocket clients are never closed there.
* A page may be shown the temperature of one reading and the humidity of the one
  before, until the next broadcast. Neither `httpd_queue_work` (`web_server.c:403`) nor
  a snapshot without memory (`web_server.c:105`, `133`) is tried again.
* A request that times out deletes its semaphore and leaves the stack frame of
  its caller (`esp_bus_msg.c:254`) while its message is still in the queue; the
  bus task then writes to both.
* `esp_bus_calc_next_wait` walks the services without the mutex
  (`esp_bus_svc.c:20`). Memory that runs out while receivers are collected
  (`esp_bus_msg.c:162`) leaves those already retained retained for ever. The same for
  services that are due (`esp_bus_svc.c:46-75`), whose one-shots have been taken off
  by then: they are never called.
* `esp_bus_parse_pattern` takes the place for the event to have room for a pattern
  and fills it (`esp_bus.c:119-120`), while the bus task gives it an array with room
  for a name (`esp_bus.c:161`). `BusPattern` has what the text is, not where it ends up.
* A blink of 16384 times or more overflows the `int16_t` that counts twice that.

Wi-Fi manager:

* `wifi_manager_connect` uses a pointer into the list after it released the
  mutex (`esp_wifi_manager_network.c:274-297`).
* Disconnecting does not stop a round of attempts that is under way, and turns
  reconnection off for good. The web server starts its manager with
  `auto_reconnect` false; the header's default is true (`esp_wifi_manager.h:442`).
* The manager's queue drops events when it is full; one that is lost leaves the
  status wrong until the next. A stop and a start of the DNS server within a
  second leave two tasks. The delay `base << retry_count` is undefined from 32
  retries on.
* The access point ignores whether its mode was set and its DNS server started
  (`esp_wifi_manager_ap.c:66`, `86`): it may count as active and be off, or be on
  without a portal.
* A restart, or a write that fails, in the middle of a save leaves an entry twice or loses one, until the
  next save. A factory reset erases the flash without the mutex. PUT of a
  network without a password clears it.

mDNS library:

* `browse_sync` calls `mdns_query_results_free`, which takes the lock its own task
  holds (`mdns_browser.c:71`): a goodbye for a service stops the task, also
  for one that the browse did not know (`mdns_browser.c:563-589`).
* `mdns_unregister_netif` ends with `mdns_priv_service_lock()` where an unlock
  belongs (`mdns_netif.c:431`). `mdns_service_txt_set` returns without an unlock
  when memory runs out (`mdns_responder.c:1024`).
* An end of a browse frees it while a sync that points to it may be queued behind.
* With two protocols, a packet the queue refused stays behind that of the other,
  and `send_packet` frees only the head of the line (`mdns_send.c:1714-1746`,
  `1837-1848`): the refused one is never sent. `mdns_names` has one protocol.
* Removing a service while addresses are probed leaves its question in the packet
  (`mdns_send.c:1778`). A restart of the probing for conflicting device names
  drops services with names of their own that are being probed. A new probe
  cancels announcements of others that are still to come. Two tasks that set the
  hostname share one binary semaphore.
* A browsed service that moves keeps the addresses of its old host
  (`mdns_browser.c:534-545`). The first text after the host is known is not told
  (`mdns_browser.c:415-445`). An address goes to the first result of its host only. A
  search that is full skips the record for the browse as well
  (`mdns_receive.c:933`).
* A record that is malformed makes the library throw away what the records before
  it had for the notifier, and keep what they changed (`mdns_receive.c:775`, `1277`): the
  browse's caller is told with the next change of the service, or never. An OPT
  record without data counts as malformed.
* A record for one of the device's own names goes to the search and the browse of
  the record before it (`mdns_receive.c:796-809`): a search may find a service of
  another type, and a browse that had an address before it compares the name
  with NULL (`mdns_browser.c:408`, `526`).

### Fairness

* `Edge`: `app_main` runs when it can, because the sleep timer, the console's
  15 s, the receive window's 8 s and the driver's own time-outs bound every
  wait. Keys and packets need not come.
* `Gateway`: FreeRTOS runs a ready task, and every wait but the one for a packet
  is bounded (`GatewayScheduling`). `CollarsKeepSending` adds that heartbeats
  come while the gateway waits, again and again, and that noise and bad
  checksums do not spoil all of them: strong fairness, because these events are
  only now and then possible. A property that says a command is relayed is
  about nothing else: without heartbeats there are no downlinks.
* `Geofence`: the same for both firmwares; `AirCarries` says that a collar's
  radio starts now and then, that a heartbeat now and then ends while the
  gateway waits, and that its checksum is right now and then. No fairness for
  operator, Wi-Fi or broker.
* `Startup`: the Wi-Fi manager's task runs; every socket operation of the search
  has a time-out. Of the network `RadioComesUp` assumes `BeaconOrQuiet`: the beacon
  runs, or at some time no more packets that are not the beacon come to its port.
  Nothing is assumed of the LoRa task.
* `AlertBot`: time passes, the poll fires, and InfluxDB answers what it was
  asked. A query that fails ends its message in the flow; this is not modelled.
* `FenceEditor`: what is under way is written or delivered, or fails, and the
  restore runs. Nothing is assumed of the operator or of the page.
* `Telemetry`: time passes, the timer fires and fetches end: browsers bound
  them. That InfluxDB stays in reach is a premise of `LiveAgain`.
* `WifiManager`: the driver goes on with a join and asks for an address (or fails,
  a mishap), the event loop handles what was reported, the manager's task runs.
* `MdnsResponder`: the service task and the timer run. Both need the lock, which is
  free only now and then, and the timer needs room in the queue as well: strong
  fairness, for a queue that the task empties again and again.
* `MdnsQuery`: the same for its task and the time-outs of searches; a caller whose
  search is done returns. A task that waits for itself is not freed by fairness:
  `SearchesEnd` excepts that (`Disturbed`).
* The runs that hold several parts assume the fairness of the part that runs.
* `Dht11`, `EventBus`, `BusLed`, `BusButton`, `BusPattern`, `WsClients`,
  `WifiStore`, `MdnsResults`: none; they have no liveness property.

### Bounds

`MaxResets`, `MaxVersion`, `MaxReadings`, `MaxCommands`, `MaxQueries`,
`MaxRestarts`, `MaxFence`, `MaxSaves`, `MaxReloads`, `MaxRefetches`, `MaxPoint`,
`MaxPosts`, `MaxPublished`, `MaxCalls`, `MaxRequests`, `MaxPackets`,
`MaxLinks`, `MaxAsked`, `MaxAnswers`, `MaxHeard`, `MaxTime`, `MaxLength` and the
lengths of `GpsOrders` and `FenceOrders` bound what the environment does.
`MaxOutages` bounds in `Geofence` resets, restarts and driver errors together, and
`OutboxSize` what the MQTT client keeps; in
`Telemetry` outages of the database; `MaxTroubles` bounds in `FenceEditor` failures
and restarts together, `MaxFailures` those of `Startup`, `MaxMishaps` those of the
Wi-Fi driver (with modes and DNS servers that fail), `MaxFaults` those of the
flash, `MaxShortages` the failures of memory in the bus, for events and services,
`MaxSendFailures` the sends, snapshots and queued works of the web server that
fail. `NameMax` and `PatternMax` are the code's limits made small, not bounds.
`MaxFetches`, `MaxClients`, `MaxNodes` and `MaxTimers` bound what is allocated;
they are large enough for the properties to be violated, which their mutants
show. `MaxWakes` bounds the wake-ups of a collar through its wake count; in
`geofence_live` it equals the modulus and bounds nothing. `WakeModulus` is 2^32 in
the code: a small one makes the wrap happen in `edge`; in `geofence` it is above
`MaxWakes` so that the count orders the heartbeats.

Small numbers stand for the code's: a ring of three for thirty, a registry of two
pages for five, queues of one (bus) and two actions (mDNS) for sixteen, of three
events (Wi-Fi) for ten, two places in each list of `WifiStore`. What can go wrong
at the limit is reached sooner that way. Five bits
for the LED's sixteen make the count wrap.

Two constraints stop a run's branches: `Budget` (in `backend` a restart and the
full number of commands do not both come) and `NothingLost` (in `wifi` the run goes no
further once the manager's queue was full, which both properties of the station
except in their premise). Deadlock is not checked where all requests may be used up
and nothing is left to do (`bus`, `devices`, `fence`, `wifi`, the two of mDNS).

`fence` was also checked with two troubles (2,568,551 states) and with three
fences (8,372,129 states) for its invariants, `mdns_search` with two answers (789,233
states), which takes longer than a run should.

## 4. What is proved

| theorem | states | for |
|---|---|---|
| `EdgeTypes` | `EdgeSpec => []EdgeTypeOK` | every map, stride, set of downlinks, width of the counter, number of collars and resets |
| `CollarSleepsFresh` | `SleepStatusFresh` | the same |
| `CollarReportsTruth` | `HeartbeatTruthful` | the same |
| `GatewayTypes` | `GatewaySpec => []GatewayTypeOK` | every set of heartbeats, any number of commands, with or without driver errors |
| `GatewayWakesForPackets` | `NoSpuriousWake` | the same |
| `GatewayNeverDeaf` | `NotDeaf` | the same: never deaf until the driver first reports an error |
| `GatewayImplementsPromise` | `GatewaySpec => Promise!Order` | the same, errors included |
| `FencesAdvance` | `FenceAdvances` | any number of collars, orders, wakes, outages and losses; orders that ascend, one topic for fences |
| `HeartbeatsInOrder` | `PublishedInOrder` | the same, any orders and topics, any size of the outbox; a wake count that does not wrap |
| `StartupTypes`, `HandleStaysLive` | `StartupTypeOK`, `HandleIsLive` | every subnet and behaviour of its ports, any number of other packets and failures, starts of the client included |
| `NeverTwoClients` | `OneClient` | the same: one client until something fails |
| `BeaconWins` | `BeaconDecides` | the same: the client is the broker's while the beacon is heard |
| `OperatorsAreToldTheTruth` | `ToldIsTrue` | any number of chats, collars, commands and waiting questions |
| `EditorTypes` | `EditorTypeOK` | any number of fences, saves, reloads, failures and restarts |
| `StoredFenceIsUsed` | `StoredIsUsed` | the same |
| `LoadedPageShowsSaved` | `ShowsSaved` | the same |
| `OneFetch` | `OneAtATime` | any interval and latency, any number of points and outages |
| `RealPointsStay` | `RealStaysLatest` | the same |
| `NothingHeldIsFreed` | `HeldIsListed` | any number of nodes, clients and messages, any length of the queue |
| `OneShotsRunOnce` | `OnceRunsOnce` | the same, memory that runs out at any of the steps |
| `NamesAreTakenAsMeant` | `MatchesAsMeant` | every pattern and name, over any characters, and any room for them |
| `LedBlinksAsAsked` | `BlinksAsAsked` | any width of the count, any number of timers |
| `PressesInTurn` | `InTurn` | any debounce, long press and double press, polls that may be late |
| `FullHistoryIsLatest` | `HistoryWhenFull` | any size of the ring, any number of readings |
| `PagesAreServed` | `NobodyForgotten` | any descriptors, any capacity, any number of readings and of failed sends, snapshots and works |
| `StatusIsTheTruth` | `StatusSettles` | any networks, retries, configurations, calls and mishaps, failed modes and DNS servers included, any length of the queue |
| `FlashHasWhatIsListed` | `ReloadsWhatIsListed` | any entries, places, requests, restarts and failures of the flash |
| `EndsTheRightSearch` | `EndsItsOwn` | any number of searches, browses and answers, any length of the queue |
| `ResultsBelongTogether` | `SearchIsSound` | any services, hosts, addresses, texts, limits and packets, malformed ones and names of the device included |
| `BrowserTellsOfChanges` | `ToldOfChanges` | the same, any length of the queue |
| `ProbesAreNeverLost` | `BusyHasItsPacket` | one or both protocols, any services of different types, tasks, calls, packets and events |
| `OnlyWonNamesAreAnswered` | `OnlyProbedIsAnswered` | the same, services of any types |

They rest on the assumptions each module names (`EdgeAssumption`,
`GatewayAssumption`, `StartupAssumption`, ...): numbers are numbers, what a downlink
carries is a position and a fence, model values are distinct, sets of services and
clients are finite. TLC evaluates each of them in some run. Three theorems have
hypotheses of their own:

* `FencesAdvance` assumes `OrdersAscend`, because the age of a fence is read off its
  coordinates, and `OneFenceTopic`, without which the property is false (section 3).
* `HeartbeatsInOrder` assumes `MaxWakes < WakeModulus`: the 32 bits of the wake count
  outlast any battery.
* `ProbesAreNeverLost` assumes `TypesDiffer`: removing a service takes the first
  question of its **type** out of the probe (`mdns_send.c:1796-1815`), which with two
  services of one type may be the question of the other.

**Collar.** `SleepStatusFresh` is not inductive: `Settle` stores the status only
if it differs from the one the heartbeat reported, which is right only because
the stored one still is the reported one. `EdgeInv` adds that (`StatusStored`),
that the reported one is true of position and fence until the packet comes
(`HeartbeatTruthful`), and that the console has its locals while it is open.

**Gateway.** `NoSpuriousWake` holds because `Drain` is the only way back to
`waiting`, clears the notification, and the pin is high after every later
one. `NotDeaf` by itself is not inductive: whether the pin may be high without a
notification when the loop comes back to `waiting` depends on `Rearm` having
cleared it and on nothing having arrived since. `HealthyInv` adds
`RadioByStage`: from `read` to the downlink the radio receives, from there to
`Rearm` it is in standby, and at `drain` the pin is low, unless the driver is
`troubled`. The stage also decides `Duty`, which gives the refinement:
`ReadHeartbeat` is `Take`, `SendDownlink` (or its failure, which leaves the
radio in standby as well) is `Answer`, `Rearm` is `Resume`, everything else
stutters. A failed `Rearm` resumes nothing, so that the order of the promise
holds with errors too; what errors may cost is its liveness.

**System.** A fence is under way in six places: retained, in delivery, being stored,
in the buffer, copied for the downlink, on the air. `InOrder` says that each place
holds nothing newer than the one before it. Because the MQTT task and the LoRa task
overtake each other in the middle of a text, it says so of each half by itself.
`Newer` says that whatever may still come is at least as new as all that collars
have or hear; with `HeardIsNewer`, receiving never goes back. A restart keeps all of
it because only what is retained remains, which is the newest. The heartbeats go
the other way (`WakesInOrder`): a collar that has yet to send has published nothing
of this wake, and what the gateway has read, or was woken to read, is newer than
what it has published of the same collar and than what its client still keeps.

**Startup.** `OneClient` needs to know why the LoRa task does not create one:
`Alone` says that, while nothing has failed, it is idle until the radio is
started, and that the manager is past the creation by then. `BeaconDecides`
needs `Heard`: a task that listens has been silent no longer than beacons may be
missing, so it never goes on to mDNS or the scan. `UriKnown` says that a task
about to create a client knows an address.

**Bot.** `ToldIsTrue` is nearly inductive by itself: each step that changes the
alerts of a collar, or tells of them, does so from the state it leaves, whatever the
shared variables hold. What they hold decides only whom and which collar.

**Fence.** `StoredIsUsed` speaks of the moment when nothing is under way; what
leads there has to be said of every moment. `Returned` says that the box that will
be in use when the last message has come is the one the broker retains: the last
one under way, or the one in memory if none is. `Restoring` and `Restored` say the
like of the vertices and the database after a start, `NeverPosted` of the time
before the first fence, `BotFirst` that only the broker makes box and vertices
differ. `Loading` says that, until a page just
loaded has its answer, the database does not change and what was read is what
it holds; `Saving` that what is saved was drawn.

**Telemetry.** `Lone`: while answers are quick and nobody refreshes, the only fetch
is as old as the timer, so that it is answered before the timer fires, and it
knows what the page shows.

**Event bus.** `RefsCoverHolders`: the reference count of a node is at least the number
of those who hold it, who are the round, the request in hand and each client that has
looked it up. That needs sets counted one element more or less, hence the finite
set of clients. `OnceIsOver`: a one-shot timer that was collected is not set any more,
and one that ran is of no later round.

**Wildcards.** The matcher is a recursive function on places of pattern and name. The
proof first shows that the function exists (tlapm knows that of no recursive
definition), then by induction from the end of the pattern that it decides whether
the rest of the name can be cut as the rest of the pattern says.

**LED.** `CountTellsFlashes` ties the count to history: while `k` blinks are left the
count is `2k` with the LED lit, or `2k - 1` with it dark. `OneTimer` says that no other
timer may still be called, cancelled ones included, unless a request overtook a
callback.

**Button.** `Told` links what the subscribers were told to what the module
remembers: a press was told exactly if the button is stable and the time of the
press is known. `Spaced` says that while the pin is read released, the debounce
ends no earlier than the press allows.

**Sensor history.** `RingIsLatest` follows temperature, humidity and `head` through the
three statements in which a reading is stored: seen from where `head` will be, each
array holds the last readings, the humidity being one behind for a moment.
`CopyIsLatest` says what has been copied so far.

**Pages.** `NobodyLost`: a served page is registered, nobody twice. `PagesAreFresh`: when
nothing is queued and no reading is half published, a served page has the reading or
stands at or after the place the broadcast has reached. Taking a client out moves
the last one forward, so that this is what one has to be careful about.

**Wi-Fi.** The manager believes the last event. `StationIsKnown` and `ApIsKnown` say what
the last event of each kind, wherever it is, tells; if none is under way, what the
manager believes is so, or a task is in the middle of switching. Events change
places only from the driver to the event loop to the queue.

**Flash.** `Exclusive` (the mutex), `SavesInOrder` (in the middle of a save the counter and
the places already written are those of the list), `ResetAlone`, and `RestAgrees`: a
list that nobody loads or saves is the flash's, unless its last load or save failed
or was cut short (`unsaved`). The boot saves as well: a list that loads empty gets
its defaults.

**Searches.** An end is queued when a search goes off, the next search at its
address is added after that one was freed, and the queue keeps the order.
`AddFirst` says so of the queue: while an addition is waiting nothing else of
its search is behind it. `EndKnown` says that a search that is listed and not off
has no end waiting. All of it is said of the time before a freed browse was used.

**Results.** `Sound` says of the list of a search that each service or host has one
result and which of its fields may be there; `Keeping` adds what a record may leave
to the next one; `Grown` says of a browse what one packet
may change, by induction over its records: what differs is news. `ToldOfChanges` then
needs that whatever is queued to be told is listed.

**Names.** The invariant `PcbInv` is of each interface and protocol that is up. While it
probes, exactly one packet is its own, wherever in the queue, and asks for what is
probed, and what is probed together with what was won covers all that goes by the
name of the device. Afterwards its packets win nothing and are not empty, all such
names are won, and while it announces it has a packet. It is never off. The packets
"win nothing" because a leftover probe that is handled later would count as
the third; they are not empty because a removal drops those that are. Most steps are
one of three kinds: all packets of an interface are replaced (`ProbeAllHolds`), each is
changed in place (`CarriedKeeps`), or one moves on (`HandledHolds`, `ExamineHolds`).

Induction over numbers is not in tlapm's reach as the library states it, since its
theorems take an operator; `Induction` derives it from `NatLessThanWellFounded` and
`WFMin`, with a set in the operator's place: `Induct`, `LeastNumber`,
`GreatestIsMember`. That a recursive function exists is proved by that induction where
one is used (the matcher, `Loaded`, a packet's records, `Kept`, `RemoveAll`).
`MdnsResponder` and `MdnsResults` are written with such functions and not with folds
for that reason.

Only model-checked: all liveness (`SleepsAgain`, `ListensAgain`,
`PendingIsRelayed`, `PendingReachesCollar`, the fairness of `Responder`,
`RadioComesUp`, `KeepsAlerting`, `SettlesOnLatest`, `LiveAgain`, `ComesBack`,
`Settles`, `SearchesEnd`), which is beyond this prover. `HeldUntilRelayed` is false.

## 5. Not modelled

* **Final project.** The older panel's simulated position and its input fields one
  by one; payloads that are not JSON or do not fit a packet; messages the MQTT
  library delivers in parts; the arithmetic of distances; what six decimals lose;
  queries of the bot that fail. `TimeTravelStudio.tsx`, which no page uses and
  whose endpoint no flow serves. The mock gateway, a test tool.
* **Web server.** The driver that reads the sensor's pin, a sequence of delays in
  one task; files it serves.
* **Event bus.** `esp_bus_deinit`, which no program here calls; settings for
  logging and errors; removal of LED and button, and the button's
  reconfiguration. Late replies to requests that timed out: the code uses freed
  memory there, and what follows is undefined.
* **Wi-Fi manager.** Its deinit; the answers of the captive DNS; pages, console and
  Bluetooth as texts and transport: what they change is in `WifiManager` and
  `WifiStore`. The window of a few statements in which `wifi_manager_connect` holds a
  pointer into the list.
* **mDNS.** A second protocol or interface in the run (`MdnsResponder` is written for a
  set of protocols), the twin interface of Ethernet and Wi-Fi, delegated hosts,
  `mdns_free`, known-answer suppression, distributed queries, subtypes, memory that
  runs out; goodbyes and times to live in the results (what a goodbye does to the
  task is in `MdnsQuery`, where a browse knows of one service); renames of the
  device while it searches, and what a search that took a record for the device's
  own names hides from the responder; the bytes of packets;
  console, lwIP and string helpers, which keep no state of their own.
* **practica-2.** One task that reads a sensor and publishes, with no shared state.
* RadioLib's and ESP-IDF's insides, HTTP and page rendering, the LaTeX report.
