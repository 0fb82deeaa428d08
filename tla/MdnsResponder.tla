--------------------------- MODULE MdnsResponder ---------------------------
(***************************************************************************)
(* How the mDNS library makes names its own and announces them: the state  *)
(* of each interface and protocol (mdns_pcb.c), the packets scheduled      *)
(* (mdns_send.c), the conflicts and questions that come (mdns_receive.c)   *)
(* and what the program asks (mdns_responder.c, mdns_netif.c).             *)
(*                                                                         *)
(* A probe is sent three times, its announcement three times.  Times are   *)
(* left out: any packet that waits may be the next one due.  Allocations   *)
(* succeed.  What goes out at once (goodbyes, unicast replies) is not kept.*)
(***************************************************************************)
EXTENDS MdnsQueue, Integers, SequencesExt

CONSTANTS Pcbs,         \* the protocols of the station: a subset of {"v4", "v6"}
          Services,     \* the items of the list of services
          Type,         \* the service and protocol of each item
          MaxServices,  \* CONFIG_MDNS_MAX_SERVICES
          AtStart,      \* the services of a program that has set its names
          Callers,      \* the tasks that set the hostname
          MaxRequests,  \* bound: calls of the library
          MaxPackets,   \* bound: packets that come
          MaxLinks      \* bound: events of the interface

ASSUME ResponderAssumption ==
    /\ Pcbs \subseteq {"v4", "v6"}
    /\ IsFiniteSet(Services) /\ AtStart \subseteq Services

VARIABLES net,          \* what the service task works on, see NetInit
          linked,       \* the station has its address
          sema,         \* action_sema, a binary semaphore
          caller,       \* what each task that sets the hostname does
          spent         \* what is used of the three bounds
responderVars == <<net, linked, sema, caller, spent>>

ProbeStates == {"PROBE_1", "PROBE_2", "PROBE_3"}
AnnounceStates == {"ANNOUNCE_1", "ANNOUNCE_2", "ANNOUNCE_3"}
AfterProbing == AnnounceStates \cup {"RUNNING"}
NextState ==
    [s \in {"PROBE_1", "PROBE_2", "PROBE_3", "ANNOUNCE_1", "ANNOUNCE_2", "ANNOUNCE_3"} |->
        CASE s = "PROBE_1" -> "PROBE_2"       [] s = "PROBE_2" -> "PROBE_3"
          [] s = "PROBE_3" -> "ANNOUNCE_1"    [] s = "ANNOUNCE_1" -> "ANNOUNCE_2"
          [] s = "ANNOUNCE_2" -> "ANNOUNCE_3" [] s = "ANNOUNCE_3" -> "RUNNING"]

PcbOff == [ready |-> FALSE, state |-> "OFF", probing |-> {}, ip |-> FALSE, running |-> FALSE]

(* s_pcbs, s_tx_queue_head and s_server.  The transmit queue is `line`, the *)
(* packets found due so far and in order, then `waiting`, the others.       *)
(* `won` is no variable of the code: the services whose present name each   *)
(* pcb has probed to the end since it was last enabled.                     *)
NetInit ==
    [pcb |-> [p \in Pcbs |-> PcbOff], line |-> <<>>, waiting |-> {},
     host |-> FALSE, instance |-> FALSE, services |-> {}, own |-> {},
     won |-> [p \in Pcbs |-> {}]]

(* Nothing was asked yet, or the station comes up with names and services,  *)
(* as the firmware has it.                                                  *)
Deployed == [NetInit EXCEPT !.host = TRUE, !.instance = TRUE, !.services = AtStart]

ResponderInit ==
    /\ QueueInit
    /\ net \in {NetInit, Deployed} /\ linked = FALSE /\ sema = FALSE
    /\ caller = [c \in Callers |-> "idle"]
    /\ spent = [requests |-> 0, packets |-> 0, links |-> 0]

Spend(what, bound) == spent[what] < bound /\ spent' = [spent EXCEPT ![what] = @ + 1]

-----------------------------------------------------------------------------
(* Packets.  `ip` says that addresses are asked for, or are among the other *)
(* records; `addrs` that they are among the answers.                        *)

Scheduled(n) == ToSet(n.line) \cup n.waiting

(* malloc gives back what was freed last: the lowest address free. *)
Address(n) ==
    CHOOSE a \in 1 .. Cardinality(Scheduled(n)) + 1 :
        /\ \A k \in Scheduled(n) : k.at # a
        /\ \A b \in 1 .. a - 1 : \E k \in Scheduled(n) : k.at = b

Blank(n, p) ==
    [at |-> Address(n), pcb |-> p, queued |-> FALSE, asks |-> {}, hosts |-> {},
     servers |-> {}, ip |-> FALSE, answers |-> {}, addrs |-> FALSE]

(* mdns_priv_send_after *)
SendLater(n, packet) == [n EXCEPT !.waiting = @ \cup {packet}]

(* What is left of a line with the places that are kept. *)
Kept(line, places) ==
    LET rest[i \in 0 .. Len(line)] ==
            IF i = 0 THEN <<>>
            ELSE IF i \in places THEN Append(rest[i - 1], line[i]) ELSE rest[i - 1]
    IN rest[Len(line)]

(* mdns_priv_clear_tx_queue_if *)
ClearOf(n, p) ==
    [n EXCEPT !.line = Kept(@, {i \in DOMAIN @ : @[i].pcb # p}),
              !.waiting = {k \in @ : k.pcb # p}]

(* mdns_priv_create_probe_packet: each host question points at the hostname *)
(* of the service it is for.                                                *)
ProbePacket(n, p, list, ip) ==
    [Blank(n, p) EXCEPT !.asks = list, !.servers = list, !.ip = ip,
                        !.hosts = IF ip THEN list ELSE {}]

(* mdns_priv_create_announce_from_probe *)
AnnounceFromProbe(n, probe) ==
    [Blank(n, probe.pcb) EXCEPT !.answers = probe.servers,
                                !.addrs = probe.ip \/ probe.servers # {}]

(* mdns_priv_create_announce_packet *)
AnnouncePacket(n, p, list, ip) ==
    [Blank(n, p) EXCEPT !.answers = list, !.ip = ip]

-----------------------------------------------------------------------------
(* Probing and announcing. *)

(* mdns_priv_init_pcb_probe, init_probe_new_service: what is being probed   *)
(* already is probed again, whatever else was scheduled is dropped.         *)
InitProbe(n, p, list, ip) ==
    LET cleared == ClearOf(n, p)
        pcb == n.pcb[p]
        all == list \cup (IF pcb.state \in ProbeStates THEN pcb.probing ELSE {})
        withIp == pcb.ip \/ ip
    IN IF ~n.host THEN [cleared EXCEPT !.pcb[p].state = "RUNNING"]
       ELSE SendLater([cleared EXCEPT !.pcb[p] =
                          [@ EXCEPT !.state = "PROBE_1", !.probing = all,
                                    !.ip = withIp, !.running = TRUE]],
                      ProbePacket(cleared, p, all, withIp))

(* mdns_priv_probe_all_pcbs, one protocol after the other *)
ProbeAll(n, list, ip, clearOld) ==
    LET Forget(m, p) ==
            IF clearOld THEN [m EXCEPT !.pcb[p].probing = {}, !.pcb[p].running = FALSE] ELSE m
        On(p, m) == IF p \in Pcbs /\ m.pcb[p].ready
                    THEN InitProbe(Forget(m, p), p, list, ip) ELSE m
    IN On("v6", On("v4", n))

(* mdns_priv_restart_all_pcbs *)
RestartAll(n) == ProbeAll([n EXCEPT !.line = <<>>, !.waiting = {}], n.services, TRUE, TRUE)

(* mdns_priv_restart_all_pcbs_no_instance *)
RestartNoInstance(n) ==
    IF n.services \ n.own = {} THEN n
    ELSE ProbeAll(n, n.services \ n.own, FALSE, TRUE)

(* mdns_priv_pcb_announce; `first` is the packet of the pcb in front. *)
AnnounceOn(n, p, list, ip, first) ==
    LET state == n.pcb[p].state
        Added(k) == IF k.at = first
                    THEN [k EXCEPT !.answers = @ \cup list, !.addrs = @ \/ (ip /\ n.host)]
                    ELSE k
    IN CASE ~n.pcb[p].ready -> n
         [] n.pcb[p].ready /\ state \in ProbeStates -> InitProbe(n, p, list, ip)
         [] n.pcb[p].ready /\ state \in AnnounceStates /\ first # 0 ->
              [n EXCEPT !.pcb[p].state = "ANNOUNCE_1",
                        !.line = [i \in DOMAIN @ |-> Added(@[i])],
                        !.waiting = {Added(k) : k \in @}]
         [] n.pcb[p].ready /\ state = "RUNNING" /\ n.host ->
              SendLater([n EXCEPT !.pcb[p].state = "ANNOUNCE_1"], AnnouncePacket(n, p, list, ip))
         [] OTHER -> n

(* mdns_priv_get_next_packet: the first in line, or any of those that wait. *)
Fronts(n, p) ==
    LET inLine == {i \in DOMAIN n.line : n.line[i].pcb = p}
        others == {k.at : k \in {w \in n.waiting : w.pcb = p}}
    IN IF inLine # {} THEN {n.line[CHOOSE i \in inLine : \A j \in inLine : i <= j].at}
       ELSE IF others # {} THEN others ELSE {0}

(* announce_all_pcbs *)
AnnounceAll(n, list, ip, front) ==
    LET On(p, m) == IF p \in Pcbs THEN AnnounceOn(m, p, list, ip, front[p]) ELSE m
    IN On("v6", On("v4", n))
FrontChoices(n) == {f \in [Pcbs -> UNION {Fronts(n, p) : p \in Pcbs}] : \A p \in Pcbs : f[p] \in Fronts(n, p)}

-----------------------------------------------------------------------------
(* The timer, mdns_priv_send_packets: from the first packet not queued on,  *)
(* every packet that is due is queued to be handled.  While the lock is     *)
(* held over several packets `lock` is the place of the last in the line.   *)

TxAction(at) == [type |-> "tx", at |-> at]

(* Variant with a plausible bug: a packet the queue refused stays marked.   *)
Examine_StaysQueued(line, i) ==
    /\ net' = [net EXCEPT !.line = [line EXCEPT ![i].queued = TRUE],
                          !.waiting = @ \ {line[i]}]
    /\ actions' = Queued(actions, TxAction(line[i].at))
    /\ lock' = IF HasRoom /\ i = Len(line) THEN 0 ELSE i
    /\ UNCHANGED <<hand, linked, sema, caller, spent>>

Examine(line, i) ==
    LET pushed == HasRoom
    IN /\ net' = [net EXCEPT !.line = [line EXCEPT ![i].queued = pushed],
                             !.waiting = @ \ {line[i]}]
       /\ actions' = Queued(actions, TxAction(line[i].at))
       /\ lock' = IF pushed /\ i = Len(line) THEN 0 ELSE i
       /\ UNCHANGED <<hand, linked, sema, caller, spent>>

Unqueued == {i \in DOMAIN net.line : ~net.line[i].queued}

TimerQueues ==
    \/ /\ lock = 0 /\ Unqueued # {}
       /\ Examine(net.line, CHOOSE i \in Unqueued : \A j \in Unqueued : i <= j)
    \/ /\ lock = 0 /\ Unqueued = {}
       /\ \E w \in net.waiting : Examine(Append(net.line, w), Len(net.line) + 1)
    \/ /\ lock # 0 /\ lock < Len(net.line)
       /\ Examine(net.line, lock + 1)
    \/ /\ lock # 0 /\ lock = Len(net.line)
       /\ \E w \in net.waiting : Examine(Append(net.line, w), lock + 1)

TimerEnds ==
    /\ lock # 0 /\ lock = Len(net.line)
    /\ lock' = 0
    /\ UNCHANGED <<actions, hand, responderVars>>

(* mdns_priv_pcb_schedule_tx_packet, for a packet out of the queue: any     *)
(* packet of the pcb moves it on.                                           *)
Reschedule(n, packet) ==
    LET p == packet.pcb
        state == n.pcb[p].state
        moved == [n EXCEPT !.pcb[p].state = NextState[state]]
        won == [moved EXCEPT !.pcb[p] = [@ EXCEPT !.probing = {}, !.ip = FALSE, !.running = FALSE],
                             !.won[p] = @ \cup packet.servers]
    IN CASE state \in {"PROBE_1", "PROBE_2", "ANNOUNCE_1", "ANNOUNCE_2"} ->
              SendLater(moved, packet)
         [] state = "PROBE_3" ->
              SendLater(won, AnnounceFromProbe(SendLater(won, packet), packet))
         [] state = "ANNOUNCE_3" -> moved
         [] OTHER -> n

(* handle_packet; what is transmitted is not kept. *)
Handled(n, packet) ==
    IF n.pcb[packet.pcb].state = "OFF" THEN n ELSE Reschedule(n, packet)

(* send_packet: only the packet in front, if it is the one that was queued. *)
ExecuteTx ==
    LET front == Head(net.line)
    IN /\ Runs("tx")
       /\ net' = IF net.line # <<>> /\ front.at = hand.at /\ front.queued
                 THEN Handled([net EXCEPT !.line = Tail(@)], [front EXCEPT !.queued = FALSE])
                 ELSE net
       /\ Done /\ UNCHANGED <<linked, sema, caller, spent>>

-----------------------------------------------------------------------------
(* mdns_priv_remove_scheduled_service_packets *)

(* Without its answers, additional records and servers for the service. *)
Stripped(k, s) == [k EXCEPT !.answers = @ \ {s}, !.servers = @ \ {s}]
HasAnswers(k) == k.answers # {} \/ k.addrs

(* Variant with a plausible bug: the state of the pcb is not set back. *)
AfterRemoval_KeepsState(pcb, s, removedAnswers) ==
    IF pcb.state \in ProbeStates /\ s \in pcb.probing
    THEN [pcb EXCEPT !.probing = @ \ {s}]
    ELSE IF pcb.state \in AnnounceStates /\ removedAnswers
         THEN [pcb EXCEPT !.state = "RUNNING"]
    ELSE pcb

(* mdns_priv_pcb_check_probing_services *)
AfterRemoval(pcb, s, removedAnswers) ==
    IF pcb.state \in ProbeStates /\ s \in pcb.probing
    THEN IF pcb.probing = {s} /\ ~pcb.ip
         THEN [pcb EXCEPT !.probing = {}, !.running = FALSE, !.state = "RUNNING"]
         ELSE [pcb EXCEPT !.probing = @ \ {s}]
    ELSE IF pcb.state \in AnnounceStates /\ removedAnswers
         THEN [pcb EXCEPT !.state = "RUNNING"]
    ELSE pcb

(* One question of the type goes, the first of them, and no host question.  *)
WithoutQuestion(k, s) ==
    LET same == {q \in k.asks : Type[q] = Type[s]}
    IN IF same = {} THEN k
       ELSE [k EXCEPT !.asks = @ \ {CHOOSE q \in same : TRUE}]

IsEmpty(k) == k.asks = {} /\ k.hosts = {} /\ k.servers = {} /\ k.answers = {} /\ ~k.ip /\ ~k.addrs

RemoveScheduled(n, s) ==
    LET Of(p) == {k \in Scheduled(n) : k.pcb = p}
        removed(p) == \E k \in Of(p) : HasAnswers(k) /\ ~HasAnswers(Stripped(k, s))
        Left(k) ==
            IF n.pcb[k.pcb].ready /\ n.pcb[k.pcb].state \in ProbeStates /\ s \in n.pcb[k.pcb].probing
            THEN WithoutQuestion(Stripped(k, s), s) ELSE Stripped(k, s)
        line == [i \in DOMAIN n.line |-> Left(n.line[i])]
    IN [n EXCEPT !.pcb = [p \in Pcbs |-> IF @[p].ready /\ Of(p) # {}
                                         THEN AfterRemoval(@[p], s, removed(p)) ELSE @[p]],
                 !.line = Kept(line, {i \in DOMAIN line : ~IsEmpty(line[i])}),
                 !.waiting = {k \in {Left(w) : w \in @} : ~IsEmpty(k)}]

(* The service loses its name, or the item is freed. *)
Renamed(n, some) == [n EXCEPT !.won = [p \in Pcbs |-> @[p] \ some]]
Unlisted(n, s) == Renamed([n EXCEPT !.services = @ \ {s}, !.own = @ \ {s}], {s})

-----------------------------------------------------------------------------
(* The interface (mdns_netif.c): events become actions, and an event that   *)
(* finds the queue full is lost.                                            *)

Event(what, p) == [type |-> "event", what |-> what, pcb |-> p]
Post(first, second) ==
    /\ actions' = LET Posted(queue, e) == IF e.pcb \in Pcbs THEN Queued(queue, e) ELSE queue
                  IN Posted(Posted(actions, first), second)
    /\ Spend("links", MaxLinks)
    /\ UNCHANGED <<hand, lock, net, sema, caller>>

(* IP_EVENT_STA_GOT_IP, IP_EVENT_GOT_IP6 and WIFI_EVENT_STA_DISCONNECTED *)
GotIp == linked' = TRUE /\ Post(Event("enable", "v4"), Event("announce", "v6"))
GotIp6 == linked /\ UNCHANGED linked /\ Post(Event("enable", "v6"), Event("announce", "v4"))
Disconnected ==
    linked /\ linked' = FALSE /\ Post(Event("disable", "v4"), Event("disable", "v6"))

(* join_group: the interface is down, or went down before its event came.   *)
JoinsGroup == linked

(* mdns_priv_if_init, in lwIP's thread: refused when the protocol is ready. *)
CanInit(n, p) == ~n.pcb[p].ready /\ JoinsGroup

(* restart_pcb, deinit_pcb *)
RestartPcb(n, p) == InitProbe(n, p, n.services, TRUE)
Deinit(n, p) == [n EXCEPT !.pcb[p] = PcbOff]

(* mdns_priv_pcb_enable *)
Enabled(n, p) ==
    CASE n.pcb[p].ready -> RestartPcb(n, p)
      [] CanInit(n, p)  -> RestartPcb([n EXCEPT !.pcb[p].ready = TRUE], p)
      [] OTHER          -> n

(* mdns_priv_pcb_disable *)
Disabled(n, p) ==
    LET forgotten == [n EXCEPT !.won[p] = {}]
    IN IF n.pcb[p].ready THEN Deinit(ClearOf(forgotten, p), p)
       ELSE [forgotten EXCEPT !.pcb[p].state = "OFF"]

ExecuteEvent ==
    /\ Runs("event")
    /\ \/ hand.what = "enable" /\ net' = Enabled(net, hand.pcb)
       \/ hand.what = "disable" /\ net' = Disabled(net, hand.pcb)
       \/ hand.what = "announce" /\ \E f \in Fronts(net, hand.pcb) :
             net' = AnnounceOn(net, hand.pcb, {}, TRUE, f)
    /\ Done /\ UNCHANGED <<linked, sema, caller, spent>>

-----------------------------------------------------------------------------
(* What the program asks (mdns_responder.c).  Setting a name is queued; the *)
(* rest is done at once, under the lock.                                    *)

(* mdns_hostname_set: the caller sleeps until the semaphore is given. *)
SetHostname(c) ==
    /\ caller[c] = "idle" /\ HasRoom
    /\ actions' = Queued(actions, [type |-> "hostname"])
    /\ caller' = [caller EXCEPT ![c] = "waiting"]
    /\ Spend("requests", MaxRequests)
    /\ UNCHANGED <<hand, lock, net, linked, sema>>

ExecuteHostname ==
    /\ Runs("hostname")
    /\ net' = RestartAll(Renamed([net EXCEPT !.host = TRUE], net.services))
    /\ sema' = TRUE
    /\ Done /\ UNCHANGED <<linked, caller, spent>>

CallerReturns(c) ==
    /\ caller[c] = "waiting" /\ sema
    /\ caller' = [caller EXCEPT ![c] = "idle"] /\ sema' = FALSE
    /\ UNCHANGED <<queueVars, net, linked, spent>>

(* mdns_instance_name_set *)
SetInstance ==
    /\ net.host /\ HasRoom
    /\ actions' = Queued(actions, [type |-> "instance"])
    /\ Spend("requests", MaxRequests)
    /\ UNCHANGED <<hand, lock, net, linked, sema, caller>>

(* Variant with a plausible bug: what goes by the new name is not probed. *)
NewInstance_Unprobed(n) == Renamed([n EXCEPT !.instance = TRUE], n.services \ n.own)

NewInstance(n) == RestartNoInstance(Renamed([n EXCEPT !.instance = TRUE], n.services \ n.own))

ExecuteInstance ==
    /\ Runs("instance")
    /\ net' = NewInstance(net)
    /\ Done /\ UNCHANGED <<linked, sema, caller, spent>>

Asked(n) ==
    /\ lock = 0 /\ net' = n
    /\ Spend("requests", MaxRequests)
    /\ UNCHANGED <<queueVars, linked, sema, caller>>

(* can_add_more_services, create_service: the item goes by a name of its    *)
(* own when it was given one.                                               *)
CanAdd(n) == Cardinality(n.services) < MaxServices
Created(n, s, named) ==
    [n EXCEPT !.services = @ \cup {s}, !.own = IF named THEN @ \cup {s} ELSE @]

(* mdns_service_add *)
Add(s, named) ==
    /\ net.host /\ s \notin net.services /\ CanAdd(net)
    /\ Asked(ProbeAll(Created(net, s, named), {s}, FALSE, FALSE))

(* mdns_service_remove, after its goodbye *)
RemoveService(s) ==
    /\ s \in net.services
    /\ Asked(RemoveScheduled(Unlisted(net, s), s))

(* mdns_service_remove_all, one service after the other *)
RemoveAll ==
    LET list == SetToSeq(net.services)
        after[i \in 0 .. Len(list)] ==
            IF i = 0 THEN net ELSE RemoveScheduled(Unlisted(after[i - 1], list[i]), list[i])
    IN net.services # {} /\ Asked(after[Len(list)])

(* What is known about a service has changed; the addresses may go with it. *)
Updated(s, ip) ==
    /\ s \in net.services
    /\ \E front \in FrontChoices(net) : Asked(AnnounceAll(net, {s}, ip, front))

(* mdns_service_port_set; the TXT record as a whole, one item of it set or  *)
(* removed; the subtypes, one added or the list replaced.                   *)
SetPort(s) == Updated(s, TRUE)
SetTxt(s) == Updated(s, FALSE)
SetTxtItem(s) == Updated(s, FALSE)
RemoveTxtItem(s) == Updated(s, FALSE)
AddSubtype(s) == Updated(s, FALSE)
UpdateSubtypes(s) == Updated(s, FALSE)

(* mdns_service_subtype_remove sends its goodbye at once, that is all. *)
RemoveSubtype(s) == s \in net.services /\ Asked(net)

(* mdns_service_instance_name_set *)
NameInstance(s) ==
    /\ s \in net.services
    /\ Asked(ProbeAll(Renamed([net EXCEPT !.own = @ \cup {s}], {s}), {s}, FALSE, FALSE))

-----------------------------------------------------------------------------
(* What comes (mdns_receive.c): a question about a service or the host, or  *)
(* a record about one of ours; `claims` when it comes in a probe or in an   *)
(* announcement.  What comes before the others is not kept, and nothing of  *)
(* our own (the interface is compared with the sender).                     *)

Packet(p, what, s, claims) == [type |-> "rx", pcb |-> p, what |-> what, of |-> s, claims |-> claims]

PacketComes(p, what, s, claims) ==
    /\ net.pcb[p].ready /\ HasRoom /\ s \in net.services \cup {None}
    /\ actions' = Queued(actions, Packet(p, what, s, claims))
    /\ Spend("packets", MaxPackets)
    /\ UNCHANGED <<hand, lock, net, linked, sema, caller>>

(* is_ours, for a service that is listed, and for the host with None. *)
IsOurs(n, s) == n.host /\ s \in n.services \cup {None}

(* mdns_priv_create_answer_from_parsed_packet: what others may answer too   *)
(* waits a little, the rest is answered at once.                            *)
Reply(n, p, s) ==
    [Blank(n, p) EXCEPT !.answers = {s} \ {None}, !.ip = s # None, !.addrs = s = None]

Asks(n, p, s) ==
    IF IsOurs(n, s) /\ n.pcb[p].state \in AfterProbing
    THEN {n, SendLater(n, Reply(n, p, s))} ELSE {n}

(* The record's data are the same as ours, or one of both is greater: -1    *)
(* when we win, 1 when they do (check_srv_collision, check_txt_collision,   *)
(* check_a_collision).                                                      *)
Verdicts == {-1, 0, 1}

(* mangle_name: the next name is another one, which nobody has probed yet. *)
NewHostname(n) == RestartAll(Renamed(n, n.services))

(* A SRV record that wins over ours takes the name, while it is probed. *)
OnSrv(n, p, s, claims, verdict) ==
    IF ~IsOurs(n, s) \/ ~claims \/ verdict # 1 THEN n
    ELSE IF ~n.pcb[p].running THEN InitProbe(n, p, {s}, FALSE)
    ELSE IF s \in n.own THEN ProbeAll(Renamed(n, {s}), {s}, FALSE, FALSE)
    ELSE IF n.instance THEN NewInstance(n)
    ELSE NewHostname(n)

(* With a TXT record that differs, whoever wins, the service is probed. *)
OnTxt(n, p, s, verdict) ==
    IF IsOurs(n, s) /\ verdict # 0 /\ ~n.pcb[p].running THEN InitProbe(n, p, {s}, TRUE) ELSE n

(* An A or AAAA record of our hostname with a greater address. *)
OnAddress(n, p, claims, verdict) ==
    IF ~IsOurs(n, None) \/ verdict # 1 THEN n
    ELSE IF ~n.pcb[p].running THEN InitProbe(n, p, {}, TRUE)
    ELSE IF claims THEN NewHostname(n) ELSE n

ExecuteRx ==
    /\ Runs("rx")
    /\ \/ hand.what = "question" /\ net' \in Asks(net, hand.pcb, hand.of)
       \/ \E verdict \in Verdicts :
             \/ hand.what = "srv" /\ net' = OnSrv(net, hand.pcb, hand.of, hand.claims, verdict)
             \/ hand.what = "txt" /\ net' = OnTxt(net, hand.pcb, hand.of, verdict)
             \/ hand.what = "address" /\ net' = OnAddress(net, hand.pcb, hand.claims, verdict)
    /\ Done /\ UNCHANGED <<linked, sema, caller, spent>>

-----------------------------------------------------------------------------
Program ==
    \/ SetInstance \/ RemoveAll
    \/ \E c \in Callers : SetHostname(c)
    \/ \E s \in Services :
          \/ RemoveService(s) \/ NameInstance(s)
          \/ \E named \in BOOLEAN : Add(s, named)
          \/ SetPort(s) \/ SetTxt(s) \/ SetTxtItem(s) \/ RemoveTxtItem(s)
          \/ AddSubtype(s) \/ RemoveSubtype(s) \/ UpdateSubtypes(s)

Network ==
    \/ GotIp \/ GotIp6 \/ Disconnected
    \/ \E p \in Pcbs :
          \/ \E s \in Services : \E what \in {"question", "txt"} : PacketComes(p, what, s, FALSE)
          \/ PacketComes(p, "question", None, FALSE)
          \/ \E claims \in BOOLEAN :
                \/ \E s \in Services : PacketComes(p, "srv", s, claims)
                \/ PacketComes(p, "address", None, claims)

Execute == ExecuteEvent \/ ExecuteHostname \/ ExecuteInstance \/ ExecuteRx \/ ExecuteTx

ResponderNext ==
    \/ Program \/ Network \/ Execute \/ TimerQueues \/ TimerEnds
    \/ Receive /\ UNCHANGED responderVars
    \/ \E c \in Callers : CallerReturns(c)

(* The task and the timer run again and again, each gets the lock in time,  *)
(* the task does not wait for each action until the timer has the lock, and *)
(* the timer does not find the queue full each time it starts.              *)
ResponderFairness ==
    /\ SF_<<queueVars, responderVars>>(lock = 0 /\ Receive /\ UNCHANGED responderVars)
    /\ SF_<<queueVars, responderVars>>(Execute)
    /\ SF_<<queueVars, responderVars>>(lock = 0 /\ HasRoom /\ TimerQueues)
    /\ WF_<<queueVars, responderVars>>(lock # 0 /\ (TimerQueues \/ TimerEnds))

ResponderSpec ==
    /\ ResponderInit
    /\ [][ResponderNext]_<<queueVars, responderVars>>
    /\ ResponderFairness

-----------------------------------------------------------------------------
PacketsOf(p) == {k \in Scheduled(net) : k.pcb = p}

(* A pcb that probes or announces has the packet scheduled that will move   *)
(* it on, and while it probes that packet asks for exactly what is probed:  *)
(* no restart, conflict, removal or announcement leaves it waiting for a    *)
(* packet that was freed (mdns_pcb.c, mdns_send.c).                         *)
BusyHasItsPacket ==
    \A p \in Pcbs : net.pcb[p].ready =>
        /\ net.pcb[p].state \in ProbeStates =>
              \E k \in PacketsOf(p) :
                  /\ PacketsOf(p) = {k}
                  /\ k.asks = net.pcb[p].probing /\ k.servers = net.pcb[p].probing
                  /\ k.ip = net.pcb[p].ip
        /\ net.pcb[p].state \in AnnounceStates => PacketsOf(p) # {}

(* A service that goes by the name of the device is answered for on an      *)
(* interface only after its present name was probed there to the end        *)
(* (mdns_priv_pcb_is_after_probing is all that an answer waits for).        *)
OnlyProbedIsAnswered ==
    \A p \in Pcbs : net.pcb[p].ready /\ net.host /\ net.pcb[p].state \in AfterProbing =>
        net.services \ net.own \subseteq net.won[p]

(* An interface that is up comes to the end of probing and announcing, once *)
(* nothing disturbs it any more: no packet gets lost on its way through the *)
(* transmit queue, the timer and the action queue.                          *)
Settles ==
    \A p \in Pcbs :
        net.pcb[p].ready ~> (net.pcb[p].state = "RUNNING" \/ ~net.pcb[p].ready)
=============================================================================
