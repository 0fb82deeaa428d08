------------------------------- MODULE MCWifi -------------------------------
(***************************************************************************)
(* How the two firmwares come by their network: the web server with        *)
(* esp_wifi_manager, its station and its lists with their copy in flash,   *)
(* and the gateway with its start-up.  The station only reads how many     *)
(* networks there are when it starts a round, and the gateway is another   *)
(* device, so that TLC runs one part at a time: the others rest.           *)
(***************************************************************************)
EXTENDS WifiManager, WifiStore, Startup

VARIABLE part
networkVars == <<part, wifiVars, storeVars, startupVars>>

OneNetwork == <<"home">>
OneDefault == [l \in Lists |-> <<[key |-> CHOOSE k \in Keys : TRUE, value |-> 0]>>]
Conf(r, p, i, s) ==
    [autoReconnect |-> r, portal |-> p, apOnInit |-> i, stopApOnConnect |-> s]
WebServerConf == Conf(FALSE, TRUE, FALSE, FALSE)
SomeConfs == {WebServerConf, Conf(TRUE, TRUE, FALSE, TRUE), Conf(TRUE, FALSE, TRUE, TRUE)}

(* Bound: nothing is asked of the manager once its queue was full. *)
NothingLost == ~lost

(* The gateway's subnet: somebody, the gateway, the broker; the default     *)
(* address is that of a machine elsewhere.                                 *)
ThreeHosts == <<"other", "self", "broker">>

NetworkInit ==
    /\ part \in {"manager", "store", "gateway"}
    /\ WifiInit /\ StoreInit /\ StartupInit
    /\ part # "manager" => conf = WebServerConf
    /\ part # "gateway" => beacon /\ port["broker"] = "broker" /\ "silent" \notin {port[a] : a \in {"other", "default"}}

NetworkNext ==
    /\ UNCHANGED part
    /\ \/ part = "manager" /\ WifiNext
       \/ part # "manager" /\ UNCHANGED wifiVars
    /\ \/ part = "store" /\ StoreNext
       \/ part # "store" /\ UNCHANGED storeVars
    /\ \/ part = "gateway" /\ StartupNext
       \/ part # "gateway" /\ UNCHANGED startupVars

(* WifiFairness and the fairness of StartupSpec, for the part that runs. *)
NetworkSpec ==
    /\ NetworkInit /\ [][NetworkNext]_networkVars
    /\ WF_wifiVars(part = "manager" /\ (Joins \/ GetsAddress))
    /\ WF_wifiVars(part = "manager" /\ HandleEvent)
    /\ WF_wifiVars(part = "manager" /\ ManagerTask)
    /\ WF_startupVars(part = "gateway" /\ Manager)
=============================================================================
