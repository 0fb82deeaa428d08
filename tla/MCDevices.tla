------------------------------ MODULE MCDevices ------------------------------
(***************************************************************************)
(* The parts of the web server's firmware that keep a state of their own:  *)
(* LED, button and wildcards of the event bus, the sensor's history and    *)
(* the registry of WebSocket clients.  None of them reads the state of     *)
(* another, so that TLC runs one of them at a time.                        *)
(***************************************************************************)
EXTENDS BusLed, BusButton, BusPattern, Dht11, WsClients

VARIABLE part
devicesVars == <<part, ledVars, buttonVars, patternVars, dhtVars, wsVars>>

AskSome == {-1, 0, 1, 3}

DevicesInit ==
    /\ part \in {"led", "button", "pattern", "history", "page"}
    /\ LedInit /\ ButtonInit /\ PatternInit /\ DhtInit /\ WsInit
    /\ part # "button" => now = 1 /\ pin

DevicesNext ==
    /\ UNCHANGED part
    /\ \/ part = "led" /\ LedNext
       \/ part # "led" /\ UNCHANGED ledVars
    /\ \/ part = "button" /\ ButtonNext
       \/ part # "button" /\ UNCHANGED buttonVars
    /\ \/ part = "pattern" /\ PatternNext
       \/ part # "pattern" /\ UNCHANGED patternVars
    /\ \/ part = "history" /\ (Sample \/ GetHistory)
       \/ part # "history" /\ UNCHANGED dhtVars
    /\ \/ part = "page" /\ WsNext
       \/ part # "page" /\ UNCHANGED wsVars

DevicesSpec == DevicesInit /\ [][DevicesNext]_devicesVars
=============================================================================
