-------------------------------- MODULE Dht11 --------------------------------
(***************************************************************************)
(* The sensor history of async-web-server/main/dht11/dht11.c: a ring that  *)
(* dht11_task writes every 8 s, and that the HTTP server's task copies,    *)
(* for a snapshot or for GET /api/metrics, without any lock.  A reading is *)
(* its place in the sequence of readings, 0 what the ring is zeroed with.  *)
(***************************************************************************)
EXTENDS Integers, Sequences

CONSTANTS
    BufferSize,     \* DHT11_BUFFER_SIZE, 30 in the code
    MaxReadings     \* bound on the readings taken

ASSUME DhtAssumption ==
    BufferSize \in Nat \ {0} /\ MaxReadings \in Nat

VARIABLES
    temperature, humidity,  \* the fields of buffer.readings
    head, count,            \* buffer.head and buffer.count
    sampler,                \* where dht11_task is
    taken,                  \* readings begun so far
    server,                 \* where the server's task is
    toRead, got,            \* locals of dht11_get_history
    out,                    \* buffer_out, temperature and humidity
    undisturbed             \* nothing was stored since the copy began

ring == <<temperature, humidity, head, count>>
reader == <<server, toRead, got, out>>
dhtVars == <<ring, sampler, taken, reader, undisturbed>>

Slots == 0 .. BufferSize - 1

DhtInit ==
    /\ temperature = [s \in Slots |-> 0] /\ humidity = [s \in Slots |-> 0]
    /\ head = 0 /\ count = 0
    /\ sampler = "sleep" /\ taken = 0
    /\ server = "idle" /\ toRead = 0 /\ got = 0 /\ out = << >>
    /\ undisturbed = TRUE

-----------------------------------------------------------------------------
(* The slot of the i-th reading of a copy, i from 0.                       *)

(* A variant with a plausible bug: head taken for the newest reading.      *)
Index_HeadIsNewest(h, c, n, i) == (h + c + BufferSize - 1 - n + i) % BufferSize

Index(h, c, n, i) == (h + c - n + i) % BufferSize

-----------------------------------------------------------------------------
(* dht11_task.  A sensor that fails three times in a row leaves everything *)
(* as it is.                                                               *)

StoreTemperature ==
    /\ sampler = "sleep" /\ sampler' = "humidity"
    /\ taken < MaxReadings
    /\ taken' = taken + 1
    /\ temperature' = [temperature EXCEPT ![head] = taken + 1]
    /\ undisturbed' = FALSE
    /\ UNCHANGED <<humidity, head, count, reader>>

StoreHumidity ==
    /\ sampler = "humidity" /\ sampler' = "head"
    /\ humidity' = [humidity EXCEPT ![head] = taken]
    /\ undisturbed' = FALSE
    /\ UNCHANGED <<temperature, head, count, taken, reader>>

AdvanceHead ==
    /\ sampler = "head" /\ sampler' = "count"
    /\ head' = (head + 1) % BufferSize
    /\ undisturbed' = FALSE
    /\ UNCHANGED <<temperature, humidity, count, taken, reader>>

CountReading ==
    /\ sampler = "count" /\ sampler' = "sleep"
    /\ count' = IF count < BufferSize THEN count + 1 ELSE count
    /\ undisturbed' = FALSE
    /\ UNCHANGED <<temperature, humidity, head, taken, reader>>

-----------------------------------------------------------------------------
(* dht11_get_history, called with max_count = DHT11_BUFFER_SIZE.           *)

BeginCopy ==
    /\ server = "idle" /\ server' = "temperature"
    /\ toRead' = count
    /\ got' = 0 /\ out' = << >>
    /\ undisturbed' = (sampler = "sleep")
    /\ UNCHANGED <<ring, sampler, taken>>

(* head and count are read again for every reading.                        *)
CopyTemperature ==
    /\ server = "temperature" /\ got < toRead
    /\ server' = "humidity"
    /\ out' = Append(out, <<temperature[Index(head, count, toRead, got)], 0>>)
    /\ UNCHANGED <<ring, sampler, taken, toRead, got, undisturbed>>

CopyHumidity ==
    /\ server = "humidity" /\ server' = "temperature"
    /\ out' = [out EXCEPT ![got + 1][2] = humidity[Index(head, count, toRead, got)]]
    /\ got' = got + 1
    /\ UNCHANGED <<ring, sampler, taken, toRead, undisturbed>>

EndCopy ==
    /\ server = "temperature" /\ got = toRead
    /\ server' = "idle"
    /\ UNCHANGED <<ring, sampler, taken, toRead, got, out, undisturbed>>

-----------------------------------------------------------------------------
Sample == StoreTemperature \/ StoreHumidity \/ AdvanceHead \/ CountReading
GetHistory == BeginCopy \/ CopyTemperature \/ CopyHumidity \/ EndCopy

DhtSpec == DhtInit /\ [][Sample \/ GetHistory]_dhtVars

-----------------------------------------------------------------------------
(* What a copy that nothing disturbed should be: the last n readings, the  *)
(* oldest first.                                                           *)
Latest(n) == [i \in 1 .. n |-> <<taken - n + i, taken - n + i>>]

Copied == server = "temperature" /\ got = toRead

(* Types.  The copy fits the caller's array, and once the ring is full the *)
(* count stays.                                                            *)
DhtTypeOK ==
    /\ temperature \in [Slots -> 0 .. MaxReadings]
    /\ humidity \in [Slots -> 0 .. MaxReadings]
    /\ head \in Slots /\ count \in 0 .. BufferSize
    /\ sampler \in {"sleep", "humidity", "head", "count"}
    /\ taken \in 0 .. MaxReadings
    /\ server \in {"idle", "temperature", "humidity"}
    /\ toRead \in 0 .. BufferSize /\ got \in 0 .. toRead
    /\ Len(out) \in {got, got + 1} /\ Len(out) <= BufferSize

(* From the 30th reading on, a copy that no reading overlaps is the last   *)
(* 30 readings in the order they were taken.                               *)
HistoryWhenFull ==
    Copied /\ undisturbed /\ toRead = BufferSize => out = Latest(BufferSize)

=============================================================================
