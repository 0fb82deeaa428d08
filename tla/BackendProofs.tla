---------------------------- MODULE BackendProofs -----------------------------
(***************************************************************************)
(* Proofs about what runs behind the broker: the Telegram bot, the fence   *)
(* of Node-RED and its editor, and the dashboard's polling. None of the    *)
(* three reads the state of another, so that each has an inductive         *)
(* invariant of its own.                                                   *)
(***************************************************************************)
EXTENDS AlertBot, FenceEditor, Telemetry, FiniteSetTheorems, SequenceTheorems, TLAPS

(***************************************************************************)
(* The Telegram bot. Every message that tells the state of a collar's      *)
(* alerts is made from the state itself, in the step that sends it or that *)
(* changes the state; whom it goes to, and about which collar, comes from  *)
(* variables that another question may have changed, and that the state    *)
(* told is right whatever these hold is what the proof shows.              *)
(***************************************************************************)

(* What an operator was told is a state of the alerts, of every collar.    *)
Tellable ==
    /\ told \in [Devices -> State]
    /\ restarts \in Nat

BotInv == Tellable /\ ToldIsTrue

-----------------------------------------------------------------------------
LEMMA InitBot == BotInit => BotInv
BY DEF BotInit, BotInv, Tellable, ToldIsTrue, Status, State

(* A step that tells nothing, and changes no collar's alerts.              *)
LEMMA SilentStep ==
    ASSUME BotInv, UNCHANGED <<muted, told, restarts>>
    PROVE  BotInv'
BY DEF BotInv, Tellable, ToldIsTrue, Status

LEMMA SetTells ==
    ASSUME BotInv, NEW c, NEW d, NEW state \in State, Set(c, d, state)
    PROVE  BotInv'
<1>1. /\ muted' = IF state = "silenced" THEN muted \cup {d} ELSE muted \ {d}
      /\ told' = [told EXCEPT ![d] = state]
      /\ restarts' = restarts
  BY DEF Set
<1>2. Tellable'
  BY <1>1 DEF BotInv, Tellable
<1>3. ASSUME restarts' = 0, NEW e \in Devices
      PROVE  told'[e] = Status(e)'
  <2>1. told[e] = Status(e) /\ told \in [Devices -> State]
    BY <1>1, <1>3 DEF BotInv, Tellable, ToldIsTrue
  <2>2. CASE e = d
    <3>1. told'[e] = state
      BY <1>1, <2>1, <2>2
    <3>2. QED
      BY <1>1, <2>2, <3>1 DEF Status, State
  <2>3. CASE e # d
    <3>1. told'[e] = told[e]
      BY <1>1, <2>1, <2>3
    <3>2. e \in muted' <=> e \in muted
      BY <1>1, <2>3
    <3>3. QED
      BY <2>1, <3>1, <3>2 DEF Status
  <2>4. QED
    BY <2>2, <2>3
<1>4. QED
  BY <1>2, <1>3 DEF BotInv, ToldIsTrue

LEMMA MenuTells ==
    ASSUME BotInv, NEW i, AnswerMenu(i)
    PROVE  BotInv'
<1>1. /\ told' = [d \in Devices |-> Status(d)]
      /\ muted' = muted /\ restarts' = restarts
  BY DEF AnswerMenu, botBounds
<1>2. QED
  BY <1>1 DEF BotInv, Tellable, ToldIsTrue, Status, State

(* The collar that detalle names may be another than the one asked about,  *)
(* or none, after a restart.                                               *)
LEMMA DetailTells ==
    ASSUME BotInv, NEW i, AnswerDetail(i)
    PROVE  BotInv'
<1>1. /\ told' = [told EXCEPT ![detalle.device] = Status(detalle.device)]
      /\ muted' = muted /\ restarts' = restarts
  BY DEF AnswerDetail, botBounds
<1>2. Status(detalle.device) \in State
  BY DEF Status, State
<1>3. QED
  BY <1>1, <1>2 DEF BotInv, Tellable, ToldIsTrue, Status

(* After a restart all collars' alerts are active, whatever was told.      *)
LEMMA RestartTells ==
    ASSUME BotInv, Restart
    PROVE  BotInv'
<1>1. told' = told /\ restarts' = restarts + 1
  BY DEF Restart, history
<1>2. restarts' \in Nat /\ restarts' # 0
  BY <1>1 DEF BotInv, Tellable
<1>3. QED
  BY <1>1, <1>2 DEF BotInv, Tellable, ToldIsTrue

LEMMA NextBot == BotInv /\ [BotNext]_botVars => BotInv'
<1> SUFFICES ASSUME BotInv, [BotNext]_botVars PROVE BotInv'
  OBVIOUS
<1>1. ASSUME NEW d \in Devices, Report(d) PROVE BotInv'
  BY <1>1, SilentStep DEF Report, history, botBounds
<1>2. CASE Tick
  BY <1>2, SilentStep DEF Tick, history, botBounds
<1>3. CASE Poll
  BY <1>3, SilentStep DEF Poll, botBounds
<1>4. ASSUME NEW i \in 1 .. MaxQueries,
             AnswerPoll(i) \/ AnswerModules(i) \/ AnswerMenu(i) \/ AnswerDetail(i)
      PROVE  BotInv'
  <2>1. CASE AnswerPoll(i)
    BY <2>1, SilentStep DEF AnswerPoll, botBounds
  <2>2. CASE AnswerModules(i)
    BY <2>2, SilentStep DEF AnswerModules, botBounds
  <2>3. CASE AnswerMenu(i)
    BY <2>3, MenuTells
  <2>4. CASE AnswerDetail(i)
    BY <2>4, DetailTells
  <2>5. QED
    BY <1>4, <2>1, <2>2, <2>3, <2>4
<1>5. ASSUME NEW c \in Chats, Operator(c) PROVE BotInv'
  <2>1. CASE AskModules(c)
    BY <2>1, SilentStep DEF AskModules, history
  <2>2. CASE AskMenu(c)
    BY <2>2, SilentStep DEF AskMenu, history
  <2>3. CASE PressToggle(c)
    BY <2>3, SetTells DEF PressToggle, State
  <2>4. ASSUME NEW d \in Devices, PressDetail(c, d) PROVE BotInv'
    BY <2>4, SilentStep DEF PressDetail, history
  <2>5. ASSUME NEW d \in Devices, NEW state \in State, Set(c, d, state) PROVE BotInv'
    BY <2>5, SetTells
  <2>6. QED
    BY <1>5, <2>1, <2>2, <2>3, <2>4, <2>5 DEF Operator
<1>6. CASE Restart
  BY <1>6, RestartTells
<1>7. CASE UNCHANGED botVars
  BY <1>7, SilentStep DEF botVars, history, botBounds
<1>8. QED
  BY <1>1, <1>2, <1>3, <1>4, <1>5, <1>6, <1>7 DEF BotNext, SomeAnswer

(* Until Node-RED is restarted, what the operators were last told of a     *)
(* collar's alerts is how they are, with any number of chats and collars,  *)
(* and any number of questions waiting for the database.                   *)
THEOREM OperatorsAreToldTheTruth == BotSpec => []ToldIsTrue
<1>1. BotInv => ToldIsTrue
  BY DEF BotInv
<1>2. QED
  BY <1>1, InitBot, NextBot, PTL DEF BotSpec

-----------------------------------------------------------------------------
(***************************************************************************)
(* The fence in the backend and on the dashboard. A fence lives in five    *)
(* places: two contexts of Node-RED, which a restart empties, the          *)
(* database, the broker, and the page. Nothing but the writes under way    *)
(* connects the first with the third, and nothing but the messages under   *)
(* way the second with the fourth; the invariant says what these have in   *)
(* common at every moment.                                                 *)
(***************************************************************************)

(* Nothing is anywhere before the first fence is posted.                   *)
NeverPosted ==
    acked = 0 => vertices = 0 /\ stored = 0 /\ restore.row = 0 /\ writes = << >>

(* Until a restore is over, memory has no vertices and nothing is written, *)
(* if the last fence was not posted meanwhile.                             *)
Restoring ==
    ~early /\ restore.at # "done" =>
        /\ vertices = 0 /\ writes = << >>
        /\ restore.at = "read" => restore.row = stored

(* After it, the vertices are the database's, or the last ones posted.     *)
Restored ==
    ~early /\ restore.at = "done" =>
        \/ vertices = acked
        \/ vertices = stored /\ writes = << >>

(* The box that the bot uses when it has read what the broker sent.        *)
BoxToCome == IF incoming = << >> THEN botBox ELSE incoming[Len(incoming)]

Returned ==
    retained["fence_update"] = 0 => BoxToCome = retained["config_update"]

(* What differs from the vertices came from the broker.                    *)
BotFirst == botBox = 0 => box = vertices

StoreInv ==
    /\ StoreTypeOK
    /\ NeverPosted /\ Restoring /\ Restored /\ Returned /\ BotFirst

(* The fence asked to be saved is one that was shown.                      *)
Saving == save.at # "idle" => save.fence # 0

(* A page just loaded has nothing to save, and the database keeps still    *)
(* until it shows what it read there.                                      *)
Loading ==
    fresh =>
        /\ save.at = "idle" /\ writes = << >>
        /\ load.at # "idle" => shown = Drawn
        /\ load.at = "read" => load.fence = stored

EditorInv ==
    /\ StoreInv
    /\ EditorTypeOK
    /\ Saving /\ Loading /\ ShowsSaved

-----------------------------------------------------------------------------
(* What the operators on sequences keep.                                   *)
LEMMA RemovedIsSeq ==
    ASSUME NEW S, NEW s \in Seq(S), NEW i \in DOMAIN s
    PROVE  RemoveAt(s, i) \in Seq(S)
<1>1. i \in 1 .. Len(s) /\ Len(s) \in Nat
  OBVIOUS
<1>2. SubSeq(s, 1, i - 1) \in Seq(S) /\ SubSeq(s, i + 1, Len(s)) \in Seq(S)
  BY <1>1
<1>3. QED
  BY <1>2 DEF RemoveAt

LEMMA FunctionIsSeq ==
    ASSUME NEW S, NEW n \in Nat, NEW f \in [1 .. n -> S]
    PROVE  f \in Seq(S) /\ Len(f) = n
<1>1. f \in Seq(S)
  OBVIOUS
<1>2. Len(f) \in Nat /\ DOMAIN f = 1 .. Len(f)
  BY <1>1, LenProperties
<1>3. 1 .. n = 1 .. Len(f)
  BY <1>2
<1>4. QED
  BY <1>1, <1>2, <1>3

LEMMA InitStore == StoreInit => StoreInv
<1> SUFFICES ASSUME StoreInit PROVE StoreInv
  OBVIOUS
<1>1. StoreTypeOK
  <2>1. 0 \in Fence /\ 0 \in 0 .. MaxTroubles
    BY FenceStoreAssumption DEF Fence
  <2>2. writes \in Seq(Fence \ {0}) /\ incoming \in Seq(Fence \ {0})
    BY DEF StoreInit
  <2>3. outgoing \in Seq(Topics \X (Fence \ {0}))
    BY DEF StoreInit
  <2>4. QED
    BY <2>1, <2>2, <2>3 DEF StoreInit, StoreTypeOK
<1>2. NeverPosted /\ Restoring /\ Restored /\ Returned /\ BotFirst
  BY DEF StoreInit, NeverPosted, Restoring, Restored, Returned, BoxToCome, BotFirst, Topics
<1>3. QED
  BY <1>1, <1>2 DEF StoreInv

-----------------------------------------------------------------------------
(* What StoreInv is about is a part of the variables only.                 *)
storeState == <<vertices, box, botBox, restore, writes, outgoing, incoming,
                stored, retained, acked, latest, early, failed, troubles>>

LEMMA StoreStutters ==
    ASSUME StoreInv, UNCHANGED storeState
    PROVE  StoreInv'
BY DEF StoreInv, storeState, StoreTypeOK, NeverPosted, Restoring, Restored,
       Returned, BoxToCome, BotFirst

LEMMA TroubleCounts ==
    ASSUME StoreTypeOK, Trouble
    PROVE  troubles' \in 0 .. MaxTroubles
BY FenceStoreAssumption DEF StoreTypeOK, Trouble

LEMMA PostKeeps ==
    ASSUME StoreInv, NEW f \in Fence \ {0}, Post(f)
    PROVE  StoreInv'
<1>1. /\ vertices' = f /\ box' = f /\ acked' = f /\ latest' = f
      /\ writes' = Append(writes, f)
      /\ outgoing' = Append(outgoing, <<"config_update", f>>)
      /\ early' = (restore.at # "done")
      /\ botBox' = botBox /\ restore' = restore /\ incoming' = incoming
      /\ stored' = stored /\ retained' = retained
      /\ troubles' = troubles /\ failed' = failed
  BY DEF Post, outsiders
<1>2. <<"config_update", f>> \in Topics \X (Fence \ {0})
  BY DEF Topics
<1>3. StoreTypeOK'
  BY <1>1, <1>2 DEF StoreInv, StoreTypeOK
<1>4. NeverPosted' /\ Restoring' /\ Restored'
  BY <1>1 DEF NeverPosted, Restoring, Restored
<1>5. Returned' /\ BotFirst'
  BY <1>1 DEF StoreInv, Returned, BoxToCome, BotFirst
<1>6. QED
  BY <1>3, <1>4, <1>5 DEF StoreInv

LEMMA PanelKeeps ==
    ASSUME StoreInv, NEW f \in Fence \ {0}, PressPanel(f)
    PROVE  StoreInv'
<1>1. /\ outgoing' = Append(outgoing, <<"fence_update", f>>) /\ latest' = f
      /\ vertices' = vertices /\ box' = box /\ botBox' = botBox
      /\ restore' = restore /\ writes' = writes /\ incoming' = incoming
      /\ stored' = stored /\ retained' = retained
      /\ acked' = acked /\ early' = early
      /\ troubles' = troubles /\ failed' = failed
  BY DEF PressPanel, outsiders, memory
<1>2. <<"fence_update", f>> \in Topics \X (Fence \ {0})
  BY DEF Topics
<1>3. StoreTypeOK'
  BY <1>1, <1>2 DEF StoreInv, StoreTypeOK
<1>4. NeverPosted' /\ Restoring' /\ Restored' /\ Returned' /\ BotFirst'
  BY <1>1 DEF StoreInv, NeverPosted, Restoring, Restored, Returned, BoxToCome, BotFirst
<1>5. QED
  BY <1>3, <1>4 DEF StoreInv

LEMMA WriteEndKeeps ==
    ASSUME StoreInv, WriteEnds
    PROVE  StoreInv'
<1>1. PICK i \in DOMAIN writes :
        stored' = writes[i] /\ writes' = RemoveAt(writes, i)
  BY DEF WriteEnds
<1>2. UNCHANGED <<vertices, box, botBox, restore, outgoing, incoming, retained,
                  acked, latest, early, failed, troubles>>
  BY DEF WriteEnds, memory, orders
<1>3. writes' \in Seq(Fence \ {0}) /\ stored' \in Fence /\ writes # << >>
  BY <1>1, RemovedIsSeq DEF StoreInv, StoreTypeOK
<1>4. StoreTypeOK'
  BY <1>2, <1>3 DEF StoreInv, StoreTypeOK
<1>5. NeverPosted' /\ Restoring' /\ Restored'
  BY <1>2, <1>3 DEF StoreInv, NeverPosted, Restoring, Restored
<1>6. Returned' /\ BotFirst'
  BY <1>2 DEF StoreInv, Returned, BoxToCome, BotFirst
<1>7. QED
  BY <1>4, <1>5, <1>6 DEF StoreInv

LEMMA WriteFailKeeps ==
    ASSUME StoreInv, WriteFails
    PROVE  StoreInv'
<1>1. PICK i \in DOMAIN writes : writes' = RemoveAt(writes, i)
  BY DEF WriteFails
<1>2. /\ UNCHANGED <<vertices, box, botBox, restore, outgoing, incoming, stored,
                     retained, acked, latest, early>>
      /\ Trouble /\ failed' = TRUE
  BY DEF WriteFails, memory, orders, outsiders
<1>3. writes' \in Seq(Fence \ {0}) /\ writes # << >>
  BY <1>1, RemovedIsSeq DEF StoreInv, StoreTypeOK
<1>4. StoreTypeOK'
  BY <1>2, <1>3, TroubleCounts DEF StoreInv, StoreTypeOK
<1>5. NeverPosted' /\ Restoring' /\ Restored'
  BY <1>2, <1>3 DEF StoreInv, NeverPosted, Restoring, Restored
<1>6. Returned' /\ BotFirst'
  BY <1>2 DEF StoreInv, Returned, BoxToCome, BotFirst
<1>7. QED
  BY <1>4, <1>5, <1>6 DEF StoreInv

(* The broker passes on what it retains, so both change together.          *)
LEMMA PublishKeeps ==
    ASSUME StoreInv, PublishEnds
    PROVE  StoreInv'
<1> DEFINE sent == Head(outgoing)
<1>1. /\ outgoing # << >> /\ outgoing' = Tail(outgoing)
      /\ retained' = [retained EXCEPT ![sent[1]] = sent[2]]
      /\ incoming' = Append(incoming, sent[2])
  BY DEF PublishEnds
<1>2. UNCHANGED <<vertices, box, botBox, restore, writes, stored, acked, latest,
                  early, failed, troubles>>
  BY DEF PublishEnds, memory, orders
<1>3. /\ outgoing \in Seq(Topics \X (Fence \ {0}))
      /\ incoming \in Seq(Fence \ {0}) /\ retained \in [Topics -> Fence]
  BY DEF StoreInv, StoreTypeOK
<1>4. sent \in Topics \X (Fence \ {0})
  BY <1>1, <1>3
<1>5. sent[1] \in Topics /\ sent[2] \in Fence \ {0}
  BY <1>4
<1>6. outgoing' \in Seq(Topics \X (Fence \ {0}))
  BY <1>1, <1>3
<1>7. incoming' \in Seq(Fence \ {0}) /\ retained' \in [Topics -> Fence]
  BY <1>1, <1>3, <1>5
<1>8. StoreTypeOK'
  BY <1>2, <1>6, <1>7 DEF StoreInv, StoreTypeOK
<1>9. NeverPosted' /\ Restoring' /\ Restored' /\ BotFirst'
  BY <1>2 DEF StoreInv, NeverPosted, Restoring, Restored, BotFirst
<1>10. Returned'
  <2>1. BoxToCome' = sent[2]
    BY <1>1, <1>3, <1>5 DEF BoxToCome
  <2>2. CASE sent[1] = "fence_update"
    BY <1>1, <1>3, <1>5, <2>2 DEF Returned, Topics
  <2>3. CASE sent[1] = "config_update"
    BY <1>1, <1>3, <1>5, <2>1, <2>3 DEF Returned, Topics
  <2>4. QED
    BY <1>5, <2>2, <2>3 DEF Topics
<1>11. QED
  BY <1>8, <1>9, <1>10 DEF StoreInv

LEMMA PublishFailKeeps ==
    ASSUME StoreInv, PublishFails
    PROVE  StoreInv'
<1>1. /\ outgoing # << >> /\ outgoing' = Tail(outgoing)
      /\ Trouble /\ failed' = TRUE
      /\ UNCHANGED <<vertices, box, botBox, restore, writes, incoming, stored,
                     retained, acked, latest, early>>
  BY DEF PublishFails, memory, orders, outsiders
<1>2. outgoing' \in Seq(Topics \X (Fence \ {0}))
  BY <1>1 DEF StoreInv, StoreTypeOK
<1>3. StoreTypeOK'
  BY <1>1, <1>2, TroubleCounts DEF StoreInv, StoreTypeOK
<1>4. NeverPosted' /\ Restoring' /\ Restored' /\ Returned' /\ BotFirst'
  BY <1>1 DEF StoreInv, NeverPosted, Restoring, Restored, Returned, BoxToCome, BotFirst
<1>5. QED
  BY <1>3, <1>4 DEF StoreInv

LEMMA StoreFenceKeeps ==
    ASSUME StoreInv, StoreFence
    PROVE  StoreInv'
<1>1. /\ incoming # << >> /\ incoming' = Tail(incoming)
      /\ botBox' = Head(incoming) /\ box' = Head(incoming)
      /\ UNCHANGED <<vertices, restore, writes, outgoing, stored, retained,
                     acked, latest, early, failed, troubles>>
  BY DEF StoreFence, orders, outsiders
<1>2. incoming \in Seq(Fence \ {0})
  BY DEF StoreInv, StoreTypeOK
<1>3. /\ incoming' \in Seq(Fence \ {0}) /\ Head(incoming) \in Fence \ {0}
      /\ Len(incoming) \in Nat \ {0} /\ Len(incoming') = Len(incoming) - 1
  BY <1>1, <1>2
<1>4. StoreTypeOK'
  BY <1>1, <1>3 DEF StoreInv, StoreTypeOK
<1>5. NeverPosted' /\ Restoring' /\ Restored' /\ BotFirst'
  BY <1>1, <1>3 DEF StoreInv, NeverPosted, Restoring, Restored, BotFirst
<1>6. BoxToCome' = BoxToCome
  <2>1. CASE Len(incoming) = 1
    BY <1>1, <1>2, <1>3, <2>1 DEF BoxToCome
  <2>2. CASE Len(incoming) # 1
    <3>1. Len(incoming') \in 1 .. Len(incoming')
      BY <1>3, <2>2
    <3>2. incoming'[Len(incoming')] = incoming[Len(incoming)]
      BY <1>1, <1>2, <1>3, <3>1
    <3>3. incoming' # << >>
      BY <1>3, <3>1
    <3>4. QED
      BY <1>1, <3>2, <3>3 DEF BoxToCome
  <2>3. QED
    BY <2>1, <2>2
<1>7. Returned'
  BY <1>1, <1>6 DEF StoreInv, Returned
<1>8. QED
  BY <1>4, <1>5, <1>7 DEF StoreInv

-----------------------------------------------------------------------------
LEMMA ReadStoredKeeps ==
    ASSUME StoreInv, ReadStored
    PROVE  StoreInv'
<1>1. /\ restore.at = "waiting" /\ restore' = [at |-> "read", row |-> stored]
      /\ UNCHANGED <<vertices, box, botBox, writes, outgoing, incoming, stored,
                     retained, acked, latest, early, failed, troubles>>
  BY DEF ReadStored, memory, transit, orders, outsiders
<1>2. StoreTypeOK'
  BY <1>1 DEF StoreInv, StoreTypeOK
<1>3. NeverPosted' /\ Restoring' /\ Restored' /\ Returned' /\ BotFirst'
  BY <1>1 DEF StoreInv, NeverPosted, Restoring, Restored, Returned, BoxToCome, BotFirst
<1>4. QED
  BY <1>2, <1>3 DEF StoreInv

LEMMA RestoreKeeps ==
    ASSUME StoreInv, Restore
    PROVE  StoreInv'
<1>1. /\ restore.at = "read" /\ restore' = [at |-> "done", row |-> 0]
      /\ UNCHANGED <<botBox, writes, outgoing, incoming, stored, retained,
                     acked, latest, early, failed, troubles>>
      /\ \/ restore.row = 0 /\ vertices' = vertices /\ box' = box
         \/ restore.row # 0 /\ vertices' = restore.row /\ box' = restore.row
  BY DEF Restore, transit, orders, outsiders
<1>2. restore.row \in Fence
  BY DEF StoreInv, StoreTypeOK
<1>3. StoreTypeOK'
  BY <1>1, <1>2, FenceStoreAssumption DEF StoreInv, StoreTypeOK, Fence
<1>4. NeverPosted' /\ Restoring' /\ Restored' /\ BotFirst'
  BY <1>1 DEF StoreInv, NeverPosted, Restoring, Restored, BotFirst
<1>5. Returned'
  BY <1>1 DEF StoreInv, Returned, BoxToCome
<1>6. QED
  BY <1>3, <1>4, <1>5 DEF StoreInv

(* What the broker sends again ends with what it retains of the only topic *)
(* there is, if no panel was used.                                         *)
LEMMA RestartKeeps ==
    ASSUME StoreInv, RestartFlows
    PROVE  StoreInv'
<1> DEFINE T == { t \in Topics : retained[t] # 0 }
<1>1. /\ vertices' = 0 /\ box' = 0 /\ botBox' = 0
      /\ restore' = [at |-> "waiting", row |-> 0]
      /\ writes' = << >> /\ outgoing' = << >>
      /\ Trouble /\ failed' = TRUE /\ early' = FALSE
      /\ stored' \in {stored} \cup ToSet(writes)
      /\ UNCHANGED <<retained, acked, latest>>
  BY DEF RestartFlows
<1>2. PICK order \in SetToSeqs(T) :
        incoming' = [i \in DOMAIN order |-> retained[order[i]]]
  BY DEF RestartFlows
<1>3. order \in [1 .. Cardinality(T) -> T]
  BY <1>2 DEF SetToSeqs
<1>4. IsFiniteSet(T) /\ Cardinality(T) \in Nat
  <2>1. IsFiniteSet(Topics)
    <3>1. Topics = {"config_update"} \cup {"fence_update"}
      BY DEF Topics
    <3>2. IsFiniteSet({"config_update"})
      BY FS_Singleton
    <3>3. QED
      BY <3>1, <3>2, FS_AddElement
  <2>2. T \subseteq Topics
    OBVIOUS
  <2>3. QED
    BY <2>1, <2>2, FS_Subset, FS_CardinalityType
<1>5. DOMAIN order = 1 .. Cardinality(T) /\ \A i \in DOMAIN order : order[i] \in T
  BY <1>3
<1>6. \A t \in T : retained[t] \in Fence \ {0}
  BY DEF StoreInv, StoreTypeOK
<1>7. incoming' \in Seq(Fence \ {0}) /\ Len(incoming') = Cardinality(T)
  <2>1. incoming' \in [1 .. Cardinality(T) -> Fence \ {0}]
    BY <1>2, <1>5, <1>6
  <2>2. QED
    BY <1>4, <2>1, FunctionIsSeq
<1>8. stored' \in Fence
  <2>1. ToSet(writes) \subseteq Fence
    BY DEF ToSet, StoreInv, StoreTypeOK
  <2>2. QED
    BY <1>1, <2>1 DEF StoreInv, StoreTypeOK
<1>9. StoreTypeOK'
  <2>1. 0 \in Fence
    BY FenceStoreAssumption DEF Fence
  <2>2. writes' \in Seq(Fence \ {0}) /\ outgoing' \in Seq(Topics \X (Fence \ {0}))
    BY <1>1
  <2>3. QED
    BY <1>1, <1>7, <1>8, <2>1, <2>2, TroubleCounts DEF StoreInv, StoreTypeOK
<1>10. NeverPosted' /\ Restoring' /\ Restored' /\ BotFirst'
  <2>1. acked = 0 => stored' = 0
    BY <1>1 DEF StoreInv, NeverPosted, ToSet
  <2>2. QED
    BY <1>1, <2>1 DEF NeverPosted, Restoring, Restored, BotFirst
<1>11. Returned'
  <2> SUFFICES ASSUME retained["fence_update"] = 0
               PROVE  BoxToCome' = retained["config_update"]
    BY <1>1 DEF Returned
  <2>1. CASE retained["config_update"] = 0
    <3>1. T = {}
      BY <2>1 DEF Topics
    <3>2. incoming' = << >>
      <4>1. Len(incoming') = 0
        BY <1>7, <3>1, FS_EmptySet
      <4>2. QED
        BY <1>7, <4>1
    <3>3. QED
      BY <1>1, <2>1, <3>2 DEF BoxToCome
  <2>2. CASE retained["config_update"] # 0
    <3>1. T = {"config_update"}
      BY <2>2 DEF Topics
    <3>2. Cardinality(T) = 1
      BY <3>1, FS_Singleton
    <3>3. DOMAIN order = 1 .. 1 /\ order[1] = "config_update"
      BY <1>5, <3>1, <3>2
    <3>4. Len(incoming') = 1 /\ incoming'[1] = retained["config_update"]
      BY <1>2, <1>7, <3>2, <3>3
    <3>5. incoming' # << >>
      BY <3>4
    <3>6. QED
      BY <3>4, <3>5 DEF BoxToCome
  <2>3. QED
    BY <2>1, <2>2
<1>12. QED
  BY <1>9, <1>10, <1>11 DEF StoreInv

-----------------------------------------------------------------------------
(* One step of the backend, classified once.                               *)
LEMMA BackendKeeps ==
    ASSUME StoreInv, Flows \/ WriteFails \/ PublishFails
    PROVE  StoreInv'
BY WriteEndKeeps, PublishKeeps, StoreFenceKeeps, ReadStoredKeeps, RestoreKeeps,
   WriteFailKeeps, PublishFailKeeps DEF Flows

(* The backend posts nothing, and where nothing is being written it leaves *)
(* the database alone.                                                     *)
LEMMA BackendIsQuiet ==
    ASSUME Flows \/ WriteFails \/ PublishFails
    PROVE  /\ acked' = acked
           /\ writes = << >> => writes' = << >> /\ stored' = stored
BY DEF Flows, WriteEnds, PublishEnds, StoreFence, ReadStored, Restore, WriteFails,
       PublishFails, memory, transit, orders, outsiders

LEMMA RestartIsQuiet ==
    ASSUME RestartFlows
    PROVE  /\ acked' = acked
           /\ writes = << >> => writes' = << >> /\ stored' = stored
BY DEF RestartFlows, ToSet

-----------------------------------------------------------------------------
LEMMA DrawnIsFence == Drawn \in Fence \ {0} /\ 0 \in Fence
BY FenceStoreAssumption DEF Drawn, Fence

LEMMA InitEditor == EditorInit => EditorInv
<1> SUFFICES ASSUME EditorInit PROVE EditorInv
  OBVIOUS
<1>1. StoreInv
  BY InitStore DEF EditorInit
<1>2. EditorTypeOK
  BY <1>1, DrawnIsFence, FenceEditorAssumption
  DEF EditorInit, EditorTypeOK, StoreInv, Idle, Sent
<1>3. Saving /\ Loading /\ ShowsSaved
  BY DEF EditorInit, StoreInit, Saving, Loading, ShowsSaved, Idle, Sent
<1>4. QED
  BY <1>1, <1>2, <1>3 DEF EditorInv

(* A request is answered, tried again, or given up.                        *)
LEMMA RetryIsRequest ==
    ASSUME NEW request, NEW f \in Fence
    PROVE  /\ Retry(request, f) \in [at : {"idle", "sent"}, try : 0 .. 2, fence : Fence]
           /\ Retry(request, f).at # "idle" => Retry(request, f).fence = f
           /\ Retry(request, f).at # "read"
           /\ Idle \in [at : {"idle", "sent"}, try : 0 .. 2, fence : Fence]
           /\ Idle.at = "idle"
           /\ Sent(1, f) = [at |-> "sent", try |-> 1, fence |-> f]
BY DrawnIsFence DEF Retry, Idle, Sent

(* The types of the page's own variables.                                  *)
PageTypeOK ==
    /\ shown \in Fence \ {0} /\ initial \in Fence \ {0} /\ shared \in BOOLEAN
    /\ load \in [at : {"idle", "sent", "read"}, try : 0 .. 2, fence : Fence]
    /\ save \in [at : {"idle", "sent", "posted"}, try : 0 .. 2, fence : Fence]
    /\ fences \in Fence \ {0}
    /\ saves \in 0 .. MaxSaves /\ reloads \in 0 .. MaxReloads
    /\ fresh \in BOOLEAN

LEMMA TypesAreParts == EditorTypeOK <=> StoreTypeOK /\ PageTypeOK
BY DEF EditorTypeOK, PageTypeOK

LEMMA PartsTogether ==
    ASSUME StoreInv', PageTypeOK', Saving', Loading', ShowsSaved'
    PROVE  EditorInv'
BY DEF EditorInv, StoreInv, EditorTypeOK, PageTypeOK

LEMMA ReloadKeeps ==
    ASSUME EditorInv, Reload
    PROVE  EditorInv'
<1>1. /\ UNCHANGED storeState
      /\ shown' = Drawn /\ initial' = Drawn /\ shared' = TRUE
      /\ load' = Sent(1, 0) /\ save' = Idle /\ fresh' = (writes = << >>)
      /\ reloads < MaxReloads /\ reloads' = reloads + 1
      /\ fences' = fences /\ saves' = saves
  BY DEF Reload, storeVars, store, storeState, memory, transit, orders, outsiders
<1>2. StoreInv'
  BY <1>1, StoreStutters DEF EditorInv
<1>3. PageTypeOK'
  BY <1>1, DrawnIsFence, FenceEditorAssumption, TypesAreParts
  DEF EditorInv, PageTypeOK, Sent, Idle
<1>4. Saving' /\ Loading' /\ ShowsSaved'
  <2>1. load'.at = "sent" /\ save'.at = "idle" /\ writes' = writes
    BY <1>1 DEF Sent, Idle, storeState
  <2>2. QED
    BY <1>1, <2>1 DEF Saving, Loading, ShowsSaved
<1>5. QED
  BY <1>2, <1>3, <1>4, PartsTogether

LEMMA AskKeeps ==
    ASSUME EditorInv, AskFence
    PROVE  EditorInv'
<1>1. /\ UNCHANGED storeState
      /\ load.at = "sent" /\ load' = [load EXCEPT !.at = "read", !.fence = stored]
      /\ UNCHANGED <<shown, initial, shared, save, fences, saves, reloads, fresh>>
  BY DEF AskFence, storeVars, store, storeState, memory, transit, orders, outsiders,
         page, pageBounds
<1>2. StoreInv'
  BY <1>1, StoreStutters DEF EditorInv
<1>3. stored \in Fence /\ PageTypeOK
  BY TypesAreParts DEF EditorInv, StoreTypeOK
<1>4. PageTypeOK'
  BY <1>1, <1>3 DEF PageTypeOK
<1>5. load'.at = "read" /\ load'.fence = stored
  BY <1>1, <1>3 DEF PageTypeOK
<1>6. Saving' /\ Loading' /\ ShowsSaved'
  BY <1>1, <1>5 DEF EditorInv, Saving, Loading, ShowsSaved, storeState
<1>7. QED
  BY <1>2, <1>4, <1>6, PartsTogether

(* The answer is what the database held when it was asked, which is what   *)
(* it holds; what memory has is shown only where the database is empty.    *)
LEMMA ShowKeeps ==
    ASSUME EditorInv, ShowLoaded
    PROVE  EditorInv'
<1>1. /\ UNCHANGED storeState
      /\ UNCHANGED <<initial, save, fences, saves, reloads, fresh>>
      /\ load.at = "read"
  BY DEF ShowLoaded, storeVars, store, storeState, memory, transit, orders, outsiders,
         page, pageBounds
<1>2. StoreInv'
  BY <1>1, StoreStutters DEF EditorInv
<1>3. PageTypeOK /\ vertices \in Fence /\ Found \in Fence
  BY TypesAreParts DEF EditorInv, StoreTypeOK, PageTypeOK, Found
<1>4. CASE Found = 0
  <2>1. load' = Retry(load, 0) /\ shown' = shown /\ shared' = shared
    BY <1>4 DEF ShowLoaded, page
  <2>2. /\ load' \in [at : {"idle", "sent"}, try : 0 .. 2, fence : Fence]
        /\ load'.at # "read"
    BY <2>1, DrawnIsFence, RetryIsRequest
  <2>3. PageTypeOK'
    BY <1>1, <1>3, <2>1, <2>2 DEF PageTypeOK
  <2>4. Saving' /\ Loading'
    BY <1>1, <2>1, <2>2 DEF EditorInv, Saving, Loading, storeState
  <2>5. ShowsSaved'
    <3> SUFFICES ASSUME fresh, stored = acked
                 PROVE  shown = IF acked = 0 THEN Drawn ELSE acked
      BY <1>1, <2>1 DEF ShowsSaved, storeState
    <3>1. shown = Drawn /\ load.fence = stored
      BY <1>1 DEF EditorInv, Loading
    <3>2. stored = 0
      BY <1>4, <3>1 DEF Found
    <3>3. QED
      BY <3>1, <3>2
  <2>6. QED
    BY <1>2, <2>3, <2>4, <2>5, PartsTogether
<1>5. CASE Found # 0
  <2>1. load' = Idle /\ shown' = Found /\ shared' = FALSE
    BY <1>5 DEF ShowLoaded
  <2>2. load'.at = "idle"
    BY <2>1 DEF Idle
  <2>3. PageTypeOK'
    <3>1. load' \in [at : {"idle", "sent", "read"}, try : 0 .. 2, fence : Fence]
      BY <2>1, DrawnIsFence DEF Idle
    <3>2. QED
      BY <1>1, <1>3, <1>5, <2>1, <3>1 DEF PageTypeOK
  <2>4. Saving' /\ Loading'
    BY <1>1, <2>1, <2>2 DEF EditorInv, Saving, Loading, storeState
  <2>5. ShowsSaved'
    <3> SUFFICES ASSUME fresh, stored = acked
                 PROVE  Found = IF acked = 0 THEN Drawn ELSE acked
      BY <1>1, <2>1 DEF ShowsSaved, storeState
    <3>1. load.fence = stored
      BY <1>1 DEF EditorInv, Loading
    <3>2. CASE acked = 0
      <4>1. vertices = 0
        BY <3>2 DEF EditorInv, StoreInv, NeverPosted
      <4>2. QED
        BY <1>5, <3>1, <3>2, <4>1 DEF Found
    <3>3. CASE acked # 0
      BY <3>1, <3>3 DEF Found
    <3>4. QED
      BY <3>2, <3>3
  <2>6. QED
    BY <1>2, <2>3, <2>4, <2>5, PartsTogether
<1>6. QED
  BY <1>4, <1>5

LEMMA LoadFailKeeps ==
    ASSUME EditorInv, LoadFails
    PROVE  EditorInv'
<1>1. /\ UNCHANGED <<vertices, box, botBox, restore, writes, outgoing, incoming,
                     stored, retained, acked, latest, early, failed>>
      /\ UNCHANGED <<shown, initial, shared, save, fences, saves, reloads>>
      /\ Trouble
      /\ load.at # "idle" /\ load' \in {Retry(load, 0), Idle}
      /\ fresh' = (fresh /\ load'.at # "idle")
  BY DEF LoadFails, store, memory, transit, orders, outsiders, page, pageBounds
<1>2. StoreTypeOK'
  BY <1>1, TroubleCounts DEF EditorInv, StoreInv, StoreTypeOK
<1>3. StoreInv'
  BY <1>1, <1>2 DEF EditorInv, StoreInv, NeverPosted, Restoring, Restored, Returned,
                    BoxToCome, BotFirst
<1>4. /\ load' \in [at : {"idle", "sent"}, try : 0 .. 2, fence : Fence]
      /\ load'.at # "read"
  BY <1>1, DrawnIsFence, RetryIsRequest
<1>5. PageTypeOK'
  <2>1. PageTypeOK
    BY TypesAreParts DEF EditorInv
  <2>2. QED
    BY <1>1, <1>4, <2>1 DEF PageTypeOK
<1>6. Saving' /\ Loading' /\ ShowsSaved'
  BY <1>1, <1>4 DEF EditorInv, Saving, Loading, ShowsSaved
<1>7. QED
  BY <1>3, <1>5, <1>6, PartsTogether

(* Editing and asking to save end the page's being fresh.                  *)
LEMMA StaleKeeps ==
    ASSUME EditorInv, UNCHANGED storeState, fresh' = FALSE, PageTypeOK', Saving'
    PROVE  EditorInv'
<1>1. StoreInv'
  BY StoreStutters DEF EditorInv
<1>2. Loading' /\ ShowsSaved'
  BY DEF Loading, ShowsSaved
<1>3. QED
  BY <1>1, <1>2, PartsTogether

LEMMA EditKeeps ==
    ASSUME EditorInv, MoveVertex \/ DragVertex \/ ResetFence \/ SaveFence
    PROVE  EditorInv'
<1>1. UNCHANGED storeState /\ fresh' = FALSE
  BY DEF MoveVertex, DragVertex, Draw, ResetFence, SaveFence, storeVars, store,
         storeState, memory, transit, orders, outsiders
<1>2. PageTypeOK
  BY TypesAreParts DEF EditorInv
<1>3. CASE MoveVertex \/ DragVertex
  <2>1. /\ fences' = fences + 1 /\ fences' \in Fence \ {0} /\ shown' = fences'
        /\ shared' = FALSE
        /\ UNCHANGED <<load, save, saves, reloads>>
    BY <1>2, <1>3, FenceStoreAssumption
    DEF MoveVertex, DragVertex, Draw, PageTypeOK, Fence
  <2>2. initial' \in {initial, shown'}
    BY <1>3 DEF MoveVertex, DragVertex
  <2>3. PageTypeOK' /\ Saving'
    BY <1>1, <1>2, <2>1, <2>2 DEF PageTypeOK, Saving, EditorInv
  <2>4. QED
    BY <1>1, <2>3, StaleKeeps
<1>4. CASE ResetFence
  <2>1. /\ shown' = initial /\ shared' = TRUE
        /\ UNCHANGED <<initial, load, save, fences, saves, reloads>>
    BY <1>4 DEF ResetFence, pageBounds
  <2>2. PageTypeOK' /\ Saving'
    BY <1>1, <1>2, <2>1 DEF PageTypeOK, Saving, EditorInv
  <2>3. QED
    BY <1>1, <2>2, StaleKeeps
<1>5. CASE SaveFence
  <2>1. /\ saves < MaxSaves /\ saves' = saves + 1
        /\ save' = [at |-> "sent", try |-> 1, fence |-> shown]
        /\ UNCHANGED <<shown, initial, shared, load, fences, reloads>>
    BY <1>5 DEF SaveFence, Sent, page
  <2>2. saves' \in 0 .. MaxSaves
    BY <1>2, <2>1, FenceEditorAssumption DEF PageTypeOK
  <2>3. /\ save' \in [at : {"idle", "sent", "posted"}, try : 0 .. 2, fence : Fence]
        /\ save'.fence = shown /\ shown # 0
    BY <1>2, <2>1 DEF PageTypeOK
  <2>4. PageTypeOK' /\ Saving'
    BY <1>1, <1>2, <2>1, <2>2, <2>3 DEF PageTypeOK, Saving
  <2>5. QED
    BY <1>1, <2>4, StaleKeeps
<1>6. QED
  BY <1>3, <1>4, <1>5

(* A save under way is of a page that is not fresh.                        *)
LEMMA PostArrivesKeeps ==
    ASSUME EditorInv, PostArrives
    PROVE  EditorInv'
<1>1. /\ save.at = "sent" /\ Post(save.fence)
      /\ save' = [save EXCEPT !.at = "posted"]
      /\ UNCHANGED <<shown, initial, shared, load, fences, saves, reloads, fresh>>
  BY DEF PostArrives, page, pageBounds
<1>2. PageTypeOK
  BY TypesAreParts DEF EditorInv
<1>3. save.fence \in Fence \ {0}
  BY <1>1, <1>2 DEF EditorInv, Saving, PageTypeOK
<1>4. StoreInv'
  BY <1>1, <1>3, PostKeeps DEF EditorInv
<1>5. PageTypeOK' /\ Saving'
  BY <1>1, <1>2, <1>3 DEF PageTypeOK, Saving
<1>6. ~fresh
  BY <1>1 DEF EditorInv, Loading
<1>7. Loading' /\ ShowsSaved'
  BY <1>1, <1>6 DEF Loading, ShowsSaved
<1>8. QED
  BY <1>4, <1>5, <1>7, PartsTogether

LEMMA SaveAnsweredKeeps ==
    ASSUME EditorInv, SaveAnswered
    PROVE  EditorInv'
<1>1. /\ UNCHANGED storeState
      /\ save.at = "posted" /\ save' = Idle
      /\ UNCHANGED <<shown, initial, shared, load, fences, saves, reloads, fresh>>
  BY DEF SaveAnswered, storeVars, store, storeState, memory, transit, orders, outsiders,
         page, pageBounds
<1>2. StoreInv' /\ PageTypeOK
  BY <1>1, StoreStutters, TypesAreParts DEF EditorInv
<1>3. PageTypeOK' /\ Saving'
  BY <1>1, <1>2, DrawnIsFence DEF PageTypeOK, Saving, Idle
<1>4. ~fresh
  BY <1>1 DEF EditorInv, Loading
<1>5. Loading' /\ ShowsSaved'
  BY <1>1, <1>4 DEF Loading, ShowsSaved
<1>6. QED
  BY <1>2, <1>3, <1>5, PartsTogether

LEMMA SaveFailKeeps ==
    ASSUME EditorInv, SaveFails
    PROVE  EditorInv'
<1>1. /\ UNCHANGED <<vertices, box, botBox, restore, writes, outgoing, incoming,
                     stored, retained, acked, latest, early, failed>>
      /\ UNCHANGED <<shown, initial, shared, load, fences, saves, reloads, fresh>>
      /\ Trouble
      /\ save.at # "idle" /\ save' \in {Retry(save, save.fence), Idle}
  BY DEF SaveFails, store, memory, transit, orders, outsiders, page, pageBounds
<1>2. StoreTypeOK'
  BY <1>1, TroubleCounts DEF EditorInv, StoreInv, StoreTypeOK
<1>3. StoreInv'
  BY <1>1, <1>2 DEF EditorInv, StoreInv, NeverPosted, Restoring, Restored, Returned,
                    BoxToCome, BotFirst
<1>4. PageTypeOK /\ save.fence \in Fence \ {0}
  <2>1. PageTypeOK
    BY TypesAreParts DEF EditorInv
  <2>2. QED
    BY <1>1, <2>1 DEF EditorInv, Saving, PageTypeOK
<1>5. /\ save' \in [at : {"idle", "sent"}, try : 0 .. 2, fence : Fence]
      /\ save'.at # "idle" => save'.fence = save.fence
  BY <1>1, <1>4, RetryIsRequest
<1>6. PageTypeOK' /\ Saving'
  BY <1>1, <1>4, <1>5 DEF PageTypeOK, Saving
<1>7. ~fresh
  BY <1>1 DEF EditorInv, Loading
<1>8. Loading' /\ ShowsSaved'
  BY <1>1, <1>7 DEF Loading, ShowsSaved
<1>9. QED
  BY <1>3, <1>6, <1>8, PartsTogether

LEMMA UsePanelKeeps ==
    ASSUME EditorInv, UsePanel
    PROVE  EditorInv'
<1>1. /\ fences < MaxFence /\ fences' = fences + 1 /\ PressPanel(fences')
      /\ UNCHANGED <<shown, initial, shared, load, save, saves, reloads, fresh>>
      /\ UNCHANGED <<writes, stored, acked>>
  BY DEF UsePanel, PressPanel, page, orders, outsiders
<1>2. PageTypeOK
  BY TypesAreParts DEF EditorInv
<1>3. fences' \in Fence \ {0}
  BY <1>1, <1>2, FenceStoreAssumption DEF PageTypeOK, Fence
<1>4. StoreInv'
  BY <1>1, <1>3, PanelKeeps DEF EditorInv
<1>5. PageTypeOK'
  BY <1>1, <1>2, <1>3 DEF PageTypeOK
<1>6. Saving' /\ Loading' /\ ShowsSaved'
  BY <1>1 DEF EditorInv, Saving, Loading, ShowsSaved
<1>7. QED
  BY <1>4, <1>5, <1>6, PartsTogether

LEMMA RestartNodeRedKeeps ==
    ASSUME EditorInv, RestartNodeRed
    PROVE  EditorInv'
<1>1. /\ RestartFlows
      /\ load' = IF load.at = "read" THEN Retry(load, 0) ELSE load
      /\ fresh' = (fresh /\ (load.at = "idle" \/ load'.at # "idle"))
      /\ UNCHANGED <<shown, initial, shared, save, fences, saves, reloads>>
  BY DEF RestartNodeRed, page, pageBounds
<1>2. StoreInv'
  BY <1>1, RestartKeeps DEF EditorInv
<1>3. PageTypeOK
  BY TypesAreParts DEF EditorInv
<1>4. /\ load' \in [at : {"idle", "sent"}, try : 0 .. 2, fence : Fence]
      /\ load'.at # "read"
      /\ load.at = "idle" => load'.at = "idle"
  BY <1>1, <1>3, DrawnIsFence, RetryIsRequest DEF PageTypeOK
<1>5. PageTypeOK' /\ Saving'
  BY <1>1, <1>3, <1>4 DEF PageTypeOK, EditorInv, Saving
<1>6. ASSUME fresh'
      PROVE  /\ save.at = "idle" /\ writes' = << >>
             /\ stored' = stored /\ acked' = acked
             /\ load'.at # "idle" => shown = Drawn
             /\ load'.at = "idle" => load.at = "idle"
  <2>1. fresh /\ (load.at = "idle" \/ load'.at # "idle")
    BY <1>1, <1>6
  <2>2. /\ save.at = "idle" /\ writes = << >>
        /\ load.at # "idle" => shown = Drawn
    BY <2>1 DEF EditorInv, Loading
  <2>3. QED
    BY <1>1, <1>4, <2>1, <2>2, RestartIsQuiet
<1>7. Loading'
  BY <1>1, <1>4, <1>6 DEF Loading
<1>8. ShowsSaved'
  <2> SUFFICES ASSUME fresh', load'.at = "idle", stored' = acked'
               PROVE  shown' = IF acked' = 0 THEN Drawn ELSE acked'
    BY DEF ShowsSaved
  <2>1. fresh /\ load.at = "idle" /\ stored = acked
    BY <1>1, <1>6
  <2>2. QED
    BY <1>1, <1>6, <2>1 DEF EditorInv, ShowsSaved
<1>9. QED
  BY <1>2, <1>5, <1>7, <1>8, PartsTogether

LEMMA BackendStepKeeps ==
    ASSUME EditorInv, Backend
    PROVE  EditorInv'
<1>1. /\ Flows \/ WriteFails \/ PublishFails
      /\ UNCHANGED <<shown, initial, shared, load, save, fences, saves, reloads, fresh>>
  BY DEF Backend, page, pageBounds
<1>2. StoreInv'
  BY <1>1, BackendKeeps DEF EditorInv
<1>3. PageTypeOK' /\ Saving'
  BY <1>1, TypesAreParts DEF EditorInv, PageTypeOK, Saving
<1>4. Loading' /\ ShowsSaved'
  BY <1>1, BackendIsQuiet DEF EditorInv, Loading, ShowsSaved
<1>5. QED
  BY <1>2, <1>3, <1>4, PartsTogether

LEMMA EditorStutters ==
    ASSUME EditorInv, UNCHANGED editorVars
    PROVE  EditorInv'
<1>1. UNCHANGED storeState
  BY DEF editorVars, storeVars, store, storeState, memory, transit, orders, outsiders
<1>2. UNCHANGED <<shown, initial, shared, load, save, fences, saves, reloads, fresh>>
  BY DEF editorVars, page, pageBounds
<1>3. StoreInv'
  BY <1>1, StoreStutters DEF EditorInv
<1>4. PageTypeOK' /\ Saving' /\ Loading' /\ ShowsSaved'
  BY <1>1, <1>2, TypesAreParts
  DEF EditorInv, PageTypeOK, Saving, Loading, ShowsSaved, storeState
<1>5. QED
  BY <1>3, <1>4, PartsTogether

LEMMA NextEditor == EditorInv /\ [EditorNext]_editorVars => EditorInv'
BY ReloadKeeps, AskKeeps, ShowKeeps, LoadFailKeeps, EditKeeps, PostArrivesKeeps,
   SaveAnsweredKeeps, SaveFailKeeps, UsePanelKeeps, RestartNodeRedKeeps,
   BackendStepKeeps, EditorStutters DEF EditorNext

-----------------------------------------------------------------------------
LEMMA EditorInvHolds == EditorSpec => []EditorInv
BY InitEditor, NextEditor, PTL DEF EditorSpec

(* Of any number of fences, saves, reloads, restarts and failures: what    *)
(* the five places hold, and what is on its way between them, are fences.  *)
THEOREM EditorTypes == EditorSpec => []EditorTypeOK
<1>1. EditorInv => EditorTypeOK
  BY DEF EditorInv
<1>2. QED
  BY <1>1, EditorInvHolds, PTL

(* A fence that database and broker both hold is the one alerts and        *)
(* details are of, after any number of restarts and failures.              *)
THEOREM StoredFenceIsUsed == EditorSpec => []StoredIsUsed
<1>1. EditorInv => StoredIsUsed
  <2> SUFFICES ASSUME EditorInv, Settled, stored = acked,
                      retained["config_update"] = acked, ~early
               PROVE  /\ vertices = acked
                      /\ retained["fence_update"] = 0 => UsedBox = acked
    BY DEF StoredIsUsed
  <2>1. vertices = acked
    BY DEF EditorInv, StoreInv, Restored, Settled
  <2>2. ASSUME retained["fence_update"] = 0
        PROVE  UsedBox = acked
    <3>1. botBox = acked
      BY <2>2 DEF EditorInv, StoreInv, Returned, BoxToCome, Settled
    <3>2. QED
      BY <2>1, <3>1 DEF EditorInv, StoreInv, BotFirst, UsedBox
  <2>3. QED
    BY <2>1, <2>2
<1>2. QED
  BY <1>1, EditorInvHolds, PTL

(* A page that was just loaded shows the fence that was acknowledged last, *)
(* if the database has it.                                                 *)
THEOREM LoadedPageShowsSaved == EditorSpec => []ShowsSaved
<1>1. EditorInv => ShowsSaved
  BY DEF EditorInv
<1>2. QED
  BY <1>1, EditorInvHolds, PTL

-----------------------------------------------------------------------------
(***************************************************************************)
(* The dashboard's polling, for any interval, latency and number of        *)
(* points. While answers come within the interval and nobody presses the   *)
(* button, the only fetch is as old as the timer, so that none is left     *)
(* when the timer runs out, and it knows what the page shows.              *)
(***************************************************************************)

(* What the fetch under way, if there is one, has to do with the page.     *)
Lone ==
    /\ Len(fetches) <= 1
    /\ Len(fetches) = 1 =>
          /\ fetches[1].age = timer
          /\ fetches[1].hasPoint = (latestPoint # Nothing)
          /\ latestPoint \in Point => latestPoint <= fetches[1].from

TelemetryInv ==
    /\ TelemetryTypeOK
    /\ latestPoint \in Point => latestPoint <= points
    /\ Quick => Lone

(* A sequence without one of its elements is shorter by one.               *)
LEMMA RemoveAtProperties ==
  ASSUME NEW S, NEW s \in Seq(S), NEW i \in DOMAIN s
  PROVE  RemoveAt(s, i) \in Seq(S) /\ Len(RemoveAt(s, i)) = Len(s) - 1
<1> DEFINE before == SubSeq(s, 1, i - 1)
           after == SubSeq(s, i + 1, Len(s))
<1>1. i \in 1 .. Len(s) /\ Len(s) \in Nat
  OBVIOUS
<1>2. before \in Seq(S) /\ Len(before) = i - 1
  <2>1. \A k \in 1 .. i - 1 : s[k] \in S
    BY <1>1
  <2>2. QED
    BY <1>1, <2>1, SubSeqProperties
<1>3. after \in Seq(S) /\ Len(after) = Len(s) - i
  <2>1. \A k \in i + 1 .. Len(s) : s[k] \in S
    BY <1>1
  <2>2. QED
    BY <1>1, <2>1, SubSeqProperties
<1>4. before \o after \in Seq(S) /\ Len(before \o after) = Len(before) + Len(after)
  BY <1>2, <1>3, ConcatProperties
<1>5. RemoveAt(s, i) = before \o after
  BY DEF RemoveAt
<1> HIDE DEF before, after
<1>6. QED
  BY <1>1, <1>2, <1>3, <1>4, <1>5

LEMMA FetchesAreFetches ==
  ASSUME TelemetryTypeOK
  PROVE  Len(fetches) \in Nat /\ \A i \in 1 .. Len(fetches) : fetches[i] \in Fetch
  BY DEF TelemetryTypeOK

(* A fetch that begins is new and knows the point it is begun with.        *)
LEMMA NewFetch ==
  ASSUME TelemetryTypeOK, NEW point
  PROVE  /\ Fetching(point) \in Fetch
         /\ Fetching(point).age = 0 /\ Fetching(point).from = points
         /\ Fetching(point).hasPoint = (point # Nothing)
  BY TelemetryAssumption DEF TelemetryTypeOK, Fetching, Fetch

LEMMA TelemetryInitInv == TelemetryInit => TelemetryInv
<1> SUFFICES ASSUME TelemetryInit PROVE TelemetryInv
  OBVIOUS
<1>1. Fetching(Nothing) \in Fetch
  BY TelemetryAssumption DEF TelemetryInit, Fetching, Fetch
<1>2. TelemetryTypeOK
  BY <1>1, TelemetryAssumption DEF TelemetryInit, TelemetryTypeOK
<1>3. latestPoint \notin Point
  BY TelemetryAssumption DEF TelemetryInit, Point
<1>4. Lone
  BY <1>2, <1>3, NewFetch DEF TelemetryInit, Lone
<1>5. QED
  BY <1>2, <1>3, <1>4 DEF TelemetryInv

(* An answer either starts the next fetch, with the point it shows ...     *)
LEMMA ShowInv ==
  ASSUME TelemetryInv, NEW i \in DOMAIN fetches,
         NEW point \in Point \cup {Simulated}, point \in Point => point <= points,
         Show(i, point), UNCHANGED <<points, reachable, fetchBounds>>
  PROVE  TelemetryInv'
<1> DEFINE rest == RemoveAt(fetches, i)
<1>1. rest \in Seq(Fetch) /\ Len(rest) = Len(fetches) - 1
  BY RemoveAtProperties DEF TelemetryInv, TelemetryTypeOK
<1>2. /\ fetches' \in Seq(Fetch) /\ Len(fetches') = Len(fetches)
      /\ fetches'[Len(fetches)] = Fetching(point)
  BY <1>1, NewFetch, AppendProperties DEF TelemetryInv, Show
<1>3. TelemetryTypeOK'
  BY <1>2, TelemetryAssumption DEF TelemetryInv, TelemetryTypeOK, Show, fetchBounds
<1>4. Lone => Lone'
  <2>1. Point \subseteq Nat /\ Nothing \notin Nat /\ Simulated # Nothing
    BY TelemetryAssumption DEF Point, TelemetryInv, TelemetryTypeOK
  <2>2. point # Nothing
    BY <2>1
  <2>3. timer' = 0 /\ latestPoint' = point
    BY DEF Show
  <2>4. QED
    BY <1>2, <2>2, <2>3, NewFetch DEF Lone, TelemetryInv
<1>5. QED
  BY <1>3, <1>4 DEF TelemetryInv, Show, Quick, fetchBounds

(* ... or leaves that to the timer.                                        *)
LEMMA LeaveInv ==
  ASSUME TelemetryInv, NEW i \in DOMAIN fetches, fetches' = RemoveAt(fetches, i),
         UNCHANGED <<latestPoint, timer, points, reachable, fetchBounds>>
  PROVE  TelemetryInv'
<1>1. fetches' \in Seq(Fetch) /\ Len(fetches') = Len(fetches) - 1
  BY RemoveAtProperties DEF TelemetryInv, TelemetryTypeOK
<1>2. Lone => Lone'
  BY <1>1, FetchesAreFetches DEF Lone, TelemetryInv
<1>3. Len(fetches') <= MaxFetches
  <2>1. Len(fetches) \in Nat /\ Len(fetches) <= MaxFetches
    BY FetchesAreFetches DEF TelemetryInv, TelemetryTypeOK
  <2>2. QED
    BY <1>1, <2>1, TelemetryAssumption
<1>4. TelemetryTypeOK'
  BY <1>1, <1>3 DEF TelemetryInv, TelemetryTypeOK, fetchBounds
<1>5. QED
  BY <1>2, <1>4 DEF TelemetryInv, Quick, fetchBounds

LEMMA AnswerInv == TelemetryInv /\ AnswerFetch => TelemetryInv'
<1> SUFFICES ASSUME TelemetryInv, AnswerFetch PROVE TelemetryInv'
  OBVIOUS
<1>1. PICK i \in DOMAIN fetches : Succeeds(i) \/ Simulate(i)
  BY DEF AnswerFetch, Empty, Fails
<1>2. UNCHANGED <<points, reachable, fetchBounds>>
  BY DEF AnswerFetch
<1>3. CASE Succeeds(i)
  <2>1. PICK row \in Point : row <= points /\ Show(i, row)
    BY <1>3 DEF Succeeds, TelemetryInv, TelemetryTypeOK, Point, Fetch
  <2>2. QED
    BY <1>2, <2>1, ShowInv
<1>4. CASE Simulate(i)
  <2>1. Simulated \notin Point
    BY TelemetryAssumption DEF Point
  <2>2. QED
    BY <1>2, <1>4, <2>1, ShowInv, LeaveInv DEF Simulate
<1>5. QED
  BY <1>1, <1>3, <1>4

(* The timer finds no fetch under way: one would be older than an answer   *)
(* takes.                                                                  *)
LEMMA TimerInv == TelemetryInv /\ TimerFires => TelemetryInv'
<1> SUFFICES ASSUME TelemetryInv, TimerFires PROVE TelemetryInv'
  OBVIOUS
<1>1. /\ fetches' \in Seq(Fetch) /\ Len(fetches') = Len(fetches) + 1
      /\ fetches'[Len(fetches) + 1] = Fetching(latestPoint)
  BY NewFetch, AppendProperties DEF TelemetryInv, TelemetryTypeOK, TimerFires
<1>2. TelemetryTypeOK'
  BY <1>1, TelemetryAssumption DEF TelemetryInv, TelemetryTypeOK, TimerFires, fetchBounds
<1>3. Quick => Len(fetches) = 0
  <2> SUFFICES ASSUME Quick PROVE Len(fetches) = 0
    OBVIOUS
  <2>1. Len(fetches) \in {0, 1}
    BY FetchesAreFetches DEF TelemetryInv, Lone
  <2>2. ASSUME Len(fetches) = 1 PROVE FALSE
    <3>1. fetches[1].age = Interval
      BY <2>2 DEF TelemetryInv, Lone, TimerFires
    <3>2. fetches[1] \in Fetch
      BY <2>2, FetchesAreFetches DEF TelemetryInv
    <3>3. QED
      BY <3>1, <3>2, TelemetryAssumption DEF Fetch, Quick
  <2>3. QED
    BY <2>1, <2>2
<1>4. Quick => Lone'
  BY <1>1, <1>3, NewFetch DEF Lone, TelemetryInv, TimerFires
<1>5. QED
  BY <1>2, <1>4 DEF TelemetryInv, TimerFires, Quick, fetchBounds

(* After the button there is nothing to keep.                              *)
LEMMA RefetchInv == TelemetryInv /\ Refetch => TelemetryInv'
<1> SUFFICES ASSUME TelemetryInv, Refetch PROVE TelemetryInv'
  OBVIOUS
<1>1. fetches' \in Seq(Fetch) /\ Len(fetches') = Len(fetches) + 1
  BY NewFetch, AppendProperties DEF TelemetryInv, TelemetryTypeOK, Refetch
<1>2. TelemetryTypeOK'
  BY <1>1, TelemetryAssumption DEF TelemetryInv, TelemetryTypeOK, Refetch
<1>3. ~Quick'
  BY TelemetryAssumption DEF Quick, Refetch, TelemetryInv, TelemetryTypeOK
<1>4. QED
  BY <1>2, <1>3 DEF TelemetryInv, Refetch

(* Time passes for the timer and for the fetches alike.                    *)
LEMMA TickInv == TelemetryInv /\ PageTick => TelemetryInv'
<1> SUFFICES ASSUME TelemetryInv, PageTick PROVE TelemetryInv'
  OBVIOUS
<1>1. \A i \in DOMAIN fetches : [fetches[i] EXCEPT !.age = @ + 1] \in Fetch
  <2> SUFFICES ASSUME NEW i \in DOMAIN fetches
               PROVE  [fetches[i] EXCEPT !.age = @ + 1] \in Fetch
    OBVIOUS
  <2>1. fetches[i] \in Fetch
    BY DEF TelemetryInv, TelemetryTypeOK
  <2>2. fetches[i].age + 1 \in 0 .. MaxLatency
    BY <2>1, TelemetryAssumption DEF PageTick, Fetch
  <2>3. QED
    BY <2>1, <2>2 DEF Fetch
<1>2. fetches' \in Seq(Fetch) /\ Len(fetches') = Len(fetches)
  BY <1>1 DEF TelemetryInv, TelemetryTypeOK, PageTick
<1>3. TelemetryTypeOK'
  BY <1>2, TelemetryAssumption DEF TelemetryInv, TelemetryTypeOK, PageTick, fetchBounds
<1>4. Lone => Lone'
  <2> SUFFICES ASSUME Lone, Len(fetches) = 1 PROVE Lone'
    BY <1>2 DEF Lone, TelemetryInv, TelemetryTypeOK
  <2>1. fetches'[1] = [fetches[1] EXCEPT !.age = @ + 1] /\ fetches[1] \in Fetch
    BY DEF PageTick, TelemetryInv, TelemetryTypeOK
  <2>2. QED
    BY <1>2, <2>1 DEF Lone, PageTick, Fetch
<1>5. QED
  BY <1>3, <1>4 DEF TelemetryInv, PageTick, Quick, fetchBounds

(* What InfluxDB does.                                                     *)
LEMMA DatabaseInv == TelemetryInv /\ (Store \/ Outage \/ Recovers) => TelemetryInv'
<1> SUFFICES ASSUME TelemetryInv, Store \/ Outage \/ Recovers PROVE TelemetryInv'
  OBVIOUS
<1>1. CASE Store \/ Recovers
  <2>1. UNCHANGED <<latestPoint, fetches, timer, refetches, outages>>
    BY <1>1 DEF Store, Recovers, fetchBounds
  <2>2. points' \in 0 .. MaxPoint /\ points <= points' /\ points \in Nat
    BY <1>1, TelemetryAssumption DEF TelemetryInv, TelemetryTypeOK, Store, Recovers
  <2>3. reachable' \in BOOLEAN
    BY <1>1 DEF TelemetryInv, TelemetryTypeOK, Store, Recovers
  <2>4. TelemetryTypeOK'
    <3>1. Len(fetches') <= MaxFetches /\ fetches' \in Seq(Fetch)
      BY <2>1 DEF TelemetryInv, TelemetryTypeOK
    <3>2. QED
      BY <2>1, <2>2, <2>3, <3>1 DEF TelemetryInv, TelemetryTypeOK
  <2>5. latestPoint' \in Point => latestPoint' <= points'
    <3>1. latestPoint \in Point => latestPoint \in Nat /\ latestPoint <= points
      BY DEF TelemetryInv, Point
    <3>2. points' \in Nat
      BY <2>2, TelemetryAssumption
    <3>3. QED
      BY <2>1, <2>2, <3>1, <3>2
  <2>6. Quick' => Lone'
    BY <2>1 DEF TelemetryInv, Lone, Quick
  <2>7. QED
    BY <2>4, <2>5, <2>6 DEF TelemetryInv
<1>2. CASE Outage
  <2>1. \A i \in DOMAIN fetches : [fetches[i] EXCEPT !.cut = TRUE] \in Fetch
    <3> SUFFICES ASSUME NEW i \in DOMAIN fetches
                 PROVE  [fetches[i] EXCEPT !.cut = TRUE] \in Fetch
      OBVIOUS
    <3>1. fetches[i] \in Fetch
      BY DEF TelemetryInv, TelemetryTypeOK
    <3>2. QED
      BY <3>1 DEF Fetch
  <2>2. fetches' \in Seq(Fetch) /\ Len(fetches') = Len(fetches)
    BY <1>2, <2>1 DEF TelemetryInv, TelemetryTypeOK, Outage
  <2>3. TelemetryTypeOK'
    <3>1. outages' \in 0 .. MaxOutages
      BY <1>2, TelemetryAssumption DEF TelemetryInv, TelemetryTypeOK, Outage
    <3>2. Len(fetches') <= MaxFetches
      BY <2>2 DEF TelemetryInv, TelemetryTypeOK
    <3>3. QED
      BY <1>2, <2>2, <3>1, <3>2 DEF TelemetryInv, TelemetryTypeOK, Outage
  <2>4. Lone => Lone'
    <3> SUFFICES ASSUME Lone, Len(fetches) = 1 PROVE Lone'
      BY <1>2, <2>2, FetchesAreFetches DEF Lone, TelemetryInv
    <3>1. fetches[1] \in Fetch /\ 1 \in DOMAIN fetches
      BY FetchesAreFetches DEF TelemetryInv, TelemetryTypeOK
    <3>2. fetches'[1] = [fetches[1] EXCEPT !.cut = TRUE]
      BY <1>2, <3>1 DEF Outage
    <3>3. QED
      BY <1>2, <2>2, <3>1, <3>2 DEF Lone, Outage, Fetch
  <2>5. QED
    BY <1>2, <2>3, <2>4 DEF TelemetryInv, Outage, Quick
<1>3. QED
  BY <1>1, <1>2

LEMMA TelemetryNextInv == TelemetryInv /\ [TelemetryNext]_telemetryVars => TelemetryInv'
<1> SUFFICES ASSUME TelemetryInv, [TelemetryNext]_telemetryVars PROVE TelemetryInv'
  OBVIOUS
<1>1. CASE TelemetryNext
  BY <1>1, AnswerInv, TimerInv, RefetchInv, TickInv, DatabaseInv DEF TelemetryNext
<1>2. CASE UNCHANGED telemetryVars
  BY <1>2 DEF telemetryVars, fetchBounds, TelemetryInv, TelemetryTypeOK, Lone, Quick
<1>3. QED
  BY <1>1, <1>2

LEMMA TelemetryInvariant == TelemetrySpec => []TelemetryInv
<1>1. QED
  BY TelemetryInitInv, TelemetryNextInv, PTL DEF TelemetrySpec

(* While answers come within the interval and nobody presses the button,   *)
(* useCattleTelemetry has one fetch under way at most.                     *)
THEOREM OneFetch == TelemetrySpec => []OneAtATime
<1>1. TelemetryInv => OneAtATime
  BY DEF TelemetryInv, Lone, OneAtATime
<1>2. QED
  BY <1>1, TelemetryInvariant, PTL

(* Then the point shown is never replaced by an older or a simulated one.  *)
THEOREM RealPointsStay == TelemetrySpec => RealStaysLatest
<1>1. ASSUME TelemetryInv, [TelemetryNext]_telemetryVars, Quick', latestPoint \in Point
      PROVE  latestPoint' \in Point /\ latestPoint' >= latestPoint
  <2>1. Point \subseteq Nat /\ Nothing \notin Nat
    BY TelemetryAssumption DEF Point
  <2>2. CASE AnswerFetch
    <3>1. Quick
      BY <1>1, <2>2 DEF AnswerFetch, Quick, fetchBounds
    <3>2. PICK i \in DOMAIN fetches : Succeeds(i) \/ Simulate(i)
      BY <2>2 DEF AnswerFetch, Empty, Fails
    <3>3. i = 1 /\ Len(fetches) = 1 /\ fetches[1] \in Fetch
      <4>1. Len(fetches) \in Nat /\ Len(fetches) <= 1 /\ i \in 1 .. Len(fetches)
        BY <1>1, <3>1, <3>2 DEF TelemetryInv, Lone, TelemetryTypeOK
      <4>2. TelemetryTypeOK
        BY <1>1 DEF TelemetryInv
      <4>3. i = 1 /\ Len(fetches) = 1
        BY <4>1
      <4>4. QED
        BY <4>2, <4>3, FetchesAreFetches
    <3>4. fetches[1].hasPoint /\ latestPoint <= fetches[1].from
      <4>1. latestPoint # Nothing
        BY <1>1, <2>1
      <4>2. QED
        BY <1>1, <3>1, <3>3, <4>1 DEF TelemetryInv, Lone
    <3>5. CASE Succeeds(i)
      BY <1>1, <2>1, <3>3, <3>4, <3>5
         DEF Succeeds, Show, Fetch, TelemetryInv, TelemetryTypeOK, Point
    <3>6. CASE Simulate(i)
      BY <1>1, <2>1, <3>3, <3>4, <3>6 DEF Simulate
    <3>7. QED
      BY <3>2, <3>5, <3>6
  <2>3. CASE latestPoint' = latestPoint
    BY <1>1, <2>1, <2>3
  <2>4. QED
    BY <1>1, <2>2, <2>3
       DEF TelemetryNext, TimerFires, Refetch, PageTick, Store, Outage, Recovers, telemetryVars
<1>2. QED
  BY <1>1, TelemetryInvariant, PTL DEF TelemetrySpec, RealStaysLatest
===============================================================================
