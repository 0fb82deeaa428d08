------------------------------- MODULE AlertBot -------------------------------
(***************************************************************************)
(* The tab "Bot Telegram" of the Node-RED flows, backend-services/nodered/ *)
(* data/flows.json: every 15 s the last positions are read and an alert is *)
(* sent for each collar outside the fence; commands and buttons list the   *)
(* collars, show one, and silence or activate its alerts.                  *)
(*                                                                         *)
(* A function of the flow runs to its end; the flow is interrupted where   *)
(* it queries the database, and other messages pass while it waits.  What  *)
(* a query is for is then found in variables all messages share.  Time is  *)
(* counted in units of 5 s.                                                *)
(***************************************************************************)
EXTENDS Naturals, Sequences, SequencesExt

CONSTANTS
    Chats,          \* the chats in which operators use the bot
    Devices,        \* the collars
    Nobody,         \* an undefined chat or collar
    PollPeriod,     \* 15 s
    FirstPoll,      \* 5 s from the start to the first poll
    AntiFlood,      \* 40 s between two alerts for a collar
    MaxQueries,     \* bound on the queries waiting for the database
    MaxCommands,    \* bound on what the operators ask
    MaxRestarts     \* bound on the restarts of Node-RED

ASSUME AlertBotAssumption ==
    /\ Nobody \notin Chats /\ Nobody \notin Devices
    /\ PollPeriod \in Nat \ {0} /\ FirstPoll \in 0 .. PollPeriod
    /\ AntiFlood \in Nat
    /\ MaxQueries \in Nat /\ MaxCommands \in Nat /\ MaxRestarts \in Nat

(* What a toggle button says it does, and what an operator is told.        *)
Label == {"silence", "activate"}
State == {"silenced", "active"}

(* The lists of collars are the same query whoever asks; the last position *)
(* of one collar names it.                                                 *)
Query == [for : {"poll", "modulos", "alertas"}, chat : Chats \cup {Nobody}, device : {Nobody}]
    \cup [for : {"detalle"}, chat : Chats, device : Devices]

VARIABLES
    outside,    \* the collars whose last position is outside of the fence
    muted,      \* muted_<device>, which every place sets in flow and global
    since,      \* time since last_alert_time_<device>
    clock,      \* time since the last poll
    queries,    \* the queries waiting, with who asked, which they do not know
    modulosChat,    \* tg_modulos_chatId
    alertasChat,    \* tg_alertas_chatId
    detalle,        \* tg_detalle_chatId and tg_detalle_deviceId
    buttons,    \* the toggle buttons ever sent to each chat, which stay there
    alerted,    \* the collars the last poll sent an alert for
    answer,     \* the last answer: to whom, about which collar, and for what
    told,       \* what the operators were last told of each collar's alerts
    commands, restarts     \* for the bounds

saved == <<modulosChat, alertasChat, detalle>>
history == <<alerted, answer, told>>
botBounds == <<commands, restarts>>
botVars == <<outside, muted, since, clock, queries, saved, buttons, history, botBounds>>

NoAnswer == [to |-> Nobody, about |-> Nobody]

BotInit ==
    /\ outside \in SUBSET Devices
    /\ muted = {}
    /\ since = [d \in Devices |-> AntiFlood]
    /\ clock = PollPeriod - FirstPoll
    /\ queries = << >>
    /\ modulosChat = Nobody /\ alertasChat = Nobody
    /\ detalle = [chat |-> Nobody, device |-> Nobody]
    /\ buttons = [c \in Chats |-> {}]
    /\ alerted = {}
    /\ answer = NoAnswer
    /\ told = [d \in Devices |-> "active"]
    /\ commands = 0 /\ restarts = 0

-----------------------------------------------------------------------------
Status(d) == IF d \in muted THEN "silenced" ELSE "active"

(* The button offers the opposite of the state it was made in.             *)
Toggle(d, state) ==
    [device |-> d, label |-> IF state = "silenced" THEN "activate" ELSE "silence"]

Ask(q) ==
    /\ Len(queries) < MaxQueries
    /\ queries' = Append(queries, q)

Command == commands < MaxCommands /\ commands' = commands + 1

(* The database answers the i-th of the queries waiting, not always the    *)
(* first.                                                                  *)
Answered(i, kind) ==
    /\ i \in DOMAIN queries /\ queries[i].for = kind
    /\ queries' = RemoveAt(queries, i)

Answer(to, about) == answer' = [to |-> to, about |-> about]

-----------------------------------------------------------------------------
(* Variants with a plausible bug, to test the properties against; none is  *)
(* a part of the specification.                                            *)

(* The time of the last alert is noted before it is compared.              *)
AnswerPoll_NotesFirst(i) ==
    /\ Answered(i, "poll")
    /\ LET watched == outside \ muted
       IN  /\ alerted' = alerted \cup { d \in watched : since[d] >= AntiFlood }
           /\ since' = [d \in Devices |-> IF d \in watched THEN 0 ELSE since[d]]
    /\ UNCHANGED <<outside, muted, clock, saved, buttons, answer, told, botBounds>>

(* The collar shown and the one whose alerts are shown are different ones. *)
AnswerDetail_MixesCollars(i) ==
    /\ Answered(i, "detalle")
    /\ LET d == detalle.device  c == detalle.chat  asked == queries[i].device
       IN  /\ Answer(c, d)
           /\ told' = [told EXCEPT ![d] = Status(asked)]
           /\ buttons' = [buttons EXCEPT ![c] = @ \cup {Toggle(d, Status(asked))}]
    /\ UNCHANGED <<outside, muted, since, clock, saved, alerted, botBounds>>

-----------------------------------------------------------------------------
(* Collars report, or stop to for 24 h, which ends their being outside as  *)
(* well.                                                                   *)
Report(d) ==
    /\ outside' \in {outside \cup {d}, outside \ {d}}
    /\ outside' # outside
    /\ UNCHANGED <<muted, since, clock, queries, saved, buttons, history, botBounds>>

Tick ==
    /\ clock < PollPeriod /\ clock' = clock + 1
    /\ since' = [d \in Devices |-> IF since[d] < AntiFlood THEN since[d] + 1 ELSE AntiFlood]
    /\ UNCHANGED <<outside, muted, queries, saved, buttons, history, botBounds>>

Poll ==
    /\ clock = PollPeriod /\ clock' = 0
    /\ Ask([for |-> "poll", chat |-> Nobody, device |-> Nobody])
    /\ alerted' = {}
    /\ UNCHANGED <<outside, muted, since, saved, buttons, answer, told, botBounds>>

(* tg_check_outside_db.                                                    *)
AnswerPoll(i) ==
    /\ Answered(i, "poll")
    /\ LET due == { d \in outside \ muted : since[d] >= AntiFlood }
       IN  /\ alerted' = alerted \cup due
           /\ since' = [d \in Devices |-> IF d \in due THEN 0 ELSE since[d]]
    /\ UNCHANGED <<outside, muted, clock, saved, buttons, answer, told, botBounds>>

-----------------------------------------------------------------------------
(* /modulos: a button for the detail of each collar.                       *)
AskModules(c) ==
    /\ Command
    /\ Ask([for |-> "modulos", chat |-> c, device |-> Nobody])
    /\ modulosChat' = c
    /\ UNCHANGED <<outside, muted, since, clock, alertasChat, detalle, buttons, history, restarts>>

AnswerModules(i) ==
    /\ Answered(i, "modulos")
    /\ Answer(modulosChat, Nobody)
    /\ UNCHANGED <<outside, muted, since, clock, saved, buttons, alerted, told, botBounds>>

(* /silenciar and /alertas with nothing after them: a menu.                *)
AskMenu(c) ==
    /\ Command
    /\ Ask([for |-> "alertas", chat |-> c, device |-> Nobody])
    /\ alertasChat' = c
    /\ UNCHANGED <<outside, muted, since, clock, modulosChat, detalle, buttons, history, restarts>>

AnswerMenu(i) ==
    /\ Answered(i, "alertas")
    /\ Answer(alertasChat, Nobody)
    /\ buttons' = [buttons EXCEPT ![alertasChat] = @ \cup { Toggle(d, Status(d)) : d \in Devices }]
    /\ told' = [d \in Devices |-> Status(d)]
    /\ UNCHANGED <<outside, muted, since, clock, saved, alerted, botBounds>>

(* /silenciar or /alertas with a collar: on, off, or nothing more, which   *)
(* takes the opposite of what it is.  The alerts of the collar are set, and *)
(* the chat is told, with a button for the way back.                        *)
Set(c, d, state) ==
    /\ Command
    /\ muted' = IF state = "silenced" THEN muted \cup {d} ELSE muted \ {d}
    /\ told' = [told EXCEPT ![d] = state]
    /\ buttons' = [buttons EXCEPT ![c] = @ \cup {Toggle(d, state)}]
    /\ UNCHANGED <<outside, since, clock, queries, saved, alerted, answer, restarts>>

(* A toggle button takes the opposite, whatever its text.                  *)
PressToggle(c) == \E b \in buttons[c] :
    Set(c, b.device, IF b.device \in muted THEN "active" ELSE "silenced")

(* The button of a collar's detail, sent with a list or a confirmation.    *)
PressDetail(c, d) ==
    /\ Command
    /\ Ask([for |-> "detalle", chat |-> c, device |-> d])
    /\ detalle' = [chat |-> c, device |-> d]
    /\ UNCHANGED <<outside, muted, since, clock, modulosChat, alertasChat, buttons, history, restarts>>

(* tg_format_detalle: the position is the row's, the rest the variables'.  *)
AnswerDetail(i) ==
    /\ Answered(i, "detalle")
    /\ LET d == detalle.device  c == detalle.chat
       IN  /\ Answer(c, d)
           /\ told' = [told EXCEPT ![d] = Status(d)]
           /\ buttons' = [buttons EXCEPT ![c] = @ \cup {Toggle(d, Status(d))}]
    /\ UNCHANGED <<outside, muted, since, clock, saved, alerted, botBounds>>

(* Both contexts are in memory.  What was sent to the chats stays there.   *)
Restart ==
    /\ restarts < MaxRestarts /\ restarts' = restarts + 1
    /\ muted' = {}
    /\ since' = [d \in Devices |-> AntiFlood]
    /\ clock' = PollPeriod - FirstPoll
    /\ queries' = << >>
    /\ modulosChat' = Nobody /\ alertasChat' = Nobody
    /\ detalle' = [chat |-> Nobody, device |-> Nobody]
    /\ UNCHANGED <<outside, buttons, history, commands>>

-----------------------------------------------------------------------------
SomeAnswer ==
    \E i \in 1 .. MaxQueries :
        AnswerPoll(i) \/ AnswerModules(i) \/ AnswerMenu(i) \/ AnswerDetail(i)

Operator(c) ==
    \/ AskModules(c) \/ AskMenu(c) \/ PressToggle(c)
    \/ \E d \in Devices :
        \/ PressDetail(c, d)
        \/ \E state \in State : Set(c, d, state)

BotNext ==
    \/ \E d \in Devices : Report(d)
    \/ Tick \/ Poll \/ SomeAnswer
    \/ \E c \in Chats : Operator(c)
    \/ Restart

(* Time passes, the poll is injected, and the database answers.            *)
BotFairness == WF_botVars(Tick) /\ WF_botVars(Poll) /\ WF_botVars(SomeAnswer)

BotSpec == BotInit /\ [][BotNext]_botVars /\ BotFairness

-----------------------------------------------------------------------------
BotTypeOK ==
    /\ outside \subseteq Devices /\ muted \subseteq Devices
    /\ since \in [Devices -> 0 .. AntiFlood]
    /\ clock \in 0 .. PollPeriod
    /\ queries \in Seq(Query) /\ Len(queries) <= MaxQueries
    /\ modulosChat \in Chats \cup {Nobody} /\ alertasChat \in Chats \cup {Nobody}
    /\ detalle \in [chat : Chats \cup {Nobody}, device : Devices \cup {Nobody}]
    /\ buttons \in [Chats -> SUBSET [device : Devices, label : Label]]
    /\ alerted \subseteq Devices
    /\ told \in [Devices -> State]

(* As long as Node-RED is not restarted, what the operators were last told *)
(* of a collar's alerts, in whatever chat and by whatever message, is how  *)
(* they are, although a message is made of variables that another question *)
(* may have changed since.                                                 *)
ToldIsTrue == restarts = 0 => \A d \in Devices : told[d] = Status(d)

(* A collar that stays outside with its alerts active is alerted for again *)
(* and again, whatever the operators ask meanwhile, and however late the   *)
(* database answers.                                                       *)
KeepsAlerting ==
    \A d \in Devices :
        <>[](d \in outside \ muted) => []<>(d \in alerted)

=============================================================================
