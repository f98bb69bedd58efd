------------------------------ MODULE Multicore ------------------------------
(***************************************************************************)
(* The boot handshake between the CM7 (core 0, master) and the CM4         *)
(* (core 1, slave): main_cm7.cpp and main_cm4.cpp up to their first        *)
(* exchanged message, core/multicore.cpp, the MCMGR startup-data protocol  *)
(* and the RPMsg-Lite link set-up that it calls.                           *)
(*                                                                         *)
(* Each core runs one thread (main) and one interrupt handler (the MU      *)
(* receive interrupt).  The handler preempts its own core's thread and     *)
(* runs to completion; the cores run truly concurrently.  The only links   *)
(* between them are one Messaging Unit register per direction (MCMGR uses  *)
(* a single MU channel for every kind of event) and the RPMsg rings, which *)
(* are FIFOs here.                                                         *)
(***************************************************************************)
EXTENDS Integers, Sequences

CONSTANTS
  Chunk,              \* 2^16: values of the data field of an MCMGR event
  RpmsgBase,          \* address of rpmsg_base in core 0's image, two chunks wide
  Timeout,            \* CORE1_BOOT_TIMEOUT, in ticks
  RL_BUFFER_COUNT     \* buffers of one RPMsg ring

ASSUME ChunkAssumption == Chunk \in Nat /\ Chunk > 3
ASSUME RpmsgBaseAssumption == RpmsgBase \in Nat \ {0} /\ RpmsgBase \div Chunk < Chunk
ASSUME TimeoutAssumption == Timeout \in Nat \ {0}
ASSUME BufferAssumption == RL_BUFFER_COUNT \in Nat \ {0}

Core == {0, 1}
Other(c) == 1 - c

(* kMCMGR_*CoreState *)
Reset == 0
GettingLow == 1
GettingHigh == 2
Running == 3

(* Application events, core/device/board.h *)
LinkReady == 1
EndpointReady == 2

EventType == {"CoreUp", "StartupData", "FeedStartupData", "RPMsg", "Application"}

Word == [type : EventType \cup {"None"}, data : 0 .. (Chunk - 1)]
Event(t, d) == [type |-> t, data |-> d]
NoWord == Event("None", 0)

(***************************************************************************)
(* A call of MU_SendMsg under way: the word, whether the TX-empty flag has *)
(* been seen, and the core state to store when the call returns.           *)
(***************************************************************************)
Send == [word : Word, te : BOOLEAN, state : 0 .. 3]
Sending(w, s) == [word |-> w, te |-> FALSE, state |-> s]
NoSend == Sending(NoWord, Reset)

VARIABLES
  pc,              \* [Core -> label]: where the thread is
  thread,          \* [Core -> Send]: the thread's MU_SendMsg, or NoSend
  isr,             \* [Core -> Send]: the handler's MU_SendMsg, NoSend when no handler runs
  mu,              \* [Core -> Word]: the word sent by the core and not yet read
  irq,             \* [Core -> BOOLEAN]: MU receive interrupt enabled
  eventTable,      \* [Core -> SUBSET EventType]: MCMGR_eventTable, types with a callback
  state,           \* [Core -> 0..3]: each core's copy of s_mcmgrCoresContext[Core1].state
  startupData,     \* [Core -> Nat]: ... and of its startupData
  applicationEvent, \* application_event_data (core 0)
  rpmsgBaseAddress, \* rpmsg_base_address (core 1), 0 until it is received
  elapsed,         \* clock::ms() - start on core 1, saturated at Timeout + 1
  initialised,     \* [Core -> ...]: what initialise() returned
  rpmsg,           \* [Core -> BOOLEAN]: the RPMsg instance is not NULL
  link,            \* [Core -> BOOLEAN]: rpmsg_lite_instance.link_state
  endpoint,        \* [Core -> BOOLEAN]: the endpoint exists
  callback,        \* [Core -> BOOLEAN]: message_callback is not NULL
  vring,           \* [Core -> Seq]: RPMsg messages queued for the core
  received         \* [Core -> BOOLEAN]: has_received

vars == <<pc, thread, isr, mu, irq, eventTable, state, startupData,
          applicationEvent, rpmsgBaseAddress, elapsed, initialised, rpmsg,
          link, endpoint, callback, vring, received>>

Label0 == {"EarlyInit", "Init", "RegisterEvent", "StartCore", "WaitRunning",
           "WaitLinkReady", "MasterInit", "MasterKick", "CreateEndpoint",
           "WaitEndpointReady", "RegisterCallback", "Send", "Kick",
           "WaitMessage", "Done"}
Label1 == {"Off", "EarlyInit", "Init", "GetStartupData", "ReadStatus",
           "LoopTest", "CheckTimeout", "RemoteInit", "LinkDown", "LinkReady",
           "WaitLinkUp", "CreateEndpoint", "EndpointReady", "Return",
           "RegisterCallback", "WaitMessage", "Send", "Kick", "Done"}

Message == {"ping", "hello"}

Init ==
  /\ pc = [c \in Core |-> IF c = 0 THEN "EarlyInit" ELSE "Off"]
  /\ thread = [c \in Core |-> NoSend]
  /\ isr = [c \in Core |-> NoSend]
  /\ mu = [c \in Core |-> NoWord]
  /\ irq = [c \in Core |-> FALSE]
  /\ eventTable = [c \in Core |-> {}]
  /\ state = [c \in Core |-> Reset]
  /\ startupData = [c \in Core |-> 0]
  /\ applicationEvent = 0
  /\ rpmsgBaseAddress = 0
  /\ elapsed = 0
  /\ initialised = [c \in Core |-> "pending"]
  /\ rpmsg = [c \in Core |-> FALSE]
  /\ link = [c \in Core |-> FALSE]
  /\ endpoint = [c \in Core |-> FALSE]
  /\ callback = [c \in Core |-> FALSE]
  /\ vring = [c \in Core |-> <<>>]
  /\ received = [c \in Core |-> FALSE]

-----------------------------------------------------------------------------
(* Groups of variables that most steps leave alone. *)
mcmgrVars == <<irq, eventTable, state, startupData, applicationEvent>>
bootVars == <<rpmsgBaseAddress, elapsed, initialised>>
rpmsgVars == <<rpmsg, link, endpoint, callback, vring, received>>

(* The thread of core c takes its next statement: no handler preempts it   *)
(* and no MU_SendMsg of its own is pending.                                *)
At(c, label) ==
  /\ pc[c] = label
  /\ isr[c] = NoSend
  /\ thread[c] = NoSend

Goto(c, label) == pc' = [pc EXCEPT ![c] = label]

(* MCMGR_TriggerEvent from the thread: a blocking MU_SendMsg begins.       *)
TriggerEvent(c, t, d) ==
  thread' = [thread EXCEPT ![c] = Sending(Event(t, d), Reset)]

(* platform_notify -> MCMGR_TriggerEventForce -> MU_SendMsgNonBlocking:    *)
(* the TX register is written without looking at its empty flag.           *)
TriggerEventForce(c, t, d) == mu' = [mu EXCEPT ![c] = Event(t, d)]

(* The ring a core receives on: rvq is ring 0 on the master and ring 1 on  *)
(* the remote; tvq is the other one.                                       *)
Rvq(c) == c
TvqSwapped(c) == c
Tvq(c) == Other(c)

-----------------------------------------------------------------------------
(* MU_SendMsg: wait for the TX register to be empty, then write it.  The   *)
(* two are separate instructions; the thread can be interrupted between.   *)
ThreadSendForced(c) ==
  /\ isr[c] = NoSend /\ thread[c] # NoSend /\ ~thread[c].te
  /\ thread' = [thread EXCEPT ![c].te = TRUE]
  /\ UNCHANGED <<pc, isr, mu, mcmgrVars, bootVars, rpmsgVars>>

ThreadSendPoll(c) ==
  /\ isr[c] = NoSend /\ thread[c] # NoSend /\ ~thread[c].te
  /\ mu[c] = NoWord
  /\ thread' = [thread EXCEPT ![c].te = TRUE]
  /\ UNCHANGED <<pc, isr, mu, mcmgrVars, bootVars, rpmsgVars>>

ThreadSendWrite(c) ==
  /\ isr[c] = NoSend /\ thread[c].te
  /\ mu' = [mu EXCEPT ![c] = thread[c].word]
  /\ thread' = [thread EXCEPT ![c] = NoSend]
  /\ UNCHANGED <<pc, isr, mcmgrVars, bootVars, rpmsgVars>>

IsrSendPoll(c) ==
  /\ isr[c] # NoSend /\ ~isr[c].te
  /\ mu[c] = NoWord
  /\ isr' = [isr EXCEPT ![c].te = TRUE]
  /\ UNCHANGED <<pc, thread, mu, mcmgrVars, bootVars, rpmsgVars>>

(* The handler's send completes; FeedStartupDataEventHandler only then     *)
(* stores the chunk it was asked for as the core's state.                  *)
IsrSendWrite(c) ==
  /\ isr[c].te
  /\ mu' = [mu EXCEPT ![c] = isr[c].word]
  /\ state' = [state EXCEPT ![c] = isr[c].state]
  /\ isr' = [isr EXCEPT ![c] = NoSend]
  /\ UNCHANGED <<pc, thread, irq, eventTable, startupData, applicationEvent,
                 bootVars, rpmsgVars>>

-----------------------------------------------------------------------------
AnswerBeforeRead(c, w) ==
  /\ irq[c] /\ isr[c] = NoSend
  /\ w = mu[Other(c)] /\ w # NoWord
  /\ mu' = IF w.type \in {"StartupData", "FeedStartupData"}
             THEN mu ELSE [mu EXCEPT ![Other(c)] = NoWord]

(* The MU receive interrupt: mu_isr -> mcmgr_mu_channel_handler reads the  *)
(* word the other core sent and calls the callback of its type, if any.    *)
Receive(c, w) ==
  /\ irq[c] /\ isr[c] = NoSend
  /\ w = mu[Other(c)] /\ w # NoWord
  /\ mu' = [mu EXCEPT ![Other(c)] = NoWord]

(* No callback is registered for the type, or the startup handlers' switch *)
(* has no case for the core's state or for the chunk asked for.            *)
ReceiveIgnored(c) ==
  \E w \in {mu[Other(c)]} :
    /\ Receive(c, w)
    /\ \/ w.type \notin eventTable[c]
       \/ w.type = "StartupData" /\ state[c] \notin {GettingLow, GettingHigh}
       \/ w.type = "FeedStartupData"
            /\ w.data \notin {GettingLow, GettingHigh, Running}
    /\ UNCHANGED <<pc, thread, isr, mcmgrVars, bootVars, rpmsgVars>>

HighHalfUnshifted(low, chunk) == low + chunk

(* startupData |= chunk << 16: the low half has no bit above the 16th.     *)
WithHighHalf(low, chunk) == low + chunk * Chunk

(* MCMGR_StartupDataEventHandler, on the core that is being started.       *)
StartupDataEventHandler(c) ==
  \E w \in {mu[Other(c)]} :
    /\ Receive(c, w)
    /\ w.type = "StartupData" /\ w.type \in eventTable[c]
    /\ \/ /\ state[c] = GettingLow
          /\ startupData' = [startupData EXCEPT ![c] = w.data]
          /\ state' = [state EXCEPT ![c] = GettingHigh]
          /\ isr' = [isr EXCEPT ![c] =
                       Sending(Event("FeedStartupData", GettingHigh), GettingHigh)]
       \/ /\ state[c] = GettingHigh
          /\ startupData' = [startupData EXCEPT ![c] = WithHighHalf(@, w.data)]
          /\ state' = [state EXCEPT ![c] = Running]
          /\ isr' = [isr EXCEPT ![c] =
                       Sending(Event("FeedStartupData", Running), Running)]
    /\ UNCHANGED <<pc, thread, irq, eventTable, applicationEvent, bootVars,
                   rpmsgVars>>

(* MCMGR_FeedStartupDataEventHandler, on the core that starts the other.   *)
FeedStartupDataEventHandler(c) ==
  \E w \in {mu[Other(c)]} :
    /\ Receive(c, w)
    /\ w.type = "FeedStartupData" /\ w.type \in eventTable[c]
    /\ \/ /\ w.data = GettingLow
          /\ isr' = [isr EXCEPT ![c] =
               Sending(Event("StartupData", startupData[c] % Chunk), GettingLow)]
          /\ UNCHANGED state
       \/ /\ w.data = GettingHigh
          /\ isr' = [isr EXCEPT ![c] =
               Sending(Event("StartupData", startupData[c] \div Chunk), GettingHigh)]
          /\ UNCHANGED state
       \/ /\ w.data = Running
          /\ state' = [state EXCEPT ![c] = Running]
          /\ UNCHANGED isr
    /\ UNCHANGED <<pc, thread, irq, eventTable, startupData, applicationEvent,
                   bootVars, rpmsgVars>>

ApplicationEventUnmasked(c) ==
  \E w \in {mu[Other(c)]} :
    /\ Receive(c, w)
    /\ w.type = "Application" /\ w.type \in eventTable[c]
    /\ applicationEvent' = 7 * Chunk + w.data
    /\ UNCHANGED <<pc, thread, isr, irq, eventTable, state, startupData,
                   bootVars, rpmsgVars>>

(* application_event_callback: the last event overwrites the previous one. *)
ApplicationEventCallback(c) ==
  \E w \in {mu[Other(c)]} :
    /\ Receive(c, w)
    /\ w.type = "Application" /\ w.type \in eventTable[c]
    /\ applicationEvent' = w.data
    /\ UNCHANGED <<pc, thread, isr, irq, eventTable, state, startupData,
                   bootVars, rpmsgVars>>

(* rpmsg_lite_tx_callback, run for a kick on the core's transmit ring.     *)
RpmsgTxCallback(c) ==
  \E w \in {mu[Other(c)]} :
    /\ Receive(c, w)
    /\ w.type = "RPMsg" /\ w.type \in eventTable[c]
    /\ w.data = Tvq(c)
    /\ link' = [link EXCEPT ![c] = TRUE]
    /\ UNCHANGED <<pc, thread, isr, mcmgrVars, bootVars, rpmsg, endpoint,
                   callback, vring, received>>

(* rpmsg_lite_rx_callback, run for a kick on the core's receive ring:      *)
(* every queued message is taken, given to endpoint_callback when the      *)
(* endpoint exists, and its buffer released.  endpoint_callback drops it   *)
(* when no message_callback is registered.                                 *)
RpmsgRxCallback(c) ==
  \E w \in {mu[Other(c)]} :
    /\ Receive(c, w)
    /\ w.type = "RPMsg" /\ w.type \in eventTable[c]
    /\ w.data = Rvq(c)
    /\ vring' = [vring EXCEPT ![c] = <<>>]
    /\ received' = [received EXCEPT ![c] =
                      @ \/ (vring[c] # <<>> /\ endpoint[c] /\ callback[c])]
    /\ UNCHANGED <<pc, thread, isr, mcmgrVars, bootVars, rpmsg, link,
                   endpoint, callback>>

Isr(c) ==
  \/ ReceiveIgnored(c)
  \/ StartupDataEventHandler(c)
  \/ FeedStartupDataEventHandler(c)
  \/ ApplicationEventCallback(c)
  \/ RpmsgTxCallback(c)
  \/ RpmsgRxCallback(c)
  \/ IsrSendPoll(c)
  \/ IsrSendWrite(c)

-----------------------------------------------------------------------------
(* SystemInitHook -> MCMGR_EarlyInit, during reset of either core.         *)
EarlyInit(c) ==
  /\ At(c, "EarlyInit")
  /\ TriggerEvent(c, "CoreUp", 0)
  /\ Goto(c, "Init")
  /\ UNCHANGED <<isr, mu, mcmgrVars, bootVars, rpmsgVars>>

(* MCMGR_Init: register the two startup handlers, enable the interrupt.    *)
(* On core 1, initialise() then reads the clock for its boot timeout.      *)
MCMGR_Init(c) ==
  /\ At(c, "Init")
  /\ eventTable' = [eventTable EXCEPT ![c] = {"StartupData", "FeedStartupData"}]
  /\ irq' = [irq EXCEPT ![c] = TRUE]
  /\ Goto(c, IF c = 0 THEN "RegisterEvent" ELSE "GetStartupData")
  /\ UNCHANGED <<thread, isr, mu, state, startupData, applicationEvent,
                 bootVars, rpmsgVars>>

RegisterEvent ==
  /\ At(0, "RegisterEvent")
  /\ eventTable' = [eventTable EXCEPT ![0] = @ \cup {"Application"}]
  /\ Goto(0, "StartCore")
  /\ UNCHANGED <<thread, isr, mu, irq, state, startupData, applicationEvent,
                 bootVars, rpmsgVars>>

(* MCMGR_StartCore: the startup data is set, then core 1 leaves reset.     *)
StartCore ==
  /\ At(0, "StartCore")
  /\ startupData' = [startupData EXCEPT ![0] = RpmsgBase]
  /\ pc' = [pc EXCEPT ![0] = "WaitRunning", ![1] = "EarlyInit"]
  /\ UNCHANGED <<thread, isr, mu, irq, eventTable, state, applicationEvent,
                 bootVars, rpmsgVars>>

(* The spin of MCMGR_StartCore in synchronous mode.                        *)
WaitRunning ==
  /\ At(0, "WaitRunning")
  /\ state[0] = Running
  /\ Goto(0, "WaitLinkReady")
  /\ UNCHANGED <<thread, isr, mu, mcmgrVars, bootVars, rpmsgVars>>

LinkReadyNotAwaited ==
  /\ At(0, "WaitLinkReady")
  /\ Goto(0, "MasterInit")
  /\ UNCHANGED <<thread, isr, mu, mcmgrVars, bootVars, rpmsgVars>>

WaitLinkReady ==
  /\ At(0, "WaitLinkReady")
  /\ applicationEvent = LinkReady
  /\ Goto(0, "MasterInit")
  /\ UNCHANGED <<thread, isr, mu, mcmgrVars, bootVars, rpmsgVars>>

(* rpmsg_lite_master_init: clear and fill both rings, register the RPMsg   *)
(* event, link up; its last statement is the kick of the next action.      *)
MasterInit ==
  /\ At(0, "MasterInit")
  /\ eventTable' = [eventTable EXCEPT ![0] = @ \cup {"RPMsg"}]
  /\ vring' = [c \in Core |-> <<>>]
  /\ link' = [link EXCEPT ![0] = TRUE]
  /\ Goto(0, "MasterKick")
  /\ UNCHANGED <<thread, isr, mu, irq, state, startupData, applicationEvent,
                 bootVars, rpmsg, endpoint, callback, received>>

MasterKick ==
  /\ At(0, "MasterKick")
  /\ TriggerEventForce(0, "RPMsg", Rvq(0))
  /\ rpmsg' = [rpmsg EXCEPT ![0] = TRUE]
  /\ Goto(0, "CreateEndpoint")
  /\ UNCHANGED <<thread, isr, mcmgrVars, bootVars, link, endpoint, callback,
                 vring, received>>

(* rpmsg_lite_create_ept: returns NULL without an instance.                *)
CreateEndpoint(c) ==
  /\ At(c, "CreateEndpoint")
  /\ endpoint' = [endpoint EXCEPT ![c] = rpmsg[c]]
  /\ Goto(c, IF c = 0 THEN "WaitEndpointReady" ELSE "EndpointReady")
  /\ UNCHANGED <<thread, isr, mu, mcmgrVars, bootVars, rpmsg, link, callback,
                 vring, received>>

EndpointReadyNotAwaited ==
  /\ At(0, "WaitEndpointReady")
  /\ initialised' = [initialised EXCEPT ![0] = "true"]
  /\ Goto(0, "RegisterCallback")
  /\ UNCHANGED <<thread, isr, mu, mcmgrVars, rpmsgBaseAddress, elapsed,
                 rpmsgVars>>

WaitEndpointReady ==
  /\ At(0, "WaitEndpointReady")
  /\ applicationEvent = EndpointReady
  /\ initialised' = [initialised EXCEPT ![0] = "true"]
  /\ Goto(0, "RegisterCallback")
  /\ UNCHANGED <<thread, isr, mu, mcmgrVars, rpmsgBaseAddress, elapsed,
                 rpmsgVars>>

(* register_message_callback, called by both mains after initialise().     *)
RegisterMessageCallback(c) ==
  /\ At(c, "RegisterCallback")
  /\ callback' = [callback EXCEPT ![c] = TRUE]
  /\ Goto(c, IF c = 0 THEN "Send" ELSE "WaitMessage")
  /\ UNCHANGED <<thread, isr, mu, mcmgrVars, bootVars, rpmsg, link, endpoint,
                 vring, received>>

(* send_message -> rpmsg_lite_send with RL_DONT_BLOCK; the result is       *)
(* ignored.  Nothing is queued or notified without an endpoint, while the  *)
(* link is down, or with no free buffer.                                   *)
SendMessage(c, m) ==
  /\ At(c, "Send")
  /\ IF endpoint[c] /\ link[c] /\ Len(vring[Other(c)]) < RL_BUFFER_COUNT
       THEN /\ vring' = [vring EXCEPT ![Other(c)] = Append(@, m)]
            /\ Goto(c, "Kick")
       ELSE /\ UNCHANGED vring
            /\ Goto(c, IF c = 0 THEN "WaitMessage" ELSE "Done")
  /\ UNCHANGED <<thread, isr, mu, mcmgrVars, bootVars, rpmsg, link, endpoint,
                 callback, received>>

(* virtqueue_kick(tvq), the last statement of rpmsg_lite_format_message.   *)
Kick(c) ==
  /\ At(c, "Kick")
  /\ TriggerEventForce(c, "RPMsg", Tvq(c))
  /\ Goto(c, IF c = 0 THEN "WaitMessage" ELSE "Done")
  /\ UNCHANGED <<thread, isr, mcmgrVars, bootVars, rpmsgVars>>

(* while (!has_received) in both mains.                                    *)
WaitMessage(c) ==
  /\ At(c, "WaitMessage")
  /\ received[c]
  /\ Goto(c, IF c = 0 THEN "Done" ELSE "Send")
  /\ UNCHANGED <<thread, isr, mu, mcmgrVars, bootVars, rpmsgVars>>

-----------------------------------------------------------------------------
(* MCMGR_GetStartupData asks for the low half the first time it is called. *)
GetStartupData ==
  /\ At(1, "GetStartupData")
  /\ \/ /\ state[1] = Reset
        /\ state' = [state EXCEPT ![1] = GettingLow]
        /\ TriggerEvent(1, "FeedStartupData", GettingLow)
     \/ /\ state[1] # Reset
        /\ UNCHANGED <<state, thread>>
  /\ Goto(1, "ReadStatus")
  /\ UNCHANGED <<isr, mu, irq, eventTable, startupData, applicationEvent,
                 bootVars, rpmsgVars>>

(* mcmgr_get_startup_data_internal: the data is there once core 1 runs.    *)
ReadStatus ==
  /\ At(1, "ReadStatus")
  /\ \/ /\ state[1] >= Running
        /\ rpmsgBaseAddress' = startupData[1]
        /\ Goto(1, "CheckTimeout")
     \/ /\ state[1] < Running
        /\ Goto(1, "LoopTest")
        /\ UNCHANGED rpmsgBaseAddress
  /\ UNCHANGED <<thread, isr, mu, mcmgrVars, elapsed, initialised, rpmsgVars>>

(* The loop condition's clock test, evaluated only without the data.       *)
LoopTest ==
  /\ At(1, "LoopTest")
  /\ Goto(1, IF elapsed < Timeout THEN "GetStartupData" ELSE "CheckTimeout")
  /\ UNCHANGED <<thread, isr, mu, mcmgrVars, bootVars, rpmsgVars>>

(* The test after the loop reads the clock again, and with > instead of >=.*)
CheckTimeout ==
  /\ At(1, "CheckTimeout")
  /\ \/ /\ elapsed > Timeout
        /\ initialised' = [initialised EXCEPT ![1] = "false"]
        /\ Goto(1, "RegisterCallback")
     \/ /\ elapsed <= Timeout
        /\ Goto(1, "RemoteInit")
        /\ UNCHANGED initialised
  /\ UNCHANGED <<thread, isr, mu, mcmgrVars, rpmsgBaseAddress, elapsed,
                 rpmsgVars>>

(* rpmsg_lite_remote_init: NULL for address 0; otherwise the RPMsg event   *)
(* is registered and the queues are installed for the interrupt ...        *)
RemoteInit ==
  /\ At(1, "RemoteInit")
  /\ \/ /\ rpmsgBaseAddress = 0
        /\ Goto(1, "LinkReady")
        /\ UNCHANGED eventTable
     \/ /\ rpmsgBaseAddress # 0
        /\ eventTable' = [eventTable EXCEPT ![1] = @ \cup {"RPMsg"}]
        /\ Goto(1, "LinkDown")
  /\ UNCHANGED <<thread, isr, mu, irq, state, startupData, applicationEvent,
                 bootVars, rpmsgVars>>

(* ... and only then is link_state cleared.                                *)
LinkDown ==
  /\ At(1, "LinkDown")
  /\ link' = [link EXCEPT ![1] = FALSE]
  /\ rpmsg' = [rpmsg EXCEPT ![1] = TRUE]
  /\ Goto(1, "LinkReady")
  /\ UNCHANGED <<thread, isr, mu, mcmgrVars, bootVars, endpoint, callback,
                 vring, received>>

TriggerLinkReady ==
  /\ At(1, "LinkReady")
  /\ TriggerEvent(1, "Application", LinkReady)
  /\ Goto(1, "WaitLinkUp")
  /\ UNCHANGED <<isr, mu, mcmgrVars, bootVars, rpmsgVars>>

LinkUpNotAwaited ==
  /\ At(1, "WaitLinkUp")
  /\ Goto(1, "CreateEndpoint")
  /\ UNCHANGED <<thread, isr, mu, mcmgrVars, bootVars, rpmsgVars>>

(* rpmsg_lite_wait_for_link_up: returns at once without an instance.       *)
WaitLinkUp ==
  /\ At(1, "WaitLinkUp")
  /\ rpmsg[1] => link[1]
  /\ Goto(1, "CreateEndpoint")
  /\ UNCHANGED <<thread, isr, mu, mcmgrVars, bootVars, rpmsgVars>>

TriggerEndpointReady ==
  /\ At(1, "EndpointReady")
  /\ TriggerEvent(1, "Application", EndpointReady)
  /\ Goto(1, "Return")
  /\ UNCHANGED <<isr, mu, mcmgrVars, bootVars, rpmsgVars>>

(* The slave's initialise() returns true; main_cm4.cpp ignores the value.  *)
ReturnTrue ==
  /\ At(1, "Return")
  /\ initialised' = [initialised EXCEPT ![1] = "true"]
  /\ Goto(1, "RegisterCallback")
  /\ UNCHANGED <<thread, isr, mu, mcmgrVars, rpmsgBaseAddress, elapsed,
                 rpmsgVars>>

(* SysTick on core 1.  The clock is read only while initialise() waits for *)
(* the startup data, and only compared with Timeout.                       *)
Tick ==
  /\ pc[1] \in {"GetStartupData", "ReadStatus", "LoopTest", "CheckTimeout"}
  /\ elapsed <= Timeout
  /\ elapsed' = elapsed + 1
  /\ UNCHANGED <<pc, thread, isr, mu, mcmgrVars, rpmsgBaseAddress, initialised,
                 rpmsgVars>>

-----------------------------------------------------------------------------
Thread0 ==
  \/ EarlyInit(0) \/ MCMGR_Init(0) \/ RegisterEvent \/ StartCore
  \/ WaitRunning \/ WaitLinkReady \/ MasterInit \/ MasterKick
  \/ CreateEndpoint(0) \/ WaitEndpointReady \/ RegisterMessageCallback(0)
  \/ SendMessage(0, "ping") \/ Kick(0) \/ WaitMessage(0)
  \/ ThreadSendPoll(0) \/ ThreadSendWrite(0)

Thread1 ==
  \/ EarlyInit(1) \/ MCMGR_Init(1) \/ GetStartupData \/ ReadStatus \/ LoopTest
  \/ CheckTimeout \/ RemoteInit \/ LinkDown \/ TriggerLinkReady \/ WaitLinkUp
  \/ CreateEndpoint(1) \/ TriggerEndpointReady \/ ReturnTrue
  \/ RegisterMessageCallback(1)
  \/ WaitMessage(1) \/ SendMessage(1, "hello") \/ Kick(1)
  \/ ThreadSendPoll(1) \/ ThreadSendWrite(1)

Next == Thread0 \/ Thread1 \/ Isr(0) \/ Isr(1) \/ Tick

Spec == Init /\ [][Next]_vars

(* Both cores keep executing and a pending, enabled interrupt is taken.    *)
(* Nothing is assumed of the clock.                                        *)
FairSpec == Spec /\ WF_vars(Thread0) /\ WF_vars(Thread1)
                 /\ WF_vars(Isr(0)) /\ WF_vars(Isr(1))

-----------------------------------------------------------------------------
TypeOK ==
  /\ pc \in [Core -> Label0 \cup Label1]
  /\ pc[0] \in Label0 /\ pc[1] \in Label1
  /\ thread \in [Core -> Send]
  /\ isr \in [Core -> Send]
  /\ mu \in [Core -> Word]
  /\ irq \in [Core -> BOOLEAN]
  /\ eventTable \in [Core -> SUBSET EventType]
  /\ state \in [Core -> Reset .. Running]
  /\ startupData \in [Core -> Nat]
  /\ applicationEvent \in {0, LinkReady, EndpointReady}
  /\ rpmsgBaseAddress \in Nat
  /\ elapsed \in 0 .. (Timeout + 1)
  /\ initialised \in [Core -> {"pending", "true", "false"}]
  /\ rpmsg \in [Core -> BOOLEAN]
  /\ link \in [Core -> BOOLEAN]
  /\ endpoint \in [Core -> BOOLEAN]
  /\ callback \in [Core -> BOOLEAN]
  /\ vring \in [Core -> Seq(Message)]
  /\ received \in [Core -> BOOLEAN]

(* Core 1 left the startup-data loop at exactly the timeout, without data, *)
(* and was not stopped by the test after it (multicore.cpp:168-173).       *)
BootedBlind ==
  /\ rpmsgBaseAddress = 0
  /\ initialised[1] # "false"
  /\ pc[1] \in {"RemoteInit", "LinkReady", "WaitLinkUp", "CreateEndpoint",
               "EndpointReady", "Return", "RegisterCallback", "WaitMessage"}

TimedOut == BootedBlind \/ initialised[1] = "false"

(* A word leaves the MU register only by being read: neither a forced      *)
(* RPMsg notification nor a blocking send that was interrupted between its *)
(* test and its write overwrites an event the other core has not seen.     *)
NoLostWord ==
  [][\A c \in Core : mu[c] # NoWord /\ mu'[c] # mu[c] =>
       mu'[c] = NoWord \/ BootedBlind]_vars

(* The address core 1 gives to rpmsg_lite_remote_init, received as two     *)
(* halves through interrupt handlers on both cores, is the one core 0      *)
(* passed to MCMGR_StartCore.                                              *)
StartupDataIntact ==
  /\ rpmsgBaseAddress \in {0, RpmsgBase}
  /\ state[1] = Running => startupData[1] = RpmsgBase

(* Core 0 sees RPMSG_LINK_READY before RPMSG_ENDPOINT_READY overwrites it  *)
(* in the single variable application_event_data.                          *)
LinkReadyIsSeen ==
  applicationEvent = EndpointReady /\ ~BootedBlind =>
    pc[0] \notin {"WaitRunning", "WaitLinkReady"}

(* A message is only ever on its way to a core whose endpoint exists and   *)
(* whose link is up; the reply also finds core 0's callback registered.    *)
MessageHasEndpoint ==
  /\ vring[0] # <<>> => endpoint[0] /\ link[0] /\ callback[0]
  /\ vring[1] # <<>> /\ ~BootedBlind => endpoint[1] /\ link[1]

(* The handlers that answer one another with blocking sends never spin on  *)
(* each other: one of the two registers they wait for is empty.            *)
HandlersNeverDeadlock ==
  ~ \A c \in Core : isr[c] # NoSend /\ ~isr[c].te /\ mu[c] # NoWord

(* A slave whose initialise() returned false is never sent a message: core *)
(* 0 does not get past its wait for RPMSG_LINK_READY.                      *)
TimedOutSlaveIsNotContacted ==
  initialised[1] = "false" =>
    pc[0] \in {"WaitRunning", "WaitLinkReady"} /\ vring[1] = <<>>

(* initialise() returns true on the secondary core only when "it booted    *)
(* successfully and received necessary startup data" (multicore.h:21-23).  *)
InitialisedMeansStartupData ==
  initialised[1] = "true" => rpmsgBaseAddress = RpmsgBase

(* The ping was taken from the ring while core 1 had no message callback.  *)
PingDropped ==
  pc[0] = "WaitMessage" /\ vring[1] = <<>> /\ ~received[1]

(* Unless the slave times out, core 0 gets "the message from the secondary *)
(* core that it has started up" (main_cm7.cpp:91).                         *)
BootCompletes == <>(TimedOut \/ pc[0] = "Done")

(* The only other way to fail is the ping that finds no callback; in every *)
(* other run both mains get past their waits.                              *)
BootCompletesUnlessPingDropped ==
  <>(TimedOut \/ PingDropped \/ (pc[0] = "Done" /\ pc[1] = "Done"))
=============================================================================
