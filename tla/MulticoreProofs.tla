-------------------------- MODULE MulticoreProofs --------------------------
(***************************************************************************)
(* Theorems about Multicore.tla, for every base address, timeout and       *)
(* buffer count.                                                           *)
(***************************************************************************)
EXTENDS MulticoreInvariant, TLAPS

USE DEF Core, Other, Reset, GettingLow, GettingHigh, Running, LinkReady,
        EndpointReady, Event, NoWord, Sending, NoSend, At, Goto, Receive,
        Rvq, Tvq, TriggerEvent, TriggerEventForce, mcmgrVars, bootVars, rpmsgVars

(* The two halves of the base address fit an event's data field, and the   *)
(* slave's StartupDataEventHandler puts them together again.               *)
LEMMA Halves ==
  /\ Low \in 0 .. (Chunk - 1)
  /\ High \in 0 .. (Chunk - 1)
  /\ WithHighHalf(Low, High) = RpmsgBase
<1>1. RpmsgBase % Chunk \in 0 .. (Chunk - 1)
  BY ChunkAssumption, RpmsgBaseAssumption
<1>2. RpmsgBase \div Chunk \in 0 .. (Chunk - 1)
  BY ChunkAssumption, RpmsgBaseAssumption
<1>3. (RpmsgBase % Chunk) + (RpmsgBase \div Chunk) * Chunk = RpmsgBase
  BY ChunkAssumption, RpmsgBaseAssumption
<1> QED
  BY <1>1, <1>2, <1>3 DEF WithHighHalf, Low, High

(* Updating one core's entry of a per-core variable keeps its type.        *)
LEMMA Updated ==
  ASSUME NEW S, NEW f \in [Core -> S], NEW c \in Core, NEW v \in S
  PROVE  [f EXCEPT ![c] = v] \in [Core -> S]
  OBVIOUS

(* Every step keeps the types, given the words each sender can produce. *)
LEMMA TypeStep ==
  ASSUME IInv, [Next]_vars
  PROVE  TypeOK'
<1>1. ASSUME NEW c \in Core, ThreadSendPoll(c) PROVE TypeOK'
  <2>1. [thread[c] EXCEPT !.te = TRUE] \in Send
    BY <1>1 DEF IInv, TypeOK, Send
  <2>2. thread' \in [Core -> Send]
    <3>1. thread \in [Core -> Send]
          /\ thread' = [thread EXCEPT ![c] = [thread[c] EXCEPT !.te = TRUE]]
      BY <1>1 DEF ThreadSendPoll, IInv, TypeOK
    <3> QED
      BY <3>1, <2>1, Updated
  <2> QED
    BY <1>1, <2>2 DEF ThreadSendPoll, IInv, TypeOK
<1>2. ASSUME NEW c \in Core, ThreadSendWrite(c) PROVE TypeOK'
  BY <1>2, ChunkAssumption DEF ThreadSendWrite, IInv, TypeOK, Send
<1>3. ASSUME NEW c \in Core, EarlyInit(c) PROVE TypeOK'
  BY <1>3, ChunkAssumption
  DEF EarlyInit, IInv, TypeOK, Label0, Label1, Word, Send, EventType
<1>4. ASSUME NEW c \in Core, MCMGR_Init(c) PROVE TypeOK'
  BY <1>4, ChunkAssumption
  DEF MCMGR_Init, IInv, TypeOK, Label0, Label1, EventType
<1>5. ASSUME NEW c \in Core, CreateEndpoint(c) PROVE TypeOK'
  BY <1>5, ChunkAssumption DEF CreateEndpoint, IInv, TypeOK, Label0, Label1
<1>6. ASSUME NEW c \in Core, RegisterMessageCallback(c) PROVE TypeOK'
  BY <1>6, ChunkAssumption
  DEF RegisterMessageCallback, IInv, TypeOK, Label0, Label1
<1>7. ASSUME NEW c \in Core, Kick(c) PROVE TypeOK'
  BY <1>7, ChunkAssumption
  DEF Kick, IInv, TypeOK, Label0, Label1, Word, EventType
<1>8. ASSUME NEW c \in Core, WaitMessage(c) PROVE TypeOK'
  BY <1>8, ChunkAssumption DEF WaitMessage, IInv, TypeOK, Label0, Label1
<1>9. ASSUME NEW c \in Core, ReceiveIgnored(c) PROVE TypeOK'
  BY <1>9, ChunkAssumption
  DEF ReceiveIgnored, IInv, TypeOK, Label0, Label1, Send
<1>10. ASSUME NEW c \in Core, StartupDataEventHandler(c) PROVE TypeOK'
  <2> SUFFICES ASSUME mu[Other(c)] \in Word PROVE TypeOK'
    BY DEF IInv, TypeOK
  <2>1. mu[Other(c)].data \in Nat /\ startupData[c] \in Nat
    BY <1>10, ChunkAssumption DEF Word, IInv, TypeOK
  <2>2. WithHighHalf(startupData[c], mu[Other(c)].data) \in Nat
    BY <2>1, ChunkAssumption DEF WithHighHalf
  <2>3. /\ Sending(Event("FeedStartupData", GettingHigh), GettingHigh) \in Send
        /\ Sending(Event("FeedStartupData", Running), Running) \in Send
    BY ChunkAssumption DEF Send, Word, EventType
  <2>4. isr' \in [Core -> Send]
    <3>1. isr \in [Core -> Send]
      BY DEF IInv, TypeOK
    <3>2. \E v \in Send : isr' = [isr EXCEPT ![c] = v]
      BY <1>10, <2>3 DEF StartupDataEventHandler
    <3> QED
      BY <3>1, <3>2, Updated
  <2>5. startupData' \in [Core -> Nat]
    BY <1>10, <2>1, <2>2 DEF StartupDataEventHandler, IInv, TypeOK
  <2>6. mu' \in [Core -> Word]
    BY <1>10, ChunkAssumption DEF StartupDataEventHandler, IInv, TypeOK, Word
  <2> QED
    BY <1>10, <2>4, <2>5, <2>6 DEF StartupDataEventHandler, IInv, TypeOK
<1>11. ASSUME NEW c \in Core, FeedStartupDataEventHandler(c) PROVE TypeOK'
  <2> SUFFICES isr' \in [Core -> Send] /\ mu' \in [Core -> Word]
  /\ state' \in [Core -> Reset .. Running]
    BY <1>11 DEF FeedStartupDataEventHandler, IInv, TypeOK
  <2>1. startupData[c] \in Nat
    BY <1>11 DEF IInv, TypeOK
  <2>2. startupData[0] = 0 \/ startupData[0] = RpmsgBase
    BY DEF IInv, Local
  <2>7. 0 \div Chunk \in 0 .. (Chunk - 1) /\ 0 % Chunk \in 0 .. (Chunk - 1)
    BY ChunkAssumption
  <2>3. c = 0
    BY <1>11, ChunkAssumption
    DEF FeedStartupDataEventHandler, IInv, Words, MuWords
  <2>4. startupData[0] % Chunk \in 0 .. (Chunk - 1)
        /\ startupData[0] \div Chunk \in 0 .. (Chunk - 1)
    BY <2>2, <2>7, Halves DEF Low, High
  <2>5. /\ Sending(Event("StartupData", startupData[0] % Chunk), GettingLow) \in Send
        /\ Sending(Event("StartupData", startupData[0] \div Chunk), GettingHigh) \in Send
    BY <2>4 DEF Send, Word, EventType
  <2>6. isr' \in [Core -> Send]
    <3>1. isr \in [Core -> Send]
      BY DEF IInv, TypeOK
    <3>2. \/ isr' = isr
          \/ \E v \in Send : isr' = [isr EXCEPT ![c] = v]
      BY <1>11, <2>3, <2>5 DEF FeedStartupDataEventHandler
    <3> QED
      BY <3>1, <3>2, Updated
  <2> QED
    BY <1>11, <2>6, ChunkAssumption
    DEF FeedStartupDataEventHandler, IInv, TypeOK, Word
<1>12. ASSUME NEW c \in Core, ApplicationEventCallback(c) PROVE TypeOK'
  <2>1. applicationEvent' \in {0, LinkReady, EndpointReady}
    BY <1>12, ChunkAssumption
    DEF ApplicationEventCallback, IInv, Words, MuWords
  <2>2. mu' \in [Core -> Word]
    BY <1>12, ChunkAssumption DEF ApplicationEventCallback, IInv, TypeOK, Word
  <2> QED
    BY <1>12, <2>1, <2>2 DEF ApplicationEventCallback, IInv, TypeOK
<1>13. ASSUME NEW c \in Core, RpmsgTxCallback(c) PROVE TypeOK'
  BY <1>13, ChunkAssumption
  DEF RpmsgTxCallback, IInv, TypeOK, Label0, Label1, Send
<1>14. ASSUME NEW c \in Core, RpmsgRxCallback(c) PROVE TypeOK'
  BY <1>14, ChunkAssumption
  DEF RpmsgRxCallback, IInv, TypeOK, Label0, Label1, Send
<1>15. ASSUME NEW c \in Core, IsrSendPoll(c) PROVE TypeOK'
  <2>1. [isr[c] EXCEPT !.te = TRUE] \in Send
    BY <1>15 DEF IInv, TypeOK, Send
  <2>2. isr' \in [Core -> Send]
    <3>1. isr \in [Core -> Send] /\ isr' = [isr EXCEPT ![c] = [isr[c] EXCEPT !.te = TRUE]]
      BY <1>15 DEF IsrSendPoll, IInv, TypeOK
    <3> QED
      BY <3>1, <2>1, Updated
  <2> QED
    BY <1>15, <2>2 DEF IsrSendPoll, IInv, TypeOK
<1>16. ASSUME NEW c \in Core, IsrSendWrite(c) PROVE TypeOK'
  <2>1. NoSend \in Send
    BY ChunkAssumption DEF Send, Word, EventType
  <2>2. isr[c] \in Send /\ isr[c].te
    BY <1>16 DEF IsrSendWrite, IInv, TypeOK
  <2>3. isr[c].word \in Word /\ isr[c].state \in Reset .. Running
    BY <2>2 DEF Send
  <2>4. mu' \in [Core -> Word] /\ state' \in [Core -> Reset .. Running] /\ isr' \in [Core -> Send]
    BY <1>16, <2>1, <2>3 DEF IsrSendWrite, IInv, TypeOK
  <2> QED
    BY <1>16, <2>4 DEF IsrSendWrite, IInv, TypeOK
<1>17. ASSUME NEW c \in Core, NEW m \in Message, SendMessage(c, m) PROVE TypeOK'
  <2>1. vring[Other(c)] \in Seq(Message)
    BY <1>17 DEF IInv, TypeOK
  <2>2. Append(vring[Other(c)], m) \in Seq(Message)
    BY <2>1
  <2>3. vring' \in [Core -> Seq(Message)]
    <3>1. vring \in [Core -> Seq(Message)]
      BY DEF IInv, TypeOK
    <3>2. \/ vring' = vring
          \/ \E v \in Seq(Message) : vring' = [vring EXCEPT ![Other(c)] = v]
      BY <1>17, <2>2 DEF SendMessage
    <3>3. Other(c) \in Core
      OBVIOUS
    <3> QED
      BY <3>1, <3>2, <3>3, Updated
  <2> QED
    BY <1>17, <2>3 DEF SendMessage, IInv, TypeOK, Label0, Label1
<1>18. CASE RegisterEvent
  BY <1>18, ChunkAssumption DEF RegisterEvent, IInv, TypeOK, Label0, EventType
<1>19. CASE StartCore
  BY <1>19, ChunkAssumption, RpmsgBaseAssumption
  DEF StartCore, IInv, TypeOK, Label0, Label1
<1>20. CASE WaitRunning
  BY <1>20, ChunkAssumption DEF WaitRunning, IInv, TypeOK, Label0
<1>21. CASE WaitLinkReady
  BY <1>21, ChunkAssumption DEF WaitLinkReady, IInv, TypeOK, Label0
<1>22. CASE MasterInit
  BY <1>22, ChunkAssumption DEF MasterInit, IInv, TypeOK, Label0, EventType
<1>23. CASE MasterKick
  BY <1>23, ChunkAssumption
  DEF MasterKick, IInv, TypeOK, Label0, Word, EventType
<1>24. CASE WaitEndpointReady
  BY <1>24, ChunkAssumption DEF WaitEndpointReady, IInv, TypeOK, Label0
<1>25. CASE GetStartupData

  <2>1. Sending(Event("FeedStartupData", GettingLow), Reset) \in Send
    BY ChunkAssumption DEF Send, Word, EventType
  <2>2. state' \in [Core -> Reset .. Running]
    BY <1>25 DEF GetStartupData, IInv, TypeOK
  <2>3. thread' \in [Core -> Send]
    <3>1. thread \in [Core -> Send]
      BY DEF IInv, TypeOK
    <3>2. \/ thread' = thread
          \/ \E v \in Send : thread' = [thread EXCEPT ![1] = v]
      BY <1>25, <2>1 DEF GetStartupData
    <3> QED
      BY <3>1, <3>2, Updated
  <2> QED
    BY <1>25, <2>2, <2>3 DEF GetStartupData, IInv, TypeOK, Label1
<1>26. CASE ReadStatus
  BY <1>26, ChunkAssumption DEF ReadStatus, IInv, TypeOK, Label0, Label1
<1>27. CASE LoopTest
  BY <1>27, ChunkAssumption DEF LoopTest, IInv, TypeOK, Label1
<1>28. CASE CheckTimeout
  BY <1>28, ChunkAssumption DEF CheckTimeout, IInv, TypeOK, Label1
<1>29. CASE RemoteInit
  BY <1>29, ChunkAssumption DEF RemoteInit, IInv, TypeOK, Label1, EventType
<1>30. CASE LinkDown
  BY <1>30, ChunkAssumption DEF LinkDown, IInv, TypeOK, Label1
<1>31. CASE TriggerLinkReady
  BY <1>31, ChunkAssumption
  DEF TriggerLinkReady, IInv, TypeOK, Label1, Word, Send, EventType
<1>32. CASE WaitLinkUp
  BY <1>32, ChunkAssumption DEF WaitLinkUp, IInv, TypeOK, Label1
<1>33. CASE TriggerEndpointReady
  BY <1>33, ChunkAssumption
  DEF TriggerEndpointReady, IInv, TypeOK, Label1, Word, Send, EventType
<1>34. CASE ReturnTrue
  BY <1>34, ChunkAssumption DEF ReturnTrue, IInv, TypeOK, Label1
<1>35. CASE Tick
  BY <1>35, ChunkAssumption, TimeoutAssumption DEF Tick, IInv, TypeOK
<1>36. CASE UNCHANGED vars
  BY <1>36 DEF vars, IInv, TypeOK
<1> QED
  BY <1>1, <1>2, <1>3, <1>4, <1>5, <1>6, <1>7, <1>8, <1>9, <1>10, <1>11, <1>12,
       <1>13, <1>14, <1>15, <1>16, <1>17, <1>18, <1>19, <1>20, <1>21, <1>22,
       <1>23, <1>24, <1>25, <1>26, <1>27, <1>28, <1>29, <1>30, <1>31, <1>32,
       <1>33, <1>34, <1>35, <1>36
  DEF Next, Thread0, Thread1, Isr, Message

(* The steps that start, advance or end a send of a thread. *)
LEMMA ThreadFrame ==
  ASSUME [Next]_vars
  PROVE  \/ UNCHANGED thread
         \/ \E c \in Core : ThreadSendPoll(c) \/ ThreadSendWrite(c) \/ EarlyInit(c)
         \/ GetStartupData \/ TriggerLinkReady \/ TriggerEndpointReady
  BY Zenon
  DEF vars, Next, Thread0, Thread1, Isr, MCMGR_Init, CreateEndpoint,
       RegisterMessageCallback, Kick, WaitMessage, ReceiveIgnored,
       StartupDataEventHandler, FeedStartupDataEventHandler,
       ApplicationEventCallback, RpmsgTxCallback, RpmsgRxCallback, IsrSendPoll,
       IsrSendWrite, SendMessage, RegisterEvent, StartCore, WaitRunning,
       WaitLinkReady, MasterInit, MasterKick, WaitEndpointReady, ReadStatus,
       LoopTest, CheckTimeout, RemoteInit, LinkDown, WaitLinkUp, ReturnTrue,
       Tick

(* The steps that start, advance or end a send of a handler. *)
LEMMA IsrFrame ==
  ASSUME [Next]_vars
  PROVE  \/ UNCHANGED isr
         \/ \E c \in Core : \/ StartupDataEventHandler(c)
                            \/ FeedStartupDataEventHandler(c)
                            \/ IsrSendPoll(c) \/ IsrSendWrite(c)
  BY Zenon
  DEF vars, Next, Thread0, Thread1, Isr, ThreadSendPoll, ThreadSendWrite,
       EarlyInit, MCMGR_Init, CreateEndpoint, RegisterMessageCallback, Kick,
       WaitMessage, ReceiveIgnored, ApplicationEventCallback, RpmsgTxCallback,
       RpmsgRxCallback, SendMessage, RegisterEvent, StartCore, WaitRunning,
       WaitLinkReady, MasterInit, MasterKick, WaitEndpointReady,
       GetStartupData, ReadStatus, LoopTest, CheckTimeout, RemoteInit,
       LinkDown, TriggerLinkReady, WaitLinkUp, TriggerEndpointReady,
       ReturnTrue, Tick

(* The steps that write or read an MU register. *)
LEMMA MuFrame ==
  ASSUME [Next]_vars
  PROVE  \/ UNCHANGED mu
         \/ \E c \in Core : mu' = [mu EXCEPT ![Other(c)] = NoWord]
         \/ \E c \in Core : ThreadSendWrite(c) \/ IsrSendWrite(c) \/ Kick(c)
         \/ MasterKick
  BY Zenon
  DEF vars, Next, Thread0, Thread1, Isr, ThreadSendPoll, EarlyInit, MCMGR_Init,
       CreateEndpoint, RegisterMessageCallback, WaitMessage, ReceiveIgnored,
       StartupDataEventHandler, FeedStartupDataEventHandler,
       ApplicationEventCallback, RpmsgTxCallback, RpmsgRxCallback, IsrSendPoll,
       SendMessage, RegisterEvent, StartCore, WaitRunning, WaitLinkReady,
       MasterInit, WaitEndpointReady, GetStartupData, ReadStatus, LoopTest,
       CheckTimeout, RemoteInit, LinkDown, TriggerLinkReady, WaitLinkUp,
       TriggerEndpointReady, ReturnTrue, Tick

(* Each sender keeps to its words. *)
LEMMA WordsStep ==
  ASSUME IInv, [Next]_vars
  PROVE  Words'
<1> USE DEF IInv
<1>1. ThreadWords'
  <2> USE DEF Words, ThreadWords
  <2>1. CASE UNCHANGED thread
    BY <2>1
  <2>2. ASSUME NEW c \in Core, ThreadSendPoll(c) PROVE ThreadWords'
    <3>1. thread'[c].word = thread[c].word /\ thread[c] # NoSend
      BY <2>2 DEF ThreadSendPoll
    <3>2. \A d \in Core : d # c => thread'[d] = thread[d]
      BY <2>2 DEF ThreadSendPoll
    <3> QED
      BY <3>1, <3>2
  <2>3. ASSUME NEW c \in Core, ThreadSendWrite(c) PROVE ThreadWords'
    BY <2>3 DEF ThreadSendWrite
  <2>4. ASSUME NEW c \in Core, EarlyInit(c) PROVE ThreadWords'
    BY <2>4 DEF EarlyInit
  <2>5. CASE GetStartupData
    <3>1. CASE thread' = [thread EXCEPT ![1] =
                            Sending(Event("FeedStartupData", GettingLow), Reset)]
      BY <3>1 DEF TypeOK
    <3> QED
      BY <2>1, <2>5, <3>1 DEF GetStartupData
  <2>6. CASE TriggerLinkReady
    BY <2>6 DEF TriggerLinkReady
  <2>7. CASE TriggerEndpointReady
    BY <2>7 DEF TriggerEndpointReady
  <2> QED
    BY <2>1, <2>2, <2>3, <2>4, <2>5, <2>6, <2>7, ThreadFrame
<1>2. IsrWords'
  <2> USE DEF Words, IsrWords
  <2>1. CASE UNCHANGED isr
    BY <2>1
  <2>2. ASSUME NEW c \in Core, StartupDataEventHandler(c) PROVE IsrWords'
    <3>1. c = 1
      BY <2>2 DEF StartupDataEventHandler, MuWords
    <3>2. \E s \in {GettingHigh, Running} :
            isr' = [isr EXCEPT ![1] = Sending(Event("FeedStartupData", s), s)]
      BY <2>2, <3>1 DEF StartupDataEventHandler
    <3> QED
      BY <3>2 DEF TypeOK
  <2>3. ASSUME NEW c \in Core, FeedStartupDataEventHandler(c) PROVE IsrWords'
    <3>1. c = 0
      BY <2>3 DEF FeedStartupDataEventHandler, MuWords
    <3>2. ASSUME NEW d, NEW s,
                 isr' = [isr EXCEPT ![0] = Sending(Event("StartupData", d), s)]
          PROVE  IsrWords'
      BY <3>2 DEF TypeOK
    <3> QED
      BY <2>1, <2>3, <3>1, <3>2 DEF FeedStartupDataEventHandler
  <2>4. ASSUME NEW c \in Core, IsrSendPoll(c) PROVE IsrWords'
    <3>1. isr'[c].word = isr[c].word /\ isr[c] # NoSend
      BY <2>4 DEF IsrSendPoll
    <3>2. \A d \in Core : d # c => isr'[d] = isr[d]
      BY <2>4 DEF IsrSendPoll
    <3> QED
      BY <3>1, <3>2
  <2>5. ASSUME NEW c \in Core, IsrSendWrite(c) PROVE IsrWords'
    BY <2>5 DEF IsrSendWrite
  <2> QED
    BY <2>1, <2>2, <2>3, <2>4, <2>5, IsrFrame
<1>3. MuWords'
  <2> USE DEF Words, MuWords
  <2>1. CASE UNCHANGED mu
    BY <2>1
  <2>2. ASSUME NEW c \in Core, mu' = [mu EXCEPT ![Other(c)] = NoWord]
        PROVE  MuWords'
    BY <2>2 DEF TypeOK
  <2>3. ASSUME NEW c \in Core, ThreadSendWrite(c) PROVE MuWords'
    <3>1. thread[c] # NoSend /\ mu' = [mu EXCEPT ![c] = thread[c].word]
      BY <2>3 DEF ThreadSendWrite
    <3> QED
      BY <3>1 DEF TypeOK, ThreadWords
  <2>4. ASSUME NEW c \in Core, IsrSendWrite(c) PROVE MuWords'
    <3>1. isr[c] # NoSend /\ mu' = [mu EXCEPT ![c] = isr[c].word]
      BY <2>4 DEF IsrSendWrite
    <3> QED
      BY <3>1 DEF TypeOK, IsrWords
  <2>5. ASSUME NEW c \in Core, Kick(c) PROVE MuWords'
    BY <2>5 DEF Kick
  <2>6. CASE MasterKick
    BY <2>6 DEF MasterKick
  <2> QED
    BY <2>1, <2>2, <2>3, <2>4, <2>5, <2>6, MuFrame
<1> QED
  BY <1>1, <1>2, <1>3 DEF Words

(* The steps that carry startup data, ask for it or move the token. *)
LEMMA StartupFrame ==
  ASSUME [Next]_vars
  PROVE  \/ UNCHANGED <<thread, isr, mu, state, startupData, rpmsgBaseAddress>>
         \/ \E c \in Core : \/ mu' = [mu EXCEPT ![Other(c)] = NoWord]
                               /\ UNCHANGED <<thread, isr, state, startupData, rpmsgBaseAddress>>
                            \/ StartupDataEventHandler(c) \/ FeedStartupDataEventHandler(c)
                            \/ ThreadSendPoll(c) \/ ThreadSendWrite(c)
                            \/ IsrSendPoll(c) \/ IsrSendWrite(c)
                            \/ EarlyInit(c) \/ Kick(c)
         \/ StartCore \/ GetStartupData \/ ReadStatus
         \/ TriggerLinkReady \/ TriggerEndpointReady \/ MasterKick
  BY Zenon
  DEF vars, Next, Thread0, Thread1, Isr, MCMGR_Init, CreateEndpoint,
       RegisterMessageCallback, WaitMessage, ReceiveIgnored,
       ApplicationEventCallback, RpmsgTxCallback, RpmsgRxCallback, SendMessage,
       RegisterEvent, WaitRunning, WaitLinkReady, MasterInit,
       WaitEndpointReady, LoopTest, CheckTimeout, RemoteInit, LinkDown,
       WaitLinkUp, ReturnTrue, Tick

(* The token of the startup-data protocol is passed on, never doubled. *)
LEMMA StartupStep ==
  ASSUME IInv, [Next]_vars
  PROVE  Startup'
<1> USE DEF IInv, Startup, OneToken, TokenIs, AskedByThread, Asked, Answering, Answered, Asking
<1>1. CASE UNCHANGED <<thread, isr, mu, state, startupData, rpmsgBaseAddress>>
  BY <1>1
<1>2. ASSUME NEW c \in Core, mu' = [mu EXCEPT ![Other(c)] = NoWord],
             UNCHANGED <<thread, isr, state, startupData, rpmsgBaseAddress>>
      PROVE  Startup'
  <2>1. CASE c = 0
    BY <1>2, <2>1 DEF TypeOK
  <2>2. CASE c = 1
    BY <1>2, <2>2 DEF TypeOK
  <2> QED
    BY <2>1, <2>2
<1>3. ASSUME NEW c \in Core, StartupDataEventHandler(c) PROVE Startup'
  <2>1. CASE c = 0
    BY <1>3, <2>1 DEF StartupDataEventHandler, Words, MuWords
  <2>2. CASE c = 1
    <3>1. /\ Answered /\ ~AskedByThread /\ ~Asked /\ ~Answering /\ ~Asking
          /\ mu' = [mu EXCEPT ![0] = NoWord]
          /\ UNCHANGED <<thread, rpmsgBaseAddress>>
      BY <1>3, <2>2 DEF StartupDataEventHandler
    <3>2. CASE state[1] = GettingLow
      <4>1. /\ startupData' = [startupData EXCEPT ![1] = Low]
            /\ state' = [state EXCEPT ![1] = GettingHigh]
            /\ isr' = [isr EXCEPT ![1] =
                         Sending(Event("FeedStartupData", GettingHigh), GettingHigh)]
        BY <1>3, <2>2, <3>1, <3>2 DEF StartupDataEventHandler
      <4> QED
        BY <3>1, <3>2, <4>1 DEF TypeOK
    <3>3. CASE state[1] = GettingHigh
      <4>1. /\ startupData' = [startupData EXCEPT ![1] = RpmsgBase]
            /\ state' = [state EXCEPT ![1] = Running]
            /\ isr' = [isr EXCEPT ![1] =
                         Sending(Event("FeedStartupData", Running), Running)]
        BY <1>3, <2>2, <3>1, <3>3, Halves DEF StartupDataEventHandler
      <4> QED
        BY <3>1, <3>3, <4>1 DEF TypeOK
    <3> QED
      BY <1>3, <2>2, <3>2, <3>3 DEF StartupDataEventHandler
  <2> QED
    BY <2>1, <2>2
<1>4. ASSUME NEW c \in Core, FeedStartupDataEventHandler(c) PROVE Startup'
  <2>1. CASE c = 0
    <3>1. /\ Asked /\ ~AskedByThread /\ ~Answering /\ ~Answered /\ ~Asking
          /\ mu' = [mu EXCEPT ![1] = NoWord]
          /\ UNCHANGED <<thread, startupData, rpmsgBaseAddress>>
      BY <1>4, <2>1 DEF FeedStartupDataEventHandler
    <3>2. mu[1].data = state[1] /\ state[1] # Reset
      BY <3>1 DEF TypeOK
    <3>3. startupData[0] = RpmsgBase
      BY <3>2 DEF Local
    <3>4. CASE state[1] = GettingLow
      <4>1. /\ isr' = [isr EXCEPT ![0] = Sending(Event("StartupData", Low), GettingLow)]
            /\ UNCHANGED state
        BY <1>4, <2>1, <3>2, <3>3, <3>4 DEF FeedStartupDataEventHandler, Low
      <4> QED
        BY <3>1, <3>4, <4>1 DEF TypeOK
    <3>5. CASE state[1] = GettingHigh
      <4>1. /\ isr' = [isr EXCEPT ![0] = Sending(Event("StartupData", High), GettingHigh)]
            /\ UNCHANGED state
        BY <1>4, <2>1, <3>2, <3>3, <3>5 DEF FeedStartupDataEventHandler, High
      <4> QED
        BY <3>1, <3>5, <4>1 DEF TypeOK
    <3>6. CASE state[1] = Running
      <4>1. state' = [state EXCEPT ![0] = Running] /\ UNCHANGED isr
        BY <1>4, <2>1, <3>2, <3>6 DEF FeedStartupDataEventHandler
      <4> QED
        BY <3>1, <3>6, <4>1 DEF TypeOK
    <3> QED
      BY <3>2, <3>4, <3>5, <3>6 DEF TypeOK
  <2>2. CASE c = 1
    BY <1>4, <2>2 DEF FeedStartupDataEventHandler, Words, MuWords
  <2> QED
    BY <2>1, <2>2
<1>5. ASSUME NEW c \in Core, ThreadSendPoll(c) PROVE Startup'
  <2>1. CASE c = 0
    BY <1>5, <2>1 DEF ThreadSendPoll
  <2>2. CASE c = 1
    BY <1>5, <2>2 DEF ThreadSendPoll
  <2> QED
    BY <2>1, <2>2
<1>6. ASSUME NEW c \in Core, ThreadSendWrite(c) PROVE Startup'
  <2>1. CASE c = 0
    <3>1. thread[0] # NoSend /\ state[1] = Reset
      BY <1>6, <2>1 DEF ThreadSendWrite, Local, BeforeStart
    <3>2. thread[0].word = Event("CoreUp", 0)
      BY <3>1 DEF Words, ThreadWords
    <3>3. mu' = [mu EXCEPT ![0] = Event("CoreUp", 0)]
          /\ thread' = [thread EXCEPT ![0] = NoSend]
          /\ UNCHANGED <<isr, state, startupData, rpmsgBaseAddress>>
      BY <1>6, <2>1, <3>2 DEF ThreadSendWrite
    <3> QED
      BY <3>1, <3>3 DEF TypeOK
  <2>2. CASE c = 1
    BY <1>6, <2>2 DEF ThreadSendWrite, TypeOK, Words, ThreadWords
  <2> QED
    BY <2>1, <2>2
<1>7. ASSUME NEW c \in Core, IsrSendPoll(c) PROVE Startup'
  <2>1. CASE c = 0
    BY <1>7, <2>1 DEF IsrSendPoll
  <2>2. CASE c = 1
    BY <1>7, <2>2 DEF IsrSendPoll
  <2> QED
    BY <2>1, <2>2
<1>8. ASSUME NEW c \in Core, IsrSendWrite(c) PROVE Startup'
  <2>1. CASE c = 0
    BY <1>8, <2>1 DEF IsrSendWrite, TypeOK, Words, IsrWords
  <2>2. CASE c = 1
    BY <1>8, <2>2 DEF IsrSendWrite, TypeOK
  <2> QED
    BY <2>1, <2>2
<1>9. ASSUME NEW c \in Core, EarlyInit(c) PROVE Startup'
  <2>1. CASE c = 0
    BY <1>9, <2>1 DEF EarlyInit
  <2>2. CASE c = 1
    BY <1>9, <2>2 DEF EarlyInit
  <2> QED
    BY <2>1, <2>2
<1>10. ASSUME NEW c \in Core, Kick(c) PROVE Startup'
  <2>1. CASE c = 0
    BY <1>10, <2>1 DEF Kick
  <2>2. CASE c = 1
    BY <1>10, <2>2 DEF Kick
  <2> QED
    BY <2>1, <2>2
<1>11. CASE StartCore
  BY <1>11 DEF StartCore
<1>12. CASE GetStartupData
  BY <1>12 DEF GetStartupData, TypeOK
<1>13. CASE ReadStatus
  BY <1>13 DEF ReadStatus, TypeOK
<1>14. CASE TriggerLinkReady
  BY <1>14 DEF TriggerLinkReady
<1>15. CASE TriggerEndpointReady
  BY <1>15 DEF TriggerEndpointReady
<1>16. CASE MasterKick
  BY <1>16 DEF MasterKick
<1> QED
  BY <1>1, <1>2, <1>3, <1>4, <1>5, <1>6, <1>7, <1>8, <1>9, <1>10, <1>11, <1>12,
       <1>13, <1>14, <1>15, <1>16, StartupFrame

(* Every step keeps what the program counters imply. *)
LEMMA LocalStep ==
  ASSUME IInv, [Next]_vars
  PROVE  Local'
<1> USE DEF IInv, Local, BeforeStart, BeforeLink, BeforeLinkReady, Live
<1>1. ASSUME NEW c \in Core, ThreadSendPoll(c) PROVE Local'
  <2>1. CASE c = 0
    BY <1>1, <2>1 DEF ThreadSendPoll
  <2>2. CASE c = 1
    BY <1>1, <2>2 DEF ThreadSendPoll
  <2> QED
    BY <2>1, <2>2
<1>2. ASSUME NEW c \in Core, ThreadSendWrite(c) PROVE Local'
  <2>1. CASE c = 0
    BY <1>2, <2>1 DEF ThreadSendWrite
  <2>2. CASE c = 1
    BY <1>2, <2>2 DEF ThreadSendWrite, Words, ThreadWords
  <2> QED
    BY <2>1, <2>2
<1>3. ASSUME NEW c \in Core, EarlyInit(c) PROVE Local'
  <2>1. CASE c = 0
    BY <1>3, <2>1 DEF EarlyInit, TypeOK
  <2>2. CASE c = 1
    BY <1>3, <2>2 DEF EarlyInit, TypeOK
  <2> QED
    BY <2>1, <2>2
<1>4. ASSUME NEW c \in Core, MCMGR_Init(c) PROVE Local'
  <2>1. CASE c = 0
    BY <1>4, <2>1 DEF MCMGR_Init, TypeOK
  <2>2. CASE c = 1
    BY <1>4, <2>2 DEF MCMGR_Init
  <2> QED
    BY <2>1, <2>2
<1>5. ASSUME NEW c \in Core, CreateEndpoint(c) PROVE Local'
  <2>1. CASE c = 0
    BY <1>5, <2>1 DEF CreateEndpoint, TypeOK
  <2>2. CASE c = 1
    BY <1>5, <2>2 DEF CreateEndpoint, TypeOK
  <2> QED
    BY <2>1, <2>2
<1>6. ASSUME NEW c \in Core, RegisterMessageCallback(c) PROVE Local'
  <2>1. CASE c = 0
    BY <1>6, <2>1 DEF RegisterMessageCallback, TypeOK
  <2>2. CASE c = 1
    BY <1>6, <2>2 DEF RegisterMessageCallback
  <2> QED
    BY <2>1, <2>2
<1>7. ASSUME NEW c \in Core, Kick(c) PROVE Local'
  <2>1. CASE c = 0
    BY <1>7, <2>1 DEF Kick
  <2>2. CASE c = 1
    BY <1>7, <2>2 DEF Kick, TypeOK
  <2> QED
    BY <2>1, <2>2
<1>8. ASSUME NEW c \in Core, WaitMessage(c) PROVE Local'
  <2>1. CASE c = 0
    BY <1>8, <2>1 DEF WaitMessage
  <2>2. CASE c = 1
    <3>1. initialised[1] # "false"
      BY <1>8, <2>2 DEF WaitMessage, Phases, NotStarted
    <3> QED
      BY <1>8, <2>2, <3>1 DEF WaitMessage
  <2> QED
    BY <2>1, <2>2
<1>9. ASSUME NEW c \in Core, ReceiveIgnored(c) PROVE Local'
  <2>1. CASE c = 0
    BY <1>9, <2>1 DEF ReceiveIgnored
  <2>2. CASE c = 1
    BY <1>9, <2>2 DEF ReceiveIgnored
  <2> QED
    BY <2>1, <2>2
<1>10. ASSUME NEW c \in Core, StartupDataEventHandler(c) PROVE Local'
  <2>1. CASE c = 0
    BY <1>10, <2>1 DEF StartupDataEventHandler, Words, MuWords
  <2>2. CASE c = 1
    BY <1>10, <2>2 DEF StartupDataEventHandler, TypeOK
  <2> QED
    BY <2>1, <2>2
<1>11. ASSUME NEW c \in Core, FeedStartupDataEventHandler(c) PROVE Local'
  <2>1. CASE c = 0
    BY <1>11, <2>1 DEF FeedStartupDataEventHandler, TypeOK
  <2>2. CASE c = 1
    BY <1>11, <2>2 DEF FeedStartupDataEventHandler, Words, MuWords
  <2> QED
    BY <2>1, <2>2
<1>12. ASSUME NEW c \in Core, ApplicationEventCallback(c) PROVE Local'
  <2>1. CASE c = 0
    BY <1>12, <2>1 DEF ApplicationEventCallback
  <2>2. CASE c = 1
    BY <1>12, <2>2 DEF ApplicationEventCallback
  <2> QED
    BY <2>1, <2>2
<1>13. ASSUME NEW c \in Core, RpmsgTxCallback(c) PROVE Local'
  <2>1. CASE c = 0
    BY <1>13, <2>1 DEF RpmsgTxCallback
  <2>2. CASE c = 1
    BY <1>13, <2>2 DEF RpmsgTxCallback
  <2> QED
    BY <2>1, <2>2
<1>14. ASSUME NEW c \in Core, RpmsgRxCallback(c) PROVE Local'
  <2>1. CASE c = 0
    BY <1>14, <2>1 DEF RpmsgRxCallback, TypeOK
  <2>2. CASE c = 1
    BY <1>14, <2>2 DEF RpmsgRxCallback
  <2> QED
    BY <2>1, <2>2
<1>15. ASSUME NEW c \in Core, IsrSendPoll(c) PROVE Local'
  <2>1. CASE c = 0
    BY <1>15, <2>1 DEF IsrSendPoll
  <2>2. CASE c = 1
    BY <1>15, <2>2 DEF IsrSendPoll
  <2> QED
    BY <2>1, <2>2
<1>16. ASSUME NEW c \in Core, IsrSendWrite(c) PROVE Local'
  <2>1. CASE c = 0
    BY <1>16, <2>1 DEF IsrSendWrite
  <2>2. CASE c = 1
    BY <1>16, <2>2 DEF IsrSendWrite, Words, IsrWords, Startup, Asking
  <2> QED
    BY <2>1, <2>2
<1>17. ASSUME NEW c \in Core, NEW m \in Message, SendMessage(c, m) PROVE Local'
  <2>1. CASE c = 0
    BY <1>17, <2>1 DEF SendMessage, TypeOK, Startup
  <2>2. CASE c = 1
    BY <1>17, <2>2 DEF SendMessage, TypeOK
  <2> QED
    BY <2>1, <2>2
<1>18. CASE RegisterEvent
  BY <1>18 DEF RegisterEvent, TypeOK
<1>19. CASE StartCore
  BY <1>19 DEF StartCore, TypeOK
<1>20. CASE WaitRunning
  BY <1>20 DEF WaitRunning
<1>21. CASE WaitLinkReady
  BY <1>21 DEF WaitLinkReady
<1>22. CASE MasterInit
  BY <1>22 DEF MasterInit, TypeOK
<1>23. CASE MasterKick
  BY <1>23 DEF MasterKick, TypeOK
<1>24. CASE WaitEndpointReady
  BY <1>24 DEF WaitEndpointReady
<1>25. CASE GetStartupData
  <2>1. CASE state[1] = Reset
    <3>1. thread' = [thread EXCEPT ![1] =
                       Sending(Event("FeedStartupData", GettingLow), Reset)]
      BY <1>25, <2>1 DEF GetStartupData
    <3>2. thread'[1].word = Event("FeedStartupData", GettingLow) /\ thread'[0] = thread[0]
      BY <3>1 DEF TypeOK
    <3>3. /\ pc[1] = "GetStartupData" /\ pc' = [pc EXCEPT ![1] = "ReadStatus"]
          /\ state' = [state EXCEPT ![1] = GettingLow]
      BY <1>25, <2>1 DEF GetStartupData
    <3> QED
      BY <1>25, <2>1, <3>2, <3>3 DEF GetStartupData
  <2>2. CASE state[1] # Reset
    BY <1>25, <2>2 DEF GetStartupData
  <2> QED
    BY <2>1, <2>2
<1>26. CASE ReadStatus
  BY <1>26 DEF ReadStatus, TypeOK, Startup
<1>27. CASE LoopTest
  BY <1>27 DEF LoopTest
<1>28. CASE CheckTimeout
  BY <1>28 DEF CheckTimeout, TypeOK
<1>29. CASE RemoteInit
  BY <1>29 DEF RemoteInit, TypeOK
<1>30. CASE LinkDown
  BY <1>30 DEF LinkDown, TypeOK
<1>31. CASE TriggerLinkReady
  BY <1>31 DEF TriggerLinkReady, TypeOK
<1>32. CASE WaitLinkUp
  BY <1>32 DEF WaitLinkUp
<1>33. CASE TriggerEndpointReady
  BY <1>33 DEF TriggerEndpointReady
<1>34. CASE ReturnTrue
  BY <1>34 DEF ReturnTrue
<1>35. CASE Tick
  BY <1>35 DEF Tick
<1>36. CASE UNCHANGED vars
  BY <1>36 DEF vars
<1> QED
  BY <1>1, <1>2, <1>3, <1>4, <1>5, <1>6, <1>7, <1>8, <1>9, <1>10, <1>11, <1>12,
       <1>13, <1>14, <1>15, <1>16, <1>17, <1>18, <1>19, <1>20, <1>21, <1>22,
       <1>23, <1>24, <1>25, <1>26, <1>27, <1>28, <1>29, <1>30, <1>31, <1>32,
       <1>33, <1>34, <1>35, <1>36
  DEF Next, Thread0, Thread1, Isr, Message

(* A slave that went past the test after its wait without the data stays so. *)
LEMMA BlindStays ==
  ASSUME IInv, [Next]_vars, BootedBlind
  PROVE  BootedBlind'
<1> USE DEF BootedBlind
<1>1. ASSUME NEW c \in Core, ThreadSendPoll(c) PROVE BootedBlind'
  <2>1. CASE c = 0
    BY <1>1, <2>1 DEF ThreadSendPoll
  <2>2. CASE c = 1
    BY <1>1, <2>2 DEF ThreadSendPoll
  <2> QED
    BY <2>1, <2>2
<1>2. ASSUME NEW c \in Core, ThreadSendWrite(c) PROVE BootedBlind'
  <2>1. CASE c = 0
    BY <1>2, <2>1 DEF ThreadSendWrite
  <2>2. CASE c = 1
    BY <1>2, <2>2 DEF ThreadSendWrite
  <2> QED
    BY <2>1, <2>2
<1>3. ASSUME NEW c \in Core, EarlyInit(c) PROVE BootedBlind'
  <2>1. CASE c = 0
    BY <1>3, <2>1 DEF EarlyInit
  <2>2. CASE c = 1
    BY <1>3, <2>2 DEF EarlyInit
  <2> QED
    BY <2>1, <2>2
<1>4. ASSUME NEW c \in Core, MCMGR_Init(c) PROVE BootedBlind'
  <2>1. CASE c = 0
    BY <1>4, <2>1 DEF MCMGR_Init
  <2>2. CASE c = 1
    BY <1>4, <2>2 DEF MCMGR_Init
  <2> QED
    BY <2>1, <2>2
<1>5. ASSUME NEW c \in Core, CreateEndpoint(c) PROVE BootedBlind'
  <2>1. CASE c = 0
    BY <1>5, <2>1 DEF CreateEndpoint
  <2>2. CASE c = 1
    BY <1>5, <2>2 DEF CreateEndpoint
  <2> QED
    BY <2>1, <2>2
<1>6. ASSUME NEW c \in Core, RegisterMessageCallback(c) PROVE BootedBlind'
  <2>1. CASE c = 0
    BY <1>6, <2>1 DEF RegisterMessageCallback
  <2>2. CASE c = 1
    BY <1>6, <2>2 DEF RegisterMessageCallback
  <2> QED
    BY <2>1, <2>2
<1>7. ASSUME NEW c \in Core, Kick(c) PROVE BootedBlind'
  <2>1. CASE c = 0
    BY <1>7, <2>1 DEF Kick
  <2>2. CASE c = 1
    BY <1>7, <2>2 DEF Kick
  <2> QED
    BY <2>1, <2>2
<1>8. ASSUME NEW c \in Core, WaitMessage(c) PROVE BootedBlind'
  <2>1. CASE c = 0
    BY <1>8, <2>1 DEF WaitMessage
  <2>2. CASE c = 1
    BY <1>8, <2>2 DEF WaitMessage, IInv, Local
  <2> QED
    BY <2>1, <2>2
<1>9. ASSUME NEW c \in Core, ReceiveIgnored(c) PROVE BootedBlind'
  <2>1. CASE c = 0
    BY <1>9, <2>1 DEF ReceiveIgnored
  <2>2. CASE c = 1
    BY <1>9, <2>2 DEF ReceiveIgnored
  <2> QED
    BY <2>1, <2>2
<1>10. ASSUME NEW c \in Core, StartupDataEventHandler(c) PROVE BootedBlind'
  <2>1. CASE c = 0
    BY <1>10, <2>1 DEF StartupDataEventHandler
  <2>2. CASE c = 1
    BY <1>10, <2>2 DEF StartupDataEventHandler
  <2> QED
    BY <2>1, <2>2
<1>11. ASSUME NEW c \in Core, FeedStartupDataEventHandler(c) PROVE BootedBlind'
  <2>1. CASE c = 0
    BY <1>11, <2>1 DEF FeedStartupDataEventHandler
  <2>2. CASE c = 1
    BY <1>11, <2>2 DEF FeedStartupDataEventHandler
  <2> QED
    BY <2>1, <2>2
<1>12. ASSUME NEW c \in Core, ApplicationEventCallback(c) PROVE BootedBlind'
  <2>1. CASE c = 0
    BY <1>12, <2>1 DEF ApplicationEventCallback
  <2>2. CASE c = 1
    BY <1>12, <2>2 DEF ApplicationEventCallback
  <2> QED
    BY <2>1, <2>2
<1>13. ASSUME NEW c \in Core, RpmsgTxCallback(c) PROVE BootedBlind'
  <2>1. CASE c = 0
    BY <1>13, <2>1 DEF RpmsgTxCallback
  <2>2. CASE c = 1
    BY <1>13, <2>2 DEF RpmsgTxCallback
  <2> QED
    BY <2>1, <2>2
<1>14. ASSUME NEW c \in Core, RpmsgRxCallback(c) PROVE BootedBlind'
  <2>1. CASE c = 0
    BY <1>14, <2>1 DEF RpmsgRxCallback
  <2>2. CASE c = 1
    BY <1>14, <2>2 DEF RpmsgRxCallback
  <2> QED
    BY <2>1, <2>2
<1>15. ASSUME NEW c \in Core, IsrSendPoll(c) PROVE BootedBlind'
  <2>1. CASE c = 0
    BY <1>15, <2>1 DEF IsrSendPoll
  <2>2. CASE c = 1
    BY <1>15, <2>2 DEF IsrSendPoll
  <2> QED
    BY <2>1, <2>2
<1>16. ASSUME NEW c \in Core, IsrSendWrite(c) PROVE BootedBlind'
  <2>1. CASE c = 0
    BY <1>16, <2>1 DEF IsrSendWrite
  <2>2. CASE c = 1
    BY <1>16, <2>2 DEF IsrSendWrite
  <2> QED
    BY <2>1, <2>2
<1>17. ASSUME NEW c \in Core, NEW m \in Message, SendMessage(c, m) PROVE BootedBlind'
  <2>1. CASE c = 0
    BY <1>17, <2>1 DEF SendMessage, IInv, TypeOK
  <2>2. CASE c = 1
    BY <1>17, <2>2 DEF SendMessage
  <2> QED
    BY <2>1, <2>2
<1>18. CASE RegisterEvent
  BY <1>18 DEF RegisterEvent
<1>19. CASE StartCore
  BY <1>19 DEF StartCore, IInv, Local, BeforeStart
<1>20. CASE WaitRunning
  BY <1>20 DEF WaitRunning
<1>21. CASE WaitLinkReady
  BY <1>21 DEF WaitLinkReady
<1>22. CASE MasterInit
  BY <1>22 DEF MasterInit
<1>23. CASE MasterKick
  BY <1>23 DEF MasterKick
<1>24. CASE WaitEndpointReady
  BY <1>24 DEF WaitEndpointReady
<1>25. CASE GetStartupData
  BY <1>25 DEF GetStartupData
<1>26. CASE ReadStatus
  BY <1>26 DEF ReadStatus
<1>27. CASE LoopTest
  BY <1>27 DEF LoopTest
<1>28. CASE CheckTimeout
  BY <1>28 DEF CheckTimeout
<1>29. CASE RemoteInit
  BY <1>29 DEF RemoteInit, IInv, TypeOK
<1>30. CASE LinkDown
  BY <1>30 DEF LinkDown
<1>31. CASE TriggerLinkReady
  BY <1>31 DEF TriggerLinkReady
<1>32. CASE WaitLinkUp
  BY <1>32 DEF WaitLinkUp
<1>33. CASE TriggerEndpointReady
  BY <1>33 DEF TriggerEndpointReady
<1>34. CASE ReturnTrue
  BY <1>34 DEF ReturnTrue
<1>35. CASE Tick
  BY <1>35 DEF Tick
<1>36. CASE UNCHANGED vars
  BY <1>36 DEF vars
<1> QED
  BY <1>1, <1>2, <1>3, <1>4, <1>5, <1>6, <1>7, <1>8, <1>9, <1>10, <1>11, <1>12,
       <1>13, <1>14, <1>15, <1>16, <1>17, <1>18, <1>19, <1>20, <1>21, <1>22,
       <1>23, <1>24, <1>25, <1>26, <1>27, <1>28, <1>29, <1>30, <1>31, <1>32,
       <1>33, <1>34, <1>35, <1>36
  DEF Next, Thread0, Thread1, Isr, Message

(* A register seen empty by a sender stays empty until it writes. *)
LEMMA SendsStep ==
  ASSUME IInv, [Next]_vars
  PROVE  SendsAreSafe'
<1> USE DEF IInv, SendsAreSafe, Words, ThreadWords, IsrWords
<1>0. BootedBlind => BootedBlind'
  BY BlindStays
<1>1. ASSUME NEW c \in Core, ThreadSendPoll(c) PROVE SendsAreSafe'
  <2>1. CASE c = 0
    BY <1>1, <2>1, <1>0 DEF ThreadSendPoll
  <2>2. CASE c = 1
    BY <1>1, <2>2, <1>0 DEF ThreadSendPoll
  <2> QED
    BY <2>1, <2>2
<1>2. ASSUME NEW c \in Core, ThreadSendWrite(c) PROVE SendsAreSafe'
  <2>1. CASE c = 0
    BY <1>2, <2>1, <1>0 DEF ThreadSendWrite, TypeOK
  <2>2. CASE c = 1
    BY <1>2, <2>2, <1>0 DEF ThreadSendWrite, TypeOK
  <2> QED
    BY <2>1, <2>2
<1>3. ASSUME NEW c \in Core, EarlyInit(c) PROVE SendsAreSafe'
  <2>1. CASE c = 0
    BY <1>3, <2>1, <1>0 DEF EarlyInit
  <2>2. CASE c = 1
    BY <1>3, <2>2, <1>0 DEF EarlyInit
  <2> QED
    BY <2>1, <2>2
<1>4. ASSUME NEW c \in Core, MCMGR_Init(c) PROVE SendsAreSafe'
  <2>1. CASE c = 0
    BY <1>4, <2>1, <1>0 DEF MCMGR_Init
  <2>2. CASE c = 1
    BY <1>4, <2>2, <1>0 DEF MCMGR_Init
  <2> QED
    BY <2>1, <2>2
<1>5. ASSUME NEW c \in Core, CreateEndpoint(c) PROVE SendsAreSafe'
  <2>1. CASE c = 0
    BY <1>5, <2>1, <1>0 DEF CreateEndpoint
  <2>2. CASE c = 1
    BY <1>5, <2>2, <1>0 DEF CreateEndpoint
  <2> QED
    BY <2>1, <2>2
<1>6. ASSUME NEW c \in Core, RegisterMessageCallback(c) PROVE SendsAreSafe'
  <2>1. CASE c = 0
    BY <1>6, <2>1, <1>0 DEF RegisterMessageCallback
  <2>2. CASE c = 1
    BY <1>6, <2>2, <1>0 DEF RegisterMessageCallback
  <2> QED
    BY <2>1, <2>2
<1>7. ASSUME NEW c \in Core, Kick(c) PROVE SendsAreSafe'
  <2>1. CASE c = 0
    BY <1>7, <2>1, <1>0 DEF Kick
  <2>2. CASE c = 1
    BY <1>7, <2>2, <1>0 DEF Kick
  <2> QED
    BY <2>1, <2>2
<1>8. ASSUME NEW c \in Core, WaitMessage(c) PROVE SendsAreSafe'
  <2>1. CASE c = 0
    BY <1>8, <2>1, <1>0 DEF WaitMessage
  <2>2. CASE c = 1
    BY <1>8, <2>2, <1>0 DEF WaitMessage
  <2> QED
    BY <2>1, <2>2
<1>9. ASSUME NEW c \in Core, ReceiveIgnored(c) PROVE SendsAreSafe'
  <2>1. CASE c = 0
    BY <1>9, <2>1, <1>0 DEF ReceiveIgnored
  <2>2. CASE c = 1
    BY <1>9, <2>2, <1>0 DEF ReceiveIgnored
  <2> QED
    BY <2>1, <2>2
<1>10. ASSUME NEW c \in Core, StartupDataEventHandler(c) PROVE SendsAreSafe'
  <2>1. CASE c = 0
    BY <1>10, <2>1, <1>0 DEF StartupDataEventHandler, MuWords
  <2>2. CASE c = 1
    BY <1>10, <2>2, <1>0 DEF StartupDataEventHandler, TypeOK
  <2> QED
    BY <2>1, <2>2
<1>11. ASSUME NEW c \in Core, FeedStartupDataEventHandler(c) PROVE SendsAreSafe'
  <2>1. CASE c = 0
    BY <1>11, <2>1, <1>0 DEF FeedStartupDataEventHandler, TypeOK
  <2>2. CASE c = 1
    BY <1>11, <2>2, <1>0 DEF FeedStartupDataEventHandler, MuWords
  <2> QED
    BY <2>1, <2>2
<1>12. ASSUME NEW c \in Core, ApplicationEventCallback(c) PROVE SendsAreSafe'
  <2>1. CASE c = 0
    BY <1>12, <2>1, <1>0 DEF ApplicationEventCallback
  <2>2. CASE c = 1
    BY <1>12, <2>2, <1>0 DEF ApplicationEventCallback
  <2> QED
    BY <2>1, <2>2
<1>13. ASSUME NEW c \in Core, RpmsgTxCallback(c) PROVE SendsAreSafe'
  <2>1. CASE c = 0
    BY <1>13, <2>1, <1>0 DEF RpmsgTxCallback
  <2>2. CASE c = 1
    BY <1>13, <2>2, <1>0 DEF RpmsgTxCallback
  <2> QED
    BY <2>1, <2>2
<1>14. ASSUME NEW c \in Core, RpmsgRxCallback(c) PROVE SendsAreSafe'
  <2>1. CASE c = 0
    BY <1>14, <2>1, <1>0 DEF RpmsgRxCallback
  <2>2. CASE c = 1
    BY <1>14, <2>2, <1>0 DEF RpmsgRxCallback
  <2> QED
    BY <2>1, <2>2
<1>15. ASSUME NEW c \in Core, IsrSendPoll(c) PROVE SendsAreSafe'
  <2>1. CASE c = 0
    BY <1>15, <2>1, <1>0 DEF IsrSendPoll
  <2>2. CASE c = 1
    BY <1>15, <2>2, <1>0 DEF IsrSendPoll
  <2> QED
    BY <2>1, <2>2
<1>16. ASSUME NEW c \in Core, IsrSendWrite(c) PROVE SendsAreSafe'
  <2>1. CASE c = 0
    BY <1>16, <2>1, <1>0
    DEF IsrSendWrite, TypeOK, Startup, Answering, Local, BeforeStart
  <2>2. CASE c = 1
    <3>1. isr[1] # NoSend /\ mu' = [mu EXCEPT ![1] = isr[1].word]
          /\ isr' = [isr EXCEPT ![1] = NoSend] /\ UNCHANGED thread
      BY <1>16, <2>2 DEF IsrSendWrite
    <3>2. thread[1] # NoSend => BootedBlind
      <4>1. Asking
        BY <3>1 DEF Asking
      <4>2. rpmsgBaseAddress = 0 /\ state[1] # Reset /\ ~AskedByThread
        BY <4>1 DEF Startup, OneToken
      <4>3. pc[1] \notin {"Off", "EarlyInit", "Init"}
        BY <4>2 DEF Local
      <4>4. thread[1].word.type \in {"None", "Application"}
        BY <4>2, <4>3 DEF Local, AskedByThread
      <4>5. thread[1] # NoSend => thread[1].word.type = "Application"
        BY <4>4
      <4> QED
        BY <4>2, <4>3, <4>5
        DEF Phases, NotStarted, BootedBlind, TypeOK, Label1, BeforeLinkReady,
             Local
    <3> QED
      BY <1>0, <3>1, <3>2 DEF TypeOK
  <2> QED
    BY <2>1, <2>2
<1>17. ASSUME NEW c \in Core, NEW m \in Message, SendMessage(c, m) PROVE SendsAreSafe'
  <2>1. CASE c = 0
    BY <1>17, <2>1, <1>0 DEF SendMessage
  <2>2. CASE c = 1
    BY <1>17, <2>2, <1>0 DEF SendMessage
  <2> QED
    BY <2>1, <2>2
<1>18. CASE RegisterEvent
  BY <1>18, <1>0 DEF RegisterEvent
<1>19. CASE StartCore
  BY <1>19, <1>0 DEF StartCore
<1>20. CASE WaitRunning
  BY <1>20, <1>0 DEF WaitRunning
<1>21. CASE WaitLinkReady
  BY <1>21, <1>0 DEF WaitLinkReady
<1>22. CASE MasterInit
  BY <1>22, <1>0 DEF MasterInit
<1>23. CASE MasterKick
  BY <1>23, <1>0 DEF MasterKick
<1>24. CASE WaitEndpointReady
  BY <1>24, <1>0 DEF WaitEndpointReady
<1>25. CASE GetStartupData
  BY <1>25, <1>0 DEF GetStartupData, TypeOK
<1>26. CASE ReadStatus
  BY <1>26, <1>0 DEF ReadStatus
<1>27. CASE LoopTest
  BY <1>27, <1>0 DEF LoopTest
<1>28. CASE CheckTimeout
  BY <1>28, <1>0 DEF CheckTimeout
<1>29. CASE RemoteInit
  BY <1>29, <1>0 DEF RemoteInit
<1>30. CASE LinkDown
  BY <1>30, <1>0 DEF LinkDown
<1>31. CASE TriggerLinkReady
  BY <1>31, <1>0 DEF TriggerLinkReady
<1>32. CASE WaitLinkUp
  BY <1>32, <1>0 DEF WaitLinkUp
<1>33. CASE TriggerEndpointReady
  BY <1>33, <1>0 DEF TriggerEndpointReady
<1>34. CASE ReturnTrue
  BY <1>34, <1>0 DEF ReturnTrue
<1>35. CASE Tick
  BY <1>35, <1>0 DEF Tick
<1>36. CASE UNCHANGED vars
  BY <1>36 DEF vars, BootedBlind
<1> QED
  BY <1>1, <1>2, <1>3, <1>4, <1>5, <1>6, <1>7, <1>8, <1>9, <1>10, <1>11, <1>12,
       <1>13, <1>14, <1>15, <1>16, <1>17, <1>18, <1>19, <1>20, <1>21, <1>22,
       <1>23, <1>24, <1>25, <1>26, <1>27, <1>28, <1>29, <1>30, <1>31, <1>32,
       <1>33, <1>34, <1>35, <1>36
  DEF Next, Thread0, Thread1, Isr, Message

(* Every step keeps the link protocol in the phase the slave's counter tells. *)
LEMMA PhasesStep ==
  ASSUME IInv, [Next]_vars
  PROVE  Phases'
<1> USE DEF IInv, Phases, NotStarted, LinkPending, LinkKicked, LinkUp, EndpointPending, Replying,
            MasterUp, Quiet, Announced, BeforeLink, BeforeLinkReady, Live
<1>1. ASSUME NEW c \in Core, ThreadSendPoll(c) PROVE Phases'
  <2>1. CASE c = 0
    BY <1>1, <2>1 DEF ThreadSendPoll
  <2>2. CASE c = 1
    BY <1>1, <2>2 DEF ThreadSendPoll
  <2> QED
    BY <2>1, <2>2
<1>2. ASSUME NEW c \in Core, ThreadSendWrite(c) PROVE Phases'
  <2>1. CASE c = 0
    BY <1>2, <2>1 DEF ThreadSendWrite, Words, ThreadWords, Local, BeforeStart
  <2>2. CASE c = 1
    BY <1>2, <2>2 DEF ThreadSendWrite, TypeOK
  <2> QED
    BY <2>1, <2>2
<1>3. ASSUME NEW c \in Core, EarlyInit(c) PROVE Phases'
  <2>1. CASE c = 0
    BY <1>3, <2>1 DEF EarlyInit
  <2>2. CASE c = 1
    BY <1>3, <2>2 DEF EarlyInit
  <2> QED
    BY <2>1, <2>2
<1>4. ASSUME NEW c \in Core, MCMGR_Init(c) PROVE Phases'
  <2>1. CASE c = 0
    BY <1>4, <2>1 DEF MCMGR_Init
  <2>2. CASE c = 1
    BY <1>4, <2>2 DEF MCMGR_Init
  <2> QED
    BY <2>1, <2>2
<1>5. ASSUME NEW c \in Core, CreateEndpoint(c) PROVE Phases'
  <2>1. CASE c = 0
    BY <1>5, <2>1 DEF CreateEndpoint
  <2>2. CASE c = 1
    BY <1>5, <2>2 DEF CreateEndpoint
  <2> QED
    BY <2>1, <2>2
<1>6. ASSUME NEW c \in Core, RegisterMessageCallback(c) PROVE Phases'
  <2>1. CASE c = 0
    BY <1>6, <2>1 DEF RegisterMessageCallback
  <2>2. CASE c = 1
    BY <1>6, <2>2 DEF RegisterMessageCallback
  <2> QED
    BY <2>1, <2>2
<1>7. ASSUME NEW c \in Core, Kick(c) PROVE Phases'
  <2>1. CASE c = 0
    BY <1>7, <2>1 DEF Kick, TypeOK
  <2>2. CASE c = 1
    BY <1>7, <2>2 DEF Kick, TypeOK
  <2> QED
    BY <2>1, <2>2
<1>8. ASSUME NEW c \in Core, WaitMessage(c) PROVE Phases'
  <2>1. CASE c = 0
    BY <1>8, <2>1 DEF WaitMessage, Local
  <2>2. CASE c = 1
    BY <1>8, <2>2 DEF WaitMessage, Local
  <2> QED
    BY <2>1, <2>2
<1>9. ASSUME NEW c \in Core, ReceiveIgnored(c) PROVE Phases'
  <2>1. CASE c = 0
    BY <1>9, <2>1 DEF ReceiveIgnored, Local, BeforeStart
  <2>2. CASE c = 1
    BY <1>9, <2>2 DEF ReceiveIgnored, Local
  <2> QED
    BY <2>1, <2>2
<1>10. ASSUME NEW c \in Core, StartupDataEventHandler(c) PROVE Phases'
  <2>1. CASE c = 0
    BY <1>10, <2>1 DEF StartupDataEventHandler
  <2>2. CASE c = 1
    BY <1>10, <2>2 DEF StartupDataEventHandler
  <2> QED
    BY <2>1, <2>2
<1>11. ASSUME NEW c \in Core, FeedStartupDataEventHandler(c) PROVE Phases'
  <2>1. CASE c = 0
    BY <1>11, <2>1 DEF FeedStartupDataEventHandler
  <2>2. CASE c = 1
    BY <1>11, <2>2 DEF FeedStartupDataEventHandler
  <2> QED
    BY <2>1, <2>2
<1>12. ASSUME NEW c \in Core, ApplicationEventCallback(c) PROVE Phases'
  <2>1. CASE c = 0
    BY <1>12, <2>1 DEF ApplicationEventCallback, TypeOK, Local, BeforeStart
  <2>2. CASE c = 1
    BY <1>12, <2>2 DEF ApplicationEventCallback, Words, MuWords
  <2> QED
    BY <2>1, <2>2
<1>13. ASSUME NEW c \in Core, RpmsgTxCallback(c) PROVE Phases'
  <2>1. CASE c = 0
    BY <1>13, <2>1 DEF RpmsgTxCallback
  <2>2. CASE c = 1
    BY <1>13, <2>2 DEF RpmsgTxCallback, TypeOK
  <2> QED
    BY <2>1, <2>2
<1>14. ASSUME NEW c \in Core, RpmsgRxCallback(c) PROVE Phases'
  <2>1. CASE c = 0
    BY <1>14, <2>1 DEF RpmsgRxCallback
  <2>2. CASE c = 1
    BY <1>14, <2>2 DEF RpmsgRxCallback, TypeOK
  <2> QED
    BY <2>1, <2>2
<1>15. ASSUME NEW c \in Core, IsrSendPoll(c) PROVE Phases'
  <2>1. CASE c = 0
    BY <1>15, <2>1 DEF IsrSendPoll
  <2>2. CASE c = 1
    BY <1>15, <2>2 DEF IsrSendPoll
  <2> QED
    BY <2>1, <2>2
<1>16. ASSUME NEW c \in Core, IsrSendWrite(c) PROVE Phases'
  <2>1. CASE c = 0
    BY <1>16, <2>1
    DEF IsrSendWrite, Words, IsrWords, Local, Startup, Answering, TokenIs
  <2>2. CASE c = 1
    BY <1>16, <2>2 DEF IsrSendWrite, Words, IsrWords, Local, Startup, Asking
  <2> QED
    BY <2>1, <2>2
<1>17. ASSUME NEW c \in Core, NEW m \in Message, SendMessage(c, m) PROVE Phases'
  <2>1. CASE c = 0
    BY <1>17, <2>1 DEF SendMessage, TypeOK
  <2>2. CASE c = 1
    BY <1>17, <2>2 DEF SendMessage, TypeOK
  <2> QED
    BY <2>1, <2>2
<1>18. CASE RegisterEvent
  BY <1>18 DEF RegisterEvent
<1>19. CASE StartCore
  BY <1>19 DEF StartCore, TypeOK, Local, BeforeStart
<1>20. CASE WaitRunning
  BY <1>20 DEF WaitRunning
<1>21. CASE WaitLinkReady
  BY <1>21 DEF WaitLinkReady
<1>22. CASE MasterInit
  BY <1>22 DEF MasterInit
<1>23. CASE MasterKick
  BY <1>23 DEF MasterKick, TypeOK
<1>24. CASE WaitEndpointReady
  BY <1>24 DEF WaitEndpointReady
<1>25. CASE GetStartupData
  BY <1>25
  DEF GetStartupData, Words, ThreadWords, IsrWords, MuWords, Local,
       BeforeStart, Startup, OneToken, Asking, Asked, Answering, Answered,
       AskedByThread
<1>26. CASE ReadStatus
  BY <1>26 DEF ReadStatus, TypeOK
<1>27. CASE LoopTest
  BY <1>27 DEF LoopTest
<1>28. CASE CheckTimeout
  BY <1>28 DEF CheckTimeout, TypeOK
<1>29. CASE RemoteInit
  BY <1>29 DEF RemoteInit, TypeOK
<1>30. CASE LinkDown
  BY <1>30 DEF LinkDown
<1>31. CASE TriggerLinkReady
  BY <1>31
  DEF TriggerLinkReady, TypeOK, Words, MuWords, Local, Startup, Answered,
       TokenIs
<1>32. CASE WaitLinkUp
  BY <1>32 DEF WaitLinkUp, Local
<1>33. CASE TriggerEndpointReady
  BY <1>33 DEF TriggerEndpointReady, TypeOK, Local
<1>34. CASE ReturnTrue
  BY <1>34 DEF ReturnTrue, Local
<1>35. CASE Tick
  BY <1>35 DEF Tick
<1>36. CASE UNCHANGED vars
  BY <1>36 DEF vars
<1> QED
  BY <1>1, <1>2, <1>3, <1>4, <1>5, <1>6, <1>7, <1>8, <1>9, <1>10, <1>11, <1>12,
       <1>13, <1>14, <1>15, <1>16, <1>17, <1>18, <1>19, <1>20, <1>21, <1>22,
       <1>23, <1>24, <1>25, <1>26, <1>27, <1>28, <1>29, <1>30, <1>31, <1>32,
       <1>33, <1>34, <1>35, <1>36
  DEF Next, Thread0, Thread1, Isr, Message

(* The initial states satisfy the inductive invariant. *)
LEMMA Initially == Init => IInv
<1> SUFFICES ASSUME Init PROVE IInv
  OBVIOUS
<1> USE DEF Init
<1>1. NoSend \in Send /\ NoWord \in Word
  BY ChunkAssumption DEF Send, Word
<1>2. TypeOK
  BY <1>1, TimeoutAssumption DEF TypeOK, Label0, Label1
<1>3. Words /\ SendsAreSafe
  BY DEF Words, ThreadWords, IsrWords, MuWords, SendsAreSafe
<1>4. Startup
  BY DEF Startup, OneToken, AskedByThread, Asked, Answering, Answered, Asking
<1>5. Local
  BY RpmsgBaseAssumption DEF Local, BeforeStart, BeforeLink, Live
<1>6. Phases
  BY DEF Phases, NotStarted, BeforeLink
<1> QED
  BY <1>2, <1>3, <1>4, <1>5, <1>6 DEF IInv

(* The inductive invariant holds in every state either core can reach. *)
THEOREM Inductive == Spec => []IInv
<1>1. IInv /\ [Next]_vars => IInv'
  BY TypeStep, WordsStep, StartupStep, LocalStep, PhasesStep, SendsStep
  DEF IInv
<1> QED
  BY <1>1, Initially, PTL DEF Spec

(* Type correctness of the two cores' boot: in particular the event data   *)
(* always fit the 16-bit data field, and application_event_data only ever  *)
(* holds one of the two application events.                                *)
THEOREM TypeCorrect == Spec => []TypeOK
<1>1. IInv => TypeOK
  BY DEF IInv
<1> QED
  BY <1>1, Inductive, PTL

(* The address given to rpmsg_lite_remote_init is the one of main_cm7.cpp, *)
(* whatever its value: the two halves are never mixed up or repeated.      *)
THEOREM StartupDataCorrect == Spec => []StartupDataIntact
<1>1. IInv => StartupDataIntact
  BY DEF IInv, Startup, StartupDataIntact
<1> QED
  BY <1>1, Inductive, PTL

(* Core 0 does not miss RPMSG_LINK_READY.                                  *)
THEOREM LinkReadySeen == Spec => []LinkReadyIsSeen
<1>1. IInv => LinkReadyIsSeen
  BY
  DEF IInv, TypeOK, Label1, Local, Phases, NotStarted, LinkPending, LinkKicked,
       LinkUp,
         EndpointPending, Replying, MasterUp, BeforeLinkReady, Live, BootedBlind,
         LinkReadyIsSeen
<1> QED
  BY <1>1, Inductive, PTL

(* No RPMsg message waits for a core without endpoint and link.            *)
THEOREM MessagesHaveEndpoint == Spec => []MessageHasEndpoint
<1>1. IInv => MessageHasEndpoint
  BY
  DEF IInv, TypeOK, Label0, Label1, Local, Phases, NotStarted, LinkPending,
       LinkKicked, LinkUp,
         EndpointPending, Replying, MasterUp, BeforeLink, BeforeLinkReady, Live, BootedBlind,
         MessageHasEndpoint
<1> QED
  BY <1>1, Inductive, PTL

(* The two handlers never both spin on a full register.                    *)
THEOREM NoHandlerDeadlock == Spec => []HandlersNeverDeadlock
<1>1. IInv => HandlersNeverDeadlock
  BY DEF IInv, Startup, OneToken, Answering, Asking, HandlersNeverDeadlock
<1> QED
  BY <1>1, Inductive, PTL

(* A slave that gave up is never sent a message.                           *)
THEOREM TimedOutSlaveLeftAlone == Spec => []TimedOutSlaveIsNotContacted
<1>1. IInv => TimedOutSlaveIsNotContacted
  BY DEF IInv, Local, Phases, NotStarted, BeforeLink, BeforeStart,
       TimedOutSlaveIsNotContacted
<1> QED
  BY <1>1, Inductive, PTL

(* No event is overwritten in an MU register before the other core reads   *)
(* it, however the threads, handlers and forced notifications interleave.  *)
THEOREM NoWordLost == Spec => NoLostWord
<1>1. ASSUME IInv, [Next]_vars
      PROVE  \A c \in Core : mu[c] # NoWord /\ mu'[c] # mu[c] =>
                               mu'[c] = NoWord \/ BootedBlind
  <2> USE DEF IInv
  <2>1. CASE UNCHANGED mu
    BY <1>1, <2>1
  <2>2. ASSUME NEW c \in Core, mu' = [mu EXCEPT ![Other(c)] = NoWord]
        PROVE  \A d \in Core : mu'[d] # mu[d] => mu'[d] = NoWord
    BY <1>1, <2>2 DEF TypeOK
  <2>3. ASSUME NEW c \in Core, mu[c] = NoWord \/ BootedBlind,
               NEW w, mu' = [mu EXCEPT ![c] = w]
        PROVE  \A d \in Core : mu'[d] # mu[d] => mu[d] = NoWord \/ BootedBlind
    BY <1>1, <2>3 DEF TypeOK
  <2>4. ASSUME NEW c \in Core, ThreadSendWrite(c)
        PROVE  mu[c] = NoWord \/ BootedBlind
    BY <1>1, <2>4 DEF ThreadSendWrite, SendsAreSafe
  <2>5. ASSUME NEW c \in Core, IsrSendWrite(c) PROVE mu[c] = NoWord
    BY <1>1, <2>5 DEF IsrSendWrite, SendsAreSafe
  <2>6. ASSUME NEW c \in Core, Kick(c) PROVE mu[c] = NoWord \/ BootedBlind
    <3>1. CASE c = 0
      BY <1>1, <2>6, <3>1
      DEF Kick, TypeOK, Label1, Phases, NotStarted, LinkPending, LinkKicked,
           LinkUp, EndpointPending, Replying, MasterUp, BeforeLink,
           BeforeLinkReady, Live, BootedBlind
    <3>2. CASE c = 1
      BY <1>1, <2>6, <3>2 DEF Kick, Phases, Replying
    <3> QED
      BY <3>1, <3>2
  <2>7. ASSUME MasterKick PROVE mu[0] = NoWord \/ BootedBlind
    BY <1>1, <2>7
    DEF MasterKick, TypeOK, Label1, Phases, NotStarted, LinkPending,
         LinkKicked, LinkUp, EndpointPending, Replying, MasterUp, BeforeLink,
         BeforeLinkReady, Live, BootedBlind
  <2>8. \/ UNCHANGED mu
        \/ \E c \in Core : mu' = [mu EXCEPT ![Other(c)] = NoWord]
        \/ \E c \in Core : /\ mu[c] = NoWord \/ BootedBlind
                           /\ \E w : mu' = [mu EXCEPT ![c] = w]
    <3>1. ASSUME NEW c \in Core, ThreadSendWrite(c)
          PROVE  \E w : mu' = [mu EXCEPT ![c] = w]
      BY <3>1 DEF ThreadSendWrite
    <3>2. ASSUME NEW c \in Core, IsrSendWrite(c)
          PROVE  \E w : mu' = [mu EXCEPT ![c] = w]
      BY <3>2 DEF IsrSendWrite
    <3>3. ASSUME NEW c \in Core, Kick(c)
          PROVE  \E w : mu' = [mu EXCEPT ![c] = w]
      BY <3>3 DEF Kick
    <3>4. MasterKick => \E w : mu' = [mu EXCEPT ![0] = w]
      BY DEF MasterKick
    <3> QED
      BY <1>1, <2>4, <2>5, <2>6, <2>7, <3>1, <3>2, <3>3, <3>4, MuFrame, Zenon
      DEF Core
  <2> QED
    BY <1>1, <2>1, <2>2, <2>3, <2>8
<1> QED
  BY <1>1, Inductive, PTL DEF Spec, NoLostWord
=============================================================================
