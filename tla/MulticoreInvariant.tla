------------------------- MODULE MulticoreInvariant -------------------------
(***************************************************************************)
(* The inductive invariant behind the safety properties of Multicore.tla.  *)
(*                                                                         *)
(* Two protocols share the MU registers, one after the other.  In the      *)
(* startup-data protocol a single token goes round (Startup); in the link  *)
(* protocol the slave's program counter tells which event is under way     *)
(* and how far the master can have come (Phases).                          *)
(***************************************************************************)
EXTENDS Multicore

Low == RpmsgBase % Chunk
High == RpmsgBase \div Chunk

(* Which words each sender produces, and the registers carry. *)
ThreadWords ==
  /\ thread[0].word \in {NoWord, Event("CoreUp", 0)}
  /\ thread[1].word \in {NoWord, Event("CoreUp", 0),
                         Event("FeedStartupData", GettingLow),
                         Event("Application", LinkReady),
                         Event("Application", EndpointReady)}
  /\ \A c \in Core : thread[c].word = NoWord => thread[c] = NoSend

IsrWords ==
  /\ isr[0].word.type \in {"None", "StartupData"}
  /\ isr[1].word \in {NoWord, Event("FeedStartupData", GettingHigh),
                      Event("FeedStartupData", Running)}
  /\ \A c \in Core : isr[c].word.type = "None" => isr[c] = NoSend

MuWords ==
  /\ mu[0].type \in {"None", "CoreUp", "StartupData", "RPMsg"}
  /\ mu[1] \in {NoWord, Event("CoreUp", 0),
                Event("FeedStartupData", GettingLow),
                Event("FeedStartupData", GettingHigh),
                Event("FeedStartupData", Running),
                Event("Application", LinkReady),
                Event("Application", EndpointReady),
                Event("RPMsg", 0)}
  /\ mu[0].type = "None" => mu[0] = NoWord

Words == ThreadWords /\ IsrWords /\ MuWords

(* The token of the startup-data protocol, at its five possible places.    *)
AskedByThread == thread[1].word.type = "FeedStartupData"
Asked == mu[1].type = "FeedStartupData"
Answering == isr[0] # NoSend
Answered == mu[0].type = "StartupData"
Asking == isr[1] # NoSend

OneToken ==
  /\ AskedByThread => ~Asked /\ ~Answering /\ ~Answered /\ ~Asking
  /\ Asked => ~Answering /\ ~Answered /\ ~Asking
  /\ Answering => ~Answered /\ ~Asking
  /\ Answered => ~Asking

(* At state s of the slave, every place that holds the token holds the     *)
(* question for s, or its answer: the given half of the address.           *)
TokenIs(s, half) ==
  /\ AskedByThread => s = GettingLow
  /\ Asked => mu[1].data = s
  /\ Answering => s # Running /\ isr[0].word.data = half /\ isr[0].state = s
  /\ Answered => s # Running /\ mu[0].data = half
  /\ Asking => isr[1].word.data = s /\ isr[1].state = s

Startup ==
  /\ OneToken
  /\ state[1] = Reset =>
       ~AskedByThread /\ ~Asked /\ ~Answering /\ ~Answered /\ ~Asking
  /\ state[1] = GettingLow => TokenIs(GettingLow, Low) /\ ~Asking
  /\ state[1] = GettingHigh => TokenIs(GettingHigh, High) /\ startupData[1] = Low
  /\ state[1] = Running => TokenIs(Running, 0) /\ startupData[1] = RpmsgBase
  /\ rpmsgBaseAddress \in {0, RpmsgBase}
  /\ rpmsgBaseAddress # 0 => state[1] = Running /\ ~Asking
  /\ mu[0].type = "CoreUp" => state[1] \in {Reset, GettingLow}

(* What a core's own program counter implies. *)
BeforeStart == {"EarlyInit", "Init", "RegisterEvent", "StartCore"}
BeforeLink == {"EarlyInit", "Init", "RegisterEvent", "StartCore",
               "WaitRunning", "WaitLinkReady"}
BeforeLinkReady == {"Off", "EarlyInit", "Init", "GetStartupData", "ReadStatus",
                    "LoopTest", "CheckTimeout", "RemoteInit", "LinkDown",
                    "LinkReady"}
Live == rpmsgBaseAddress # 0 /\ initialised[1] # "false"

Local ==
  /\ pc[1] = "Off" <=> pc[0] \in BeforeStart
  /\ startupData[0] = IF pc[1] = "Off" THEN 0 ELSE RpmsgBase
  /\ pc[1] \in {"Off", "EarlyInit", "Init"} => state[1] = Reset
  /\ thread[0] # NoSend => pc[0] = "Init"
  /\ pc[0] \in {"EarlyInit", "Init"} => ~irq[0]
  /\ pc[1] \in {"Off", "EarlyInit"} => thread[1] = NoSend
  /\ pc[1] = "Init" => thread[1].word \in {NoWord, Event("CoreUp", 0)}
  /\ pc[1] # "Init" => thread[1].word # Event("CoreUp", 0)
  /\ pc[1] \in BeforeLinkReady \ {"Init"} =>
       thread[1].word \in {NoWord, Event("FeedStartupData", GettingLow)}
  /\ pc[0] \notin {"EarlyInit", "Init", "RegisterEvent"} =>
       "Application" \in eventTable[0]
  /\ pc[0] \notin BeforeLink \cup {"MasterInit"} => link[0]
  /\ pc[0] \notin BeforeLink \cup {"MasterInit", "MasterKick"} => rpmsg[0]
  /\ pc[0] \in {"WaitEndpointReady", "RegisterCallback", "Send", "Kick",
                "WaitMessage", "Done"} => endpoint[0]
  /\ pc[0] \in {"Send", "Kick", "WaitMessage", "Done"} => callback[0]
  /\ pc[0] = "Done" => received[0]
  /\ received[0] => pc[1] = "Done"
  /\ vring[0] # <<>> => pc[1] \in {"Kick", "Done"}
  /\ vring[1] # <<>> => pc[0] \in {"Kick", "WaitMessage", "Done"}
  /\ mu[1].type = "RPMsg" => pc[1] = "Done"
  /\ rpmsgBaseAddress # 0 <=> rpmsgBaseAddress = RpmsgBase
  /\ pc[1] \in {"Off", "EarlyInit", "Init", "GetStartupData", "ReadStatus",
                "LoopTest"} => rpmsgBaseAddress = 0
  /\ rpmsgBaseAddress = 0 =>
       "RPMsg" \notin eventTable[1] /\ ~rpmsg[1] /\ ~received[1]
  /\ Live /\ pc[1] \notin BeforeLinkReady => "RPMsg" \in eventTable[1]
  /\ pc[1] \in {"LinkDown", "Send", "Kick", "Done"} => Live
  /\ pc[1] \notin BeforeLinkReady \ {"LinkReady"} /\ Live => rpmsg[1]
  /\ pc[1] \in {"EndpointReady", "Return", "RegisterCallback", "WaitMessage",
                "Send", "Kick", "Done"} /\ Live => endpoint[1]
  /\ initialised[1] = "false" => pc[1] \in {"RegisterCallback", "WaitMessage"}
  /\ pc[1] = "LinkReady" /\ Live => "RPMsg" \in eventTable[1] /\ rpmsg[1]
  /\ pc[1] = "LinkDown" => "RPMsg" \in eventTable[1]

(* How far the link protocol is, by the slave's program counter. *)
NotStarted ==
  /\ applicationEvent = 0
  /\ thread[1].word.type # "Application" /\ mu[1].type # "Application"
  /\ pc[0] \in BeforeLink
  /\ mu[0].type # "RPMsg"
  /\ ~link[1] /\ ~received[1]

Quiet == thread[1] = NoSend /\ mu[1] = NoWord

Announced(e) ==
  \/ thread[1].word = Event("Application", e) /\ mu[1].type # "Application"
  \/ thread[1] = NoSend /\ mu[1] = Event("Application", e)

LinkPending ==
  /\ mu[0] = NoWord /\ ~link[1] /\ ~received[1]
  /\ \/ applicationEvent = 0 /\ Announced(LinkReady) /\ pc[0] \in BeforeLink
     \/ /\ applicationEvent = LinkReady /\ Quiet
        /\ pc[0] \in {"WaitRunning", "WaitLinkReady", "MasterInit", "MasterKick"}

MasterUp == pc[0] \in {"CreateEndpoint", "WaitEndpointReady"} /\ ~received[1]

LinkKicked ==
  /\ MasterUp /\ applicationEvent = LinkReady /\ Quiet
  /\ \/ mu[0] = Event("RPMsg", 0) /\ ~link[1]
     \/ mu[0] = NoWord /\ link[1]

LinkUp == MasterUp /\ applicationEvent = LinkReady /\ Quiet /\ mu[0] = NoWord /\ link[1]

EndpointPending ==
  /\ link[1]
  /\ \/ /\ MasterUp /\ mu[0] = NoWord
        /\ applicationEvent = LinkReady /\ Announced(EndpointReady)
     \/ /\ applicationEvent = EndpointReady /\ Quiet
        /\ \/ /\ pc[0] \in {"CreateEndpoint", "WaitEndpointReady",
                            "RegisterCallback", "Send", "Kick"}
              /\ mu[0] = NoWord /\ ~received[1]
           \/ /\ pc[0] = "WaitMessage"
              /\ \/ mu[0] = Event("RPMsg", 1) /\ ~received[1]
                 \/ mu[0] = NoWord

Replying ==
  /\ link[1] /\ applicationEvent = EndpointReady
  /\ thread[1] = NoSend /\ mu[0] = NoWord
  /\ pc[0] \in {"WaitMessage", "Done"}
  /\ pc[1] # "Done" => mu[1] = NoWord
  /\ pc[1] = "Done" => mu[1].type \in {"None", "RPMsg"}

Phases ==
  /\ pc[1] \in BeforeLinkReady \/ initialised[1] = "false" => NotStarted
  /\ pc[1] = "WaitLinkUp" /\ Live => LinkPending \/ LinkKicked
  /\ pc[1] \in {"CreateEndpoint", "EndpointReady"} /\ Live => LinkUp
  /\ pc[1] \in {"Return", "RegisterCallback", "WaitMessage"} /\ Live =>
       EndpointPending
  /\ pc[1] \in {"Send", "Kick", "Done"} => Replying

(* A send that has seen the register empty still finds it empty. *)
SendsAreSafe ==
  \A c \in Core : /\ isr[c].te => mu[c] = NoWord
                  /\ thread[c].te => mu[c] = NoWord \/ BootedBlind

IInv == TypeOK /\ Words /\ Startup /\ Local /\ Phases /\ SendsAreSafe
=============================================================================
