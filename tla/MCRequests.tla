----------------------------- MODULE MCRequests -----------------------------
(***************************************************************************)
(* What a request meets on its way, for TLC: the startup that configures    *)
(* the server, the routers with their middlewares, CORS, and the text of    *)
(* its message.  They share no variable: a behaviour is one of theirs, and  *)
(* the others stay in one initial state.                                    *)
(***************************************************************************)
EXTENDS MCMessages, Router, MCCors, MCStartup

requestVars == <<messageVars, routerVars, corsVars, startupVars>>

RequestsInit ==
  /\ part \in Parts \cup {"router", "cors", "startup"}
  /\ MessageRests
  /\ RouterInit /\ (part # "router" => \A a \in Attrs, k \in Kinds : attrs[a].handler[k] = "NULL")
  /\ CorsInit
  /\ StartupInit /\ (part # "startup" => file = Absent)

MessageStep == MessageNext /\ UNCHANGED <<routerVars, corsVars, startupVars>>
RouterStep == part = "router" /\ RouterNext /\ UNCHANGED <<messageVars, corsVars, startupVars>>
CorsStep == part = "cors" /\ CorsNext /\ UNCHANGED <<messageVars, routerVars, startupVars>>
StartupStep == part = "startup" /\ StartupNext /\ UNCHANGED <<messageVars, routerVars, corsVars>>

RequestsNext == MessageStep \/ RouterStep \/ CorsStep \/ StartupStep

RequestsSpec == RequestsInit /\ [][RequestsNext]_requestVars
=============================================================================
