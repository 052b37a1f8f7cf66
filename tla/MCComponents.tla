---------------------------- MODULE MCComponents ----------------------------
(***************************************************************************)
(* Small instances of everything around a Controller: the constants that   *)
(* are more than a number or a name, and the fairness of the runs that     *)
(* need it.                                                                *)
(***************************************************************************)
EXTENDS Clients, Handlers, Gateways, Registries, Bridges

CONSTANT Kinds

ComponentInit == ClientsInit \/ HandlersInit \/ GatewaysInit \/ RegistriesInit \/ BridgesInit
ComponentNext == ClientsNext \/ HandlersNext \/ GatewaysNext \/ RegistriesNext \/ BridgesNext

when(k, A) == kind = k /\ A /\ UNCHANGED kind

MCPriority == [cancel |-> 0, safety |-> 1, plain |-> 1]
MCImages == {<<1, 2, 3>>, <<4, 5>>, <<>>, <<6, 7, 8, 9>>}

Server(key, ok, addrs) == [key |-> key, idOK |-> ok, addrs |-> addrs]
MCFiles ==
  {[version |-> 1, servers |-> <<>>], [version |-> 2, servers |-> <<>>],
   [version |-> 1, servers |-> <<Server("k", TRUE, <<1, 2>>), Server("l", TRUE, <<1>>)>>],
   [version |-> 1, servers |-> <<Server("k", TRUE, <<1>>), Server("k", TRUE, <<2>>)>>],
   [version |-> 1, servers |-> <<Server("k", FALSE, <<>>)>>],
   [version |-> 1, servers |-> <<Server("k", TRUE, <<1, 1>>)>>]}

MCTarget == 1 :> 7 @@ 2 :> 7
MCForever == -1
MCRecorded == {[addr |-> 1], [addr |-> 2]}

field(name, k, required) == [name |-> name, kind |-> k, required |-> required]
MCSchemas ==
  {[name |-> "s", fields |-> {field("f", "int", TRUE), field("g", "bytes", FALSE)}],
   [name |-> "s", fields |-> {field("f", "string", TRUE)}],
   [name |-> "t", fields |-> {field("f", "float", TRUE), field("g", "bool", FALSE)}]}
MCPayloads ==
  {"f" :> "int", "f" :> "float32", "f" :> "string", "f" :> "int" @@ "g" :> "[]byte",
   "f" :> "float64" @@ "g" :> "bool", "g" :> "string", "f" :> "int" @@ "h" :> "int"}
MCMessages == {[id |-> 3, op |-> "none", size |-> 1], [id |-> 256, op |-> "read", size |-> 0]}

Asks(a, t, l, s, b, rw) == [addr |-> a, timed |-> t, long |-> l, selects |-> s, body |-> b, rw |-> rw]
MCAsked ==
  {Asks(a, t, l, FALSE, TRUE, rw) : a \in {0}, t \in BOOLEAN, l \in BOOLEAN, rw \in {"Read", "Write", "None"}}
    \cup {Asks(0, FALSE, FALSE, TRUE, FALSE, "Read"), Asks(1, FALSE, FALSE, TRUE, FALSE, "Read"),
          Asks(1, FALSE, TRUE, TRUE, TRUE, "Write"), Asks(1, TRUE, FALSE, FALSE, FALSE, "Read")}

(* A shared-memory handler returns, select does not prefer one ready case  *)
(* for ever, and a request on a closed bus or with an answer ends.         *)
WrapperFairness ==
  /\ WF_vars(when("shmem", Unlock))
  /\ \A g \in Gens : WF_vars(when("shmem", ServeRoute(g))) /\ SF_vars(when("shmem", ServeReturn(g)))
  /\ \A c \in Callers : WF_vars(when("shmem", ShmemRequestClosed(c) \/ ShmemRequestAnswer(c)))

(* The goroutines run: a request upstream ends, since Close cancels it,    *)
(* select does not pass the closed stop channel over for ever, a read of a *)
(* closed connection fails.                                                *)
BridgeFairness ==
  /\ WF_vars(when("mqtt", RequestEnds)) /\ SF_vars(when("mqtt", RunCmdReturns))
  /\ WF_vars(when("mqtt", BridgeCloseEnd))
  /\ WF_vars(when("dds", RequestEnds)) /\ SF_vars(when("dds", RunCmdReturns))
  /\ WF_vars(when("dds", BridgeCloseEnd))
  /\ WF_vars(when("someip", st.closed /\ ReadLoopEnds))
  /\ \A c \in Callers :
       /\ WF_vars(when("someip", \/ SomeIpRequestNumber(c) \/ SomeIpRequestRegister(c)
                                \/ SomeIpRequestSend(c) \/ SomeIpRequestUnsent(c)))
       /\ WF_vars(when("someip", SomeIpRequestClosed(c)))
  /\ \A q \in 1..3 : WF_vars(when("browse", q \in 1..Current /\ Interrupt(q)))
  /\ WF_vars(when("browse", ReadFails(FALSE))) /\ WF_vars(when("browse", Returns))
=============================================================================
