----------------------------- MODULE Endpoint -----------------------------
(***************************************************************************)
(* What the endpoint packages share: the access check of HandleRequest,    *)
(* Configure, and the configuration request that goes through              *)
(* server.ApplyConfigRequest.  The functional block in the register map is *)
(* under the server's lock and the endpoint's copy of it under the         *)
(* endpoint's, so a change of configuration takes several critical         *)
(* sections, one action each.  A multi-byte register is one element of a   *)
(* block.  A call that returns an error before it changes anything, and a  *)
(* read of the configuration, are not steps.                               *)
(***************************************************************************)
EXTENDS Integers, Sequences

CONSTANTS
  Caller,           \* goroutines calling the endpoint
  Configs,          \* what the application passes to Configure
  RootBlocks,       \* what the root client may write through EP0
  Zero,             \* the Go zero value of the package's Config
  EncodeConfig(_), DecodeConfig(_), Validate(_),
  Adopted(_, _),    \* the value after adoptConfigBlock takes a configuration,
  Configured(_, _)  \* and after Configure stores one

VARIABLES
  declared,   \* the register map has the endpoint
  regs,       \* its functional block there
  cfg,        \* Endpoint.cfg
  val,        \* the rest of the endpoint's state
  calls,      \* the calls in progress
  agreed      \* history: the last change of configuration ran alone

Idle == [pc |-> "idle"]
ConfigSteps == {"adopt", "persist", "rollback", "store"}
others(c) == {d \in Caller \ {c} : calls[d].pc \in ConfigSteps}
set(c, call) == [calls EXCEPT ![c] = call]
returns(c) == calls' = set(c, Idle)

EndpointInit ==
  /\ declared = TRUE
  /\ regs = <<>>
  /\ cfg = Zero
  /\ calls = [c \in Caller |-> Idle]
  /\ agreed = TRUE

(* HandleRequest's access check; the call goes on as next. *)
Check(c, next) ==
  /\ calls[c] = Idle
  /\ declared
  /\ calls' = set(c, next)
  /\ UNCHANGED <<declared, regs, cfg, val, agreed>>

(* A change of configuration begins; the ones it overlaps are marked. *)
begins(c, call) ==
  /\ calls' = [d \in Caller |->
       IF d = c THEN [call EXCEPT !.clean = (others(c) = {})]
       ELSE IF d \in others(c) THEN [calls[d] EXCEPT !.clean = FALSE]
       ELSE calls[d]]
  /\ agreed' = (agreed /\ others(c) = {})

(* A change of configuration succeeds and the call goes on as next. *)
succeeds(c, next) ==
  /\ calls' = set(c, next)
  /\ agreed' = (agreed \/ calls[c].clean)

patch(block, start, data) ==
  [i \in DOMAIN block |->
     IF i \in (start + 1)..(start + Len(data)) THEN data[i - start] ELSE block[i]]

(* ApplyConfigRequest, a write: encode() and the overrun check. *)
ApplyEncode(c) ==
  /\ calls[c].pc = "encode"
  /\ LET body == calls[c].req.body
         start == Head(body)
         data == Tail(body)
         current == EncodeConfig(cfg)
     IN  IF start + Len(data) > Len(current)
           THEN returns(c) /\ UNCHANGED agreed
           ELSE begins(c, [pc |-> "adopt", current |-> current, clean |-> TRUE,
                           patched |-> patch(current, start, data)])
  /\ UNCHANGED <<declared, regs, cfg, val>>

(* Mutated form: the patched block is adopted as it is. *)
adopts_Unchecked(block) ==
  /\ cfg' = DecodeConfig(block)
  /\ val' = Adopted(DecodeConfig(block), val)

(* The package's adoptConfigBlock, where it accepts the block. *)
adopts(block) ==
  /\ Validate(DecodeConfig(block))
  /\ cfg' = DecodeConfig(block)
  /\ val' = Adopted(DecodeConfig(block), val)

ApplyAdopt(c) ==
  /\ calls[c].pc = "adopt"
  /\ \/ /\ adopts(calls[c].patched)
        /\ calls' = [calls EXCEPT ![c].pc = "persist"]
     \/ /\ ~Validate(DecodeConfig(calls[c].patched))
        /\ returns(c)
        /\ UNCHANGED <<cfg, val>>
  /\ UNCHANGED <<declared, regs, agreed>>

(* Mutated form: the block before the patch is persisted. *)
ApplyPersist_Stale(c) ==
  /\ calls[c].pc = "persist"
  /\ declared
  /\ regs' = calls[c].current
  /\ succeeds(c, Idle)
  /\ UNCHANGED <<declared, cfg, val>>

(* WriteFunctional, which fails when the endpoint is gone. *)
ApplyPersist(c) ==
  /\ calls[c].pc = "persist"
  /\ IF declared
       THEN regs' = calls[c].patched /\ succeeds(c, Idle)
       ELSE /\ calls' = [calls EXCEPT ![c].pc = "rollback"]
            /\ UNCHANGED <<regs, agreed>>
  /\ UNCHANGED <<declared, cfg, val>>

(* adopt(current), whose error is dropped. *)
ApplyRollback(c) ==
  /\ calls[c].pc = "rollback"
  /\ \/ adopts(calls[c].current)
     \/ ~Validate(DecodeConfig(calls[c].current)) /\ UNCHANGED <<cfg, val>>
  /\ returns(c)
  /\ UNCHANGED <<declared, regs, agreed>>

ApplyConfigRequest(c) ==
  ApplyEncode(c) \/ ApplyAdopt(c) \/ ApplyPersist(c) \/ ApplyRollback(c)

(* Configure: the new block goes to the register map first, *)
ConfigureWrite(c, new) ==
  /\ calls[c] = Idle
  /\ Validate(new)
  /\ declared
  /\ regs' = EncodeConfig(new)
  /\ begins(c, [pc |-> "store", new |-> new, clean |-> TRUE])
  /\ UNCHANGED <<declared, cfg, val>>

(* and then to the endpoint. *)
ConfigureStore(c, next) ==
  /\ calls[c].pc = "store"
  /\ cfg' = calls[c].new
  /\ val' = Configured(calls[c].new, val)
  /\ succeeds(c, next)
  /\ UNCHANGED <<declared, regs>>

(* The root client replaces the register map through EP0: the block behind *)
(* the endpoint's back, or the endpoint itself.                            *)
WriteEP0(there, block) ==
  /\ declared' = there
  /\ regs' = block
  /\ agreed' = FALSE
  /\ calls' = [d \in Caller |-> IF calls[d].pc \in ConfigSteps
                                  THEN [calls[d] EXCEPT !.clean = FALSE] ELSE calls[d]]
  /\ UNCHANGED <<cfg, val>>

Rewrite == \E w \in RootBlocks : WriteEP0(w.there, w.block)

(* What the rest of an endpoint does: a call in progress goes on without   *)
(* touching the configuration, or something happens outside the calls.     *)
Elsewhere ==
  /\ calls' = [d \in Caller |-> calls'[d]]
  /\ \A d \in Caller : calls'[d] = calls[d] \/ {calls[d].pc, calls'[d].pc} \cap ConfigSteps = {}
  /\ UNCHANGED <<declared, regs, cfg, agreed>>

(* The endpoint as its register map and its clients see it: the abstract   *)
(* specification that each package implements.                             *)
ConfigNext ==
  \/ \E c \in Caller :
       \/ ApplyConfigRequest(c)
       \/ \E new \in Configs : ConfigureWrite(c, new)
       \/ calls'[c].pc \notin ConfigSteps /\ ConfigureStore(c, calls'[c])
  \/ Rewrite
  \/ Elsewhere

ConfigSpec == EndpointInit /\ [][ConfigNext]_<<declared, regs, cfg, val, calls, agreed>>
----------------------------------------------------------------------------
(* Whatever the order of Configure, configuration requests, their          *)
(* rollbacks and writes to the register map, the configuration an endpoint *)
(* works with is one that its Validate accepts, or the initial one.        *)
ConfigValid == cfg = Zero \/ Validate(cfg)

(* After a change of configuration that no other change and no write of    *)
(* the register map overlapped, the endpoint works with the configuration  *)
(* that the register map shows, until one of those happens.                *)
AgreesWhenAlone ==
  agreed /\ (\A c \in Caller : calls[c].pc \notin ConfigSteps)
    => \/ regs = <<>> /\ cfg = Zero
       \/ regs # <<>> /\ DecodeConfig(regs) = cfg
=============================================================================
