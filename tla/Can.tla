-------------------------------- MODULE Can --------------------------------
(***************************************************************************)
(* The CAN endpoint (can/): frames that write requests transmit, the frame *)
(* received last, and the layout of a frame in a request.  A flag byte is  *)
(* the set of its flags; an XL header is one element, 0 when it is zero.   *)
(***************************************************************************)
EXTENDS Bodies

CONSTANTS Caller, RootBlocks, Configs, Requests, Frames,
          StandardIDMax, ExtendedIDMax, MaxPayload
VARIABLES declared, regs, cfg, val, calls, agreed, fitted, hist

Zero == [enabled |-> FALSE, nominal |-> 0, data |-> 0]
Classical == 0
FD == 1
XL == 2

Validate(c) == c.enabled => c.nominal # 0
EncodeConfig(c) == <<IF c.enabled THEN 1 ELSE 0, c.nominal, c.data>>
DecodeConfig(b) == [enabled |-> b[1] # 0, nominal |-> b[2], data |-> b[3]]
Adopted(c, v) == v
Configured(c, v) == v

EP == INSTANCE Endpoint

FrameValidate(f) ==
  /\ f.format \in {Classical, FD, XL}
  /\ f.id <= IF "extended" \in f.flags THEN ExtendedIDMax ELSE StandardIDMax
  /\ Len(f.data) <= MaxPayload[f.format]
  /\ f.format = Classical => "brs" \notin f.flags
  /\ f.format # XL => f.xl = 0

(* Mutated form: the XL header is left out of the encoding. *)
EncodeFrame_NoXL(f) == <<f.format, f.flags, f.id>> \o <<Len(f.data)>> \o f.data

EncodeFrame(f) ==
  <<f.format, f.flags, f.id>> \o (IF f.format = XL THEN <<f.xl>> ELSE <<>>)
    \o <<Len(f.data)>> \o f.data

xlLen(b) == IF b[1] = XL THEN 1 ELSE 0
decodes(b) ==
  /\ Len(b) >= 3 /\ Len(b) >= 4 + xlLen(b)
  /\ Len(b) = 4 + xlLen(b) + b[4 + xlLen(b)]
DecodeFrame(b) ==
  [format |-> b[1], flags |-> b[2] \cap {"extended", "brs"}, id |-> b[3],
   xl |-> IF b[1] = XL THEN b[4] ELSE 0,
   data |-> SubSeq(b, 5 + xlLen(b), Len(b))]

(* val: the frame received, if any.  hist: the frame and the body of the   *)
(* last answered request, and the frames put on the bus.                   *)
Init ==
  /\ EP!EndpointInit
  /\ val = {} /\ fitted = FALSE
  /\ hist = [answers |-> {}, bus |-> {}]

SetTransport ==
  /\ fitted' = ~fitted
  /\ UNCHANGED <<declared, regs, cfg, val, calls, agreed, hist>>

(* A frame that is received is not validated. *)
SetReceivedFrame(f) ==
  /\ val' = {f}
  /\ UNCHANGED <<declared, regs, cfg, calls, agreed, fitted, hist>>

HandleRequest(c, r) ==
  LET d == EVTDisposition("ConfigOnly", r) IN
  /\ d.action # "error"
  /\ EP!Check(c, IF d.action = "configure" THEN [pc |-> "encode", req |-> r]
                 ELSE [pc |-> "enabled", req |-> r])
  /\ UNCHANGED <<fitted, hist>>

(* Then the configuration is read, and a frame to send is decoded. *)
Enabled(c) ==
  LET r == calls[c].req
      sendable == decodes(r.body) /\ FrameValidate(DecodeFrame(r.body))
  IN  /\ calls[c].pc = "enabled"
      /\ calls' = EP!set(c,
           IF ~cfg.enabled THEN EP!Idle
           ELSE IF ~r.write THEN [pc |-> "read"]
           ELSE IF sendable THEN [pc |-> "transmit", frame |-> DecodeFrame(r.body)]
           ELSE EP!Idle)
      /\ UNCHANGED <<declared, regs, cfg, val, agreed, fitted, hist>>

answered(f) == {<<f, EncodeFrame(f)>>}

transmit(c) ==
  LET f == calls[c].frame IN
  /\ calls[c].pc = "transmit"
  /\ \/ hist' = [answers |-> answered(f), bus |-> IF fitted THEN {f} ELSE {}]
     \/ fitted /\ UNCHANGED hist
  /\ EP!returns(c)
  /\ UNCHANGED <<declared, regs, cfg, val, agreed, fitted>>

lastReceived(c) ==
  /\ calls[c].pc = "read"
  /\ hist' = [answers |-> IF val = {} THEN {} ELSE UNION {answered(f) : f \in val},
              bus |-> {}]
  /\ EP!returns(c)
  /\ UNCHANGED <<declared, regs, cfg, val, agreed, fitted>>

Configure(c) ==
  \/ \E new \in Configs : EP!ConfigureWrite(c, new)
  \/ EP!ConfigureStore(c, EP!Idle)

Configuring(c) ==
  /\ Configure(c) \/ EP!ApplyConfigRequest(c)
  /\ UNCHANGED <<fitted, hist>>

Root == EP!Rewrite /\ UNCHANGED <<fitted, hist>>

Next ==
  \/ \E c \in Caller : \/ Configuring(c) \/ Enabled(c) \/ transmit(c) \/ lastReceived(c)
                       \/ \E r \in Requests : HandleRequest(c, r)
  \/ \E f \in Frames : SetReceivedFrame(f)
  \/ SetTransport
  \/ Root

----------------------------------------------------------------------------
(* What goes on the bus is a frame its format allows, and the body of an   *)
(* answer decodes to exactly the frame that was sent or received, but for  *)
(* the XL header of a received frame that is not an XL frame.              *)
AnswerCarriesTheFrame ==
  /\ \A f \in hist.bus : FrameValidate(f)
  /\ \A a \in hist.answers : decodes(a[2]) /\ DecodeFrame(a[2]) = [a[1] EXCEPT !.xl = IF a[1].format = XL THEN @ ELSE 0]
=============================================================================
