---------------------------- MODULE MCEndpoints ----------------------------
(***************************************************************************)
(* Every endpoint type in one run: kind says which type a behaviour is     *)
(* about, and the types share the variables.  Two goroutines call the      *)
(* endpoint, beside the root client, the transport and the event reader.   *)
(***************************************************************************)
EXTENDS Integers, Sequences, FiniteSets, TLC

CONSTANTS c1, c2, Kinds
VARIABLES kind, declared, regs, cfg, val, calls, agreed, triggers, fitted, hist

vars == <<kind, declared, regs, cfg, val, calls, agreed, triggers, fitted, hist>>
Callers == {c1, c2}
Symmetric == Permutations(Callers)
gone == [there |-> FALSE, block |-> <<>>]
holds(b) == [there |-> TRUE, block |-> b]

(* Requests: evt selector, body, write flag, and the read size. *)
configure(body) == [evt |-> 7, body |-> body, write |-> TRUE]
write(evt, body) == [evt |-> evt, body |-> body, write |-> TRUE]
read(body, n) == [evt |-> 0, body |-> body, write |-> FALSE, want |-> n]

G == INSTANCE Gpio WITH Caller <- Callers, Width <- 2, MaxPins <- 2, MaxTriggers <- 2,
  RootBlocks <- {gone},
  Configs <- {[pins |-> 2, dir |-> {0}, trig |-> {0, 1}]},
  Requests <- {configure(<<0, 1, {}, {0}>>), configure(<<2, {0}>>),
               write(3, <<1>>), write(5, <<2>>), write(6, <<3>>)},
  Inputs <- {{}, {0, 1}}

A == INSTANCE Adc WITH Caller <- Callers, Width <- 2, MaxResolutionBits <- 3, MaxTriggers <- 1,
  RootBlocks <- {}, Samples <- {1, 7},
  Configs <- {[enabled |-> TRUE, bits |-> 3, count |-> 2, combine |-> 1, mode |-> 0]},
  Requests <- {configure(<<1, 1>>), configure(<<1, 4>>), write(0, <<>>), read(<<>>, 0)}

P == INSTANCE Pwm WITH Caller <- Callers, Width <- 1, Saturate <- 1, MaxTriggers <- 1,
  RootBlocks <- {}, Captures <- {},
  Configs <- {[enabled |-> TRUE, role |-> 0, active |-> 0, period |-> 1]},
  Requests <- {configure(<<0, 0>>), write(0, <<1, 1>>), write(5, <<1, 0>>), write(6, <<1, 1>>)}

PI == INSTANCE Pwm WITH Caller <- Callers, Width <- 1, Saturate <- 1, MaxTriggers <- 1,
  RootBlocks <- {}, Captures <- {<<0, 1>>},
  Configs <- {[enabled |-> TRUE, role |-> 1, active |-> 0, period |-> 0]},
  Requests <- {configure(<<1, 0>>), write(0, <<0, 1>>)}

U == INSTANCE Uart WITH Caller <- Callers, Width <- 2, MaxBytes <- 3, MaxTriggers <- 1,
  RootBlocks <- {}, Inputs <- {<<1, 2>>},
  Configs <- {[enabled |-> TRUE, baud |-> 1, dataBits |-> 8]},
  Requests <- {configure(<<0, 0>>), write(0, <<3>>), read(<<>>, 1), read(<<>>, 2)}

S == INSTANCE Spi WITH Caller <- Callers, Width <- 2, Channels <- 0..1, MaxTriggers <- 1,
  RootBlocks <- {},
  ChannelConfigs <- {[enabled |-> TRUE, clock |-> 1, mode |-> 0]},
  Requests <- {configure(<<4, 0>>), write(0, <<1>>), write(1, <<1>>), write(6, <<1>>)}

I == INSTANCE I2c WITH Caller <- Callers, Width <- 2, MaxTriggers <- 2,
  RootBlocks <- {gone, holds(<<1, 4, 0>>)},
  Configs <- {[enabled |-> TRUE, speed |-> 1, trailing |-> 0]},
  Requests <- {configure(<<1, 4>>), configure(<<1, 5>>), configure(<<2, 1, 1>>), write(0, <<1>>),
               write(1, <<1>>)}

L == INSTANCE Lin WITH Caller <- Callers, Width <- 2, MaxTriggers <- 1,
  RootBlocks <- {gone, holds(<<>>)},
  Configs <- {[enabled |-> TRUE, baud |-> 1, trailing |-> 0]},
  Requests <- {configure(<<1, 2>>), configure(<<1, 0>>), write(0, <<1>>)}

frame(f, flags, id, xl, data) == [format |-> f, flags |-> flags, id |-> id, xl |-> xl, data |-> data]

C == INSTANCE Can WITH Caller <- Callers, Width <- 2,
  StandardIDMax <- 1, ExtendedIDMax <- 2, MaxPayload <- (0 :> 1 @@ 1 :> 2 @@ 2 :> 3),
  RootBlocks <- {},
  Configs <- {[enabled |-> TRUE, nominal |-> 1, data |-> 0]},
  Frames <- {frame(2, {"extended"}, 2, 1, <<1, 2, 3>>), frame(1, {"brs"}, 1, 0, <<>>),
              frame(0, {"brs"}, 5, 1, <<1, 2>>)},
  Requests <- {configure(<<1, 0>>), configure(<<1, 2, 2>>), read(<<>>, 0)} \cup
              {write(0, b) : b \in {<<0, {"brs"}, 1, 0>>, <<2, {"extended"}, 2, 1, 2, 1, 2>>,
                                    <<2, {}, 0, 1, 2, 1>>}}

EC == INSTANCE Bodies WITH Width <- 8

E == INSTANCE Iseled WITH Caller <- Callers, Width <- 8, DeviceBroadcast <- 255, MaxTriggers <- 1,
  RootBlocks <- {},
  Configs <- {[enabled |-> TRUE, count |-> 2, timeout |-> 0]},
  Requests <- {configure(<<1, 1>>), write(0, EC!EncodeCommand(255, <<7>>)),
               write(0, EC!EncodeCommand(1, <<>>))}

M == INSTANCE Mdio WITH Caller <- Callers, Width <- 2, AddrSpace <- 8, DevAddrMax <- 3, Word <- 2,
  MaxTriggers <- 1, RootBlocks <- {},
  Configs <- {[enabled |-> TRUE]},
  Requests <- {configure(<<0, 0>>), write(0, <<17, 1, 0>>), write(0, <<17, 0, 1>>),
               read(<<17>>, 0), read(<<1>>, 0), write(0, <<20, 1>>)}

Init ==
  /\ kind \in Kinds
  /\ \/ kind = "gpio" /\ G!Init /\ fitted = FALSE
     \/ kind = "adc" /\ A!Init /\ hist = 0
     \/ kind = "pwm" /\ P!Init
     \/ kind = "capture" /\ PI!Init
     \/ kind = "uart" /\ U!Init
     \/ kind = "spi" /\ S!Init
     \/ kind = "i2c" /\ I!Init /\ hist = 0
     \/ kind = "lin" /\ L!Init /\ hist = 0
     \/ kind = "can" /\ C!Init /\ triggers = <<>>
     \/ kind = "iseled" /\ E!Init
     \/ kind = "mdio" /\ M!Init

Next ==
  /\ UNCHANGED kind
  /\ \/ kind = "gpio" /\ G!Next /\ UNCHANGED fitted
     \/ kind = "adc" /\ A!Next /\ UNCHANGED hist
     \/ kind = "pwm" /\ P!Next
     \/ kind = "capture" /\ PI!Next
     \/ kind = "uart" /\ U!Next
     \/ kind = "spi" /\ S!Next
     \/ kind = "i2c" /\ I!Next /\ UNCHANGED hist
     \/ kind = "lin" /\ L!Next /\ UNCHANGED hist
     \/ kind = "can" /\ C!Next /\ UNCHANGED triggers
     \/ kind = "iseled" /\ E!Next
     \/ kind = "mdio" /\ M!Next

Spec == Init /\ [][Next]_vars
----------------------------------------------------------------------------
(* In every endpoint type, the configuration in use is one Validate        *)
(* accepts or the initial one, and a change of configuration that ran      *)
(* alone leaves the endpoint working with what the register map shows,     *)
(* whatever Configure, configuration requests, rollbacks and writes of the *)
(* register map interleave.                                                *)
ConfigSound ==
  /\ kind = "gpio" => G!EP!ConfigValid /\ G!EP!AgreesWhenAlone
  /\ kind = "adc" => A!EP!ConfigValid /\ A!EP!AgreesWhenAlone
  /\ kind = "pwm" => P!EP!ConfigValid /\ P!EP!AgreesWhenAlone
  /\ kind = "capture" => PI!EP!ConfigValid /\ PI!EP!AgreesWhenAlone
  /\ kind = "uart" => U!EP!ConfigValid /\ U!EP!AgreesWhenAlone
  /\ kind = "spi" => S!EP!ConfigValid /\ S!EP!AgreesWhenAlone
  /\ kind = "i2c" => I!EP!ConfigValid /\ I!EP!AgreesWhenAlone
  /\ kind = "lin" => L!EP!ConfigValid /\ L!EP!AgreesWhenAlone
  /\ kind = "can" => C!EP!ConfigValid /\ C!EP!AgreesWhenAlone
  /\ kind = "iseled" => E!EP!ConfigValid /\ E!EP!AgreesWhenAlone
  /\ kind = "mdio" => M!EP!ConfigValid /\ M!EP!AgreesWhenAlone

(* Every package but spi, whose SetChannelConfig takes a third step,       *)
(* implements the shared specification ConfigSpec: it takes the steps of   *)
(* that, in the same order, and no other step that touches a configuration.*)
ImplementsEndpoint ==
  [][/\ kind = "gpio" => G!EP!ConfigNext
     /\ kind = "adc" => A!EP!ConfigNext
     /\ kind = "pwm" => P!EP!ConfigNext
     /\ kind = "capture" => PI!EP!ConfigNext
     /\ kind = "uart" => U!EP!ConfigNext
     /\ kind = "i2c" => I!EP!ConfigNext
     /\ kind = "lin" => L!EP!ConfigNext
     /\ kind = "can" => C!EP!ConfigNext
     /\ kind = "iseled" => E!EP!ConfigNext
     /\ kind = "mdio" => M!EP!ConfigNext]_vars

(* Values stay where the configuration allows them: no GPIO level on a pin *)
(* that is not there, no PWM pulse longer than its period.                 *)
ValuesFit ==
  /\ kind = "gpio" => G!ValueOnPins
  /\ kind = "pwm" => P!PulseWithinPeriod

(* The events, drained or pending, tell what happened: every edge of a     *)
(* GPIO pin whose trigger is enabled, the begin and end of every SPI       *)
(* transfer, every change of an MDIO register.                             *)
EventsTell ==
  /\ kind = "gpio" => G!EventsTellEdges
  /\ kind = "spi" => S!SelectsBalanced
  /\ kind = "mdio" => M!EventsTellRegisters

(* Answers tell what is on the wire: the PWM waveform reported is the one  *)
(* put out, unless calls raced, the UART delivers received bytes once and  *)
(* in order, CAN answers with the frame it sent, and an ISELED answer      *)
(* decodes to one response per device addressed.                           *)
AnswersTellTheWire ==
  /\ kind = "pwm" => P!AppliedIsOnTheWire
  /\ kind = "uart" => U!BytesOnceInOrder
  /\ kind = "can" => C!AnswerCarriesTheFrame
  /\ kind = "iseled" => E!ChainAnswers

(* No step goes beyond what it was asked for: an ADC measurement fits the  *)
(* resolution it was made with, and SetChannelConfig, alone, changes one   *)
(* SPI channel.                                                            *)
StepsFit ==
  [][/\ kind = "adc" => A!MeasurementFits
     /\ kind = "spi" => S!OneChannelChanges]_vars
=============================================================================
