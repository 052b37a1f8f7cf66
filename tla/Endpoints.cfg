CONSTANTS
  c1 = c1
  c2 = c2
  Kinds = {"gpio", "adc", "pwm", "capture", "uart", "spi", "i2c", "lin", "can", "iseled", "mdio"}
SPECIFICATION Spec
SYMMETRY Symmetric
INVARIANTS
  ConfigSound
  ValuesFit
  EventsTell
  AnswersTellTheWire
PROPERTIES
  StepsFit
  ImplementsEndpoint
