SPECIFICATION Spec
CONSTANTS
  k1 = k1
  k2 = k2
  h1 = h1
  h2 = h2
  f0 = f0
  f1 = f1
  z = z
  a = a
  b = b
  w1 = w1
  w2 = w2
  Key = {k1, k2}
  Covered <- MCCovered
  Header = {h1, h2}
  Flags = {f0, f1}
  NoFlags = f0
  Byte = {z, a, b}
  Zero = z
  Plain <- MCPlain
  Guarded <- MCGuarded
  MaxBody = 4
  MaxSegments = 3
  Timeout = 1
  Workers = {w1, w2}
  MaxAdds = 2
  MaxClock = 0
INVARIANTS
  GatewayVerbatim
