--------------------------- MODULE MCReassembler ---------------------------
(* Model-checking instances of Reassembler. *)
EXTENDS Reassembler

CONSTANTS k1, k2, h1, h2, f0, f1, z, a, b, w1, w2

(* The two keys differ above the low byte of byte_bus_id. *)
MCCovered == [k \in {k1, k2} |-> k1]

msg(k, h, f, size, body) == [key |-> k, hdr |-> h, flags |-> f, size |-> size, body |-> body]

(* A message of four segments, one of two that has its key, header and     *)
(* first segment, and one of one segment under another header.             *)
MCPlain ==
  {msg(k1, h1, f0, 0, <<a, a, a, a, b, b, b, b, b, b, b, b, a>>),
   msg(k1, h1, f0, 1, <<a, a, a, a, z>>),
   msg(k1, h2, f1, 0, <<b>>)}

(* Safe points that Split leaves whole at MaxBody 4: no padding.  The      *)
(* checksum does not tell the two apart.                                   *)
MCGuarded == {msg(k, h2, f1, 0, <<a, b, a, z>>) : k \in {k1, k2}}

(* A payload whose padding fills the segment before the safe point. *)
PaddedGuarded == {msg(k1, h1, f0, 0, <<a, b, a>>)}
=============================================================================
