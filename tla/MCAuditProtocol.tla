-------------------------- MODULE MCAuditProtocol --------------------------
(***************************************************************************)
(* Small instances of AuditProtocol for TLC.                               *)
(***************************************************************************)
EXTENDS AuditProtocol

(* Blocks of one segment, one of them above the group order.               *)
OneSegment == {<<1>>, <<5>>}

(* Blocks of two segments, two of them with the same sum.                  *)
TwoSegments == {<<0, 1>>, <<1, 0>>}
=============================================================================
