------------------------ MODULE MCSqliteInvoiceStore ------------------------
(* Two processes with a call each.                                         *)
EXTENDS SqliteInvoiceStore, TLC

CONSTANTS p1, p2, c1, c2, a0, a1

MCHome == (c1 :> p1) @@ (c2 :> p2)
MCDerive == (0 :> a0) @@ (1 :> a1)
=============================================================================
