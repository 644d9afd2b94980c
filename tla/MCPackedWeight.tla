--------------------------- MODULE MCPackedWeight ---------------------------
(* PackedWeight for TLC, one client that imports what it loads.            *)
EXTENDS PackedWeight

NMaxOf == [s \in {"rk3588"} |-> 4]
PkShapes == {<<4, 4>>}
PkKv == <<4, 4, 4>>
PkObjs == 1 .. 24
=============================================================================
