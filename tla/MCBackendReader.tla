--------------------------- MODULE MCBackendReader ---------------------------
(* Two members in two zones and one backend in each zone (the zonal split  *)
(* of spec section 8, scenario 5).                                         *)
EXTENDS BackendReader

CONSTANTS p1, p2, b1, b2, zx, zy

MCMembers == {p1, p2}
MCBackends == {b1, b2}
MCOneBackend == {b1}
MCZones == {zx, zy}
MCZoneOf == [b \in MCBackends |-> IF b = b1 THEN zx ELSE zy]
MCMemberZone == [m \in MCMembers |-> IF m = p1 THEN zx ELSE zy]
=============================================================================
