--------------------------- MODULE MCProxyConfig ---------------------------
(* An instance of ProxyConfig for TLC: a sub-HAL with a dynamic sensor,    *)
(* two with direct channels, and libraries that do not load.  All use the  *)
(* handle 1.                                                               *)
EXTENDS ProxyConfig

CONSTANT Inject

Sensor(handle, direct) == [handle |-> handle, direct |-> direct]

Library(exports, version, sensors, dynamic, modes) ==
  [opens |-> TRUE, exports |-> exports, version |-> version,
   sensors |-> sensors, dynamic |-> dynamic, modes |-> modes]

Plain == Library("2.0", "2.0", <<Sensor(1, FALSE)>>, {2}, {NORMAL, Inject})
Direct == Library("2.1", "2.1", <<Sensor(1, TRUE), Sensor(HandleSpan + 3, TRUE)>>, {}, {NORMAL, Inject})
Other == Library("2.0", "2.0", <<Sensor(4, TRUE)>>, {}, {NORMAL, Inject})
Mislabelled == Library("2.1", "2.0", <<Sensor(1, FALSE)>>, {}, {NORMAL})
Missing == [Plain EXCEPT !.opens = FALSE]

InjectingModes == {NORMAL, Inject}
FiveLibraries == <<Missing, Direct, Mislabelled, Plain, Other>>
=============================================================================
