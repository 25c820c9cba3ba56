--------------------------- MODULE MCStationClient ---------------------------
(* A small instance of StationClient: a noise diode, which has several     *)
(* callbacks and is sampled on every change, and an angle, sampled         *)
(* periodically, in two components.                                        *)
EXTENDS StationClient

MCSampling == <<"noisediode", "azim">>
MCPeriodic == {"azim"}
MCComponents == {"rx", "acs"}
MCComponentOf == [s \in {"noisediode", "azim"} |->
                    IF s = "azim" THEN "acs" ELSE "rx"]
MCCallbacks == {"diodeSource", "diodeLevel", "actualAz"}
MCSensorOf == [c \in MCCallbacks |->
                 IF c = "actualAz" THEN "azim" ELSE "noisediode"]
MCHandlers == {"server", "writer"}
MCCalls ==
  <<<<"server", "diodeSource">>, <<"server", "diodeLevel">>, <<"server", "actualAz">>,
    <<"writer", "diodeSource">>, <<"writer", "diodeLevel">>, <<"writer", "actualAz">>>>
=============================================================================
