---------------------------------- MODULE MCPsg ----------------------------------
(***************************************************************************)
(* Psg with short lengths and few frequencies.  What a generator shares    *)
(* with another is varied for one of them.                                 *)
(***************************************************************************)
EXTENDS Psg

Loud == [divider |-> 0, up |-> FALSE, initial |-> MaxVolume]
Mute == [divider |-> 0, up |-> FALSE, initial |-> 0]
Swell == [divider |-> 1, up |-> TRUE, initial |-> 0]
Fade == [divider |-> 1, up |-> FALSE, initial |-> MaxVolume]

MCMaxLength == [k \in Kind |-> CASE k = "sweep" -> 1 [] k = "wave" -> 3 [] OTHER -> 2]
MCLength == [k \in Kind |-> 1 .. MCMaxLength[k]]
MCCounting == [k \in Kind |-> IF k = "sweep" THEN {FALSE} ELSE BOOLEAN]
MCShape == [k \in Kind |-> CASE k = "quad" -> {Loud, Mute, Swell, Fade}
                             [] k = "wave" -> {}
                             [] k = "sweep" -> {Loud}
                             [] k = "noise" -> {Loud, Mute}]
=============================================================================
