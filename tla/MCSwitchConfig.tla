--------------------------- MODULE MCSwitchConfig ---------------------------
(***************************************************************************)
(* SwitchConfig with 5-bit indices and messages as the controller's rounds *)
(* produce them: healthy layouts, an ill one, an empty median zone,        *)
(* thresholds at and beyond the range of filter 1, equal, and upside down. *)
(***************************************************************************)
EXTENDS SwitchConfig

Msg(s, m, h, range, hl, hh) ==
    [zone_size |-> [j \in Zone |-> <<s, m, h>>[j + 1]],
     zone_base |-> [j \in Zone |-> <<0, s, s + m>>[j + 1]],
     whether_range |-> range, thresh |-> <<hl, hh>>, drop_rate |-> 3]

MCConfigs == { Msg(0, 1, 3, 1, 0, 0), Msg(0, 3, 1, 1, 0, 2), Msg(0, 2, 2, 1, 0, 5),
               Msg(1, 2, 1, 1, 1, 3), Msg(1, 2, 1, 1, 3, 3), Msg(1, 2, 1, 0, 3, 3),
               Msg(1, 2, 1, 1, 4, 6), Msg(1, 2, 1, 1, 3, 1), Msg(0, 0, 3, 1, 0, 2) }
=============================================================================
