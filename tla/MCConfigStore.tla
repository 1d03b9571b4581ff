--------------------------- MODULE MCConfigStore ----------------------------
(* A small instance of ConfigStore for TLC: retentions whose text keeps one,  *)
(* two or three units, and files that are complete, lack a key, have a text   *)
(* that ParseDuration refuses in either of its ways, are refused by validate  *)
(* or are not JSON.                                                           *)
EXTENDS ConfigStore

MCNames == {"ffmpeg", "make"}
MCRetentions == {45, 600, 5400, 36 * Hour, Day, 4210, 7 * Day}
Typed(text, list) == File("text", text, list)
MCUserFiles == {Broken,
                Typed(<< <<0, "s">> >>, {}),
                Typed(<< <<1, "d">>, <<12, "h">> >>, {}),
                Typed(<< <<12, "h">>, <<1, "d">> >>, {"make"}),
                Typed(Absent, {"make"}),
                Typed(<< <<90, "m">> >>, {}),
                Typed(<< <<10, "m">>, <<0, "s">> >>, {"ffmpeg"}),
                Typed(<< <<36, "h">> >>, {}),
                Typed(<< <<4210, "s">> >>, {}),
                Typed(<< <<45, "s">> >>, {}),
                Typed(<< <<7, "d">> >>, {"ffmpeg", "make"})}
=============================================================================
