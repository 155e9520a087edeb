----------------------------- MODULE MCGptDevices -----------------------------
(* Disks for TLC: names that begin alike, twins in any order and on another *)
(* disk than their partition, a partition without twin, and names that are   *)
(* skipped.                                                                 *)
EXTENDS GptDevices

Orders(S) == {s \in [1 .. Cardinality(S) -> S] : NoRepeats(s)}

cmnlib == <<"cmnlib">>
cmnlib64 == <<"cmnlib", "64">>
tz  == <<"tz">>
xbl == <<"xbl">>
cfg == <<"xbl", "_config">>
oem == <<"multiimgoem">>

MCSwapList == <<xbl, cfg, oem, cmnlib, tz, oem, cmnlib64>>

First  == Orders({cmnlib, Bak(cmnlib), cmnlib64, Bak(cmnlib64)})
           \cup {<<cmnlib, Bak(cmnlib), tz, cmnlib64>>, <<Bak(cmnlib), cfg, Bak(cfg), tz>>}
Second == {<<Bak(tz), tz, xbl, Bak(xbl)>>, <<tz, Bak(tz), <<"xbl", "_a">>, <<"xbl", "_b">>>>,
           <<oem, Bak(oem), Bak(xbl), <<"xbl", "_a">>, <<"xbl", "_b">>>>,
           <<Bak(tz), tz, Bak(xbl)>>, <<xbl, <<"xbl", "_b">>, <<"boot">>>>}

Unique(d) == Elements(d["sda"]) \cap Elements(d["sdb"]) = {}
MCLayouts == {d \in [{"sda", "sdb"} -> First \cup Second] :
                 d["sda"] \in First /\ d["sdb"] \in Second /\ Unique(d)}
  \cup {[l \in {"sda", "sdb"} |-> IF l = "sda" THEN s ELSE <<>>] :
          s \in First \cup {<<Bak(xbl), cfg, xbl, Bak(cfg), tz>>}}
MCUnresolved == {{}, {Bak(cmnlib)}, {Bak(xbl)}}
MCPtnLists == {<<cmnlib, tz, xbl, <<"boot">>, cmnlib64, tz>>}
=============================================================================
