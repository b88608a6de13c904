----------------------------- MODULE MCRegionCard -----------------------------
(* Two requests and the pass overlap, over two regions.                        *)
EXTENDS RegionCard

CONSTANTS f1, f2
MCRefreshes == {f1, f2}
MCRegions == {"china", "international"}
===============================================================================
