-------------------------- MODULE MCAssetSelection --------------------------
\* Two phones that differ in all but the version, tables of one or two groups,
\* a supplied file that is the table's asset or one of the same name, or not.
EXTENDS AssetSelection, TLC

MCLab == "CarrierLab.bundle"
MCLabId == "com.apple.CarrierLab"

Phone(product, hardware, board, build) ==
  [product |-> product, hardware |-> hardware, board |-> board,
   version |-> "27.0", build |-> build]

MCDevices ==
  ("u1" :> Phone("iPhone14,7", "D27AP", "24", "24A437")) @@
  ("u2" :> Phone("iPhone15,4", "D37AP", "10", "24B100"))

\* "27.0 beta", in a table, is no version.
MCVersion == ("27.0" :> 27) @@ ("27" :> 27) @@ ("26.0" :> 26)

Good == [name |-> MCLab, plists |-> TRUE, identifier |-> MCLabId, sims |-> TRUE,
         data |-> "72.0"]
Other == [Good EXCEPT !.data = "71.0"]
Stranger == [Good EXCEPT !.identifier = "com.apple.MTS_ru"]
Stripped == [Good EXCEPT !.plists = FALSE, !.sims = FALSE]

File(kind, payload, elsewhere) ==
  [kind |-> kind, payload |-> payload, elsewhere |-> elsewhere]

Recorded == File("zip", {Good}, {Stripped})
MCFiles ==
  { Recorded, File("zip", {Good, Stranger}, {}), File("zip", {}, {Other}),
    File("directory", {Good}, {}), File("directory", {Stranger}, {}) }

Table == [dir |-> "assets", name |-> "CarrierLab.ipcc"]
Unpacked == [dir |-> "assets", name |-> MCLab]
MCPaths == { Table, [dir |-> "downloads", name |-> "CarrierLab.ipcc"], Unpacked }
MCIpcc == {"CarrierLab.ipcc"}

Group(build, version, models, products, asset, sha256) ==
  [build |-> build, version |-> version, models |-> models,
   products |-> products, asset |-> asset, sha256 |-> sha256]

MCTables ==
  { << Group("24A437", "27", {"D27AP"}, {"iPhone14,7"}, Table, Recorded) >>,
    << Group("24A437", "26.0", {"D27AP"}, {}, Table, None),
       Group("24A437", "", {"D27AP", "D37AP", "24"}, {}, Table, Recorded) >>,
    << Group("24A437", "", {"D27AP", "D37AP"}, {"iPhone15,4"}, Table, None),
       Group("24B100", "27.0 beta", {"D37AP"}, {}, Unpacked, None),
       Group("24B100", "", {"D37AP"}, {}, Unpacked, None) >> }
=============================================================================
