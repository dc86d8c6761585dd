------------------------------ MODULE MCImport ------------------------------
(* ImportPipeline with the order of the sources, its reverse, one in which  *)
(* consumers and producers alternate, and a build without the osr.          *)
EXTENDS ImportPipeline

MCOrders ==
  {<<"gbfs", "intermodal", "nigiri", "osr", "parking", "ppr", "tiles">>,
   <<"tiles", "ppr", "parking", "osr", "nigiri", "intermodal", "gbfs">>,
   <<"parking", "nigiri", "gbfs", "ppr", "osr", "tiles">>,
   <<"gbfs", "nigiri", "osrm", "adr">>}

MCInputs ==
  {[osm |-> o, coastline |-> TRUE, dem |-> d, schedule |-> s, required |-> r] :
     o \in {<<"file1">>, <<"file1", "file2">>}, d \in BOOLEAN, r \in BOOLEAN,
     s \in {"absent", "applicable", "inapplicable"}}
=============================================================================
