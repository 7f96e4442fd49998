--------------------------- MODULE MCControlLoop ---------------------------
(* A unit of rating 12 and loads of nothing and of 9, with a resource below *)
(* and above what the limits need.  The export-limited site is checked with *)
(* an import limit that matters and with none.                              *)
EXTENDS ControlLoop

MCWithoutImport == {[mode |-> "export_limit", import |-> 99]}

MCSites == MCWithoutImport \cup
             {[mode |-> "export_limit", import |-> 3], [mode |-> "import_limit", import |-> 3]}

=============================================================================
