------------------------------ MODULE MCScreens ------------------------------
(***************************************************************************)
(* Small instances of the metric builder and of the organisation page, one *)
(* of them at a time.                                                      *)
(***************************************************************************)
EXTENDS TreeScreen, OrgScreens

CONSTANT Pages   \* those that are opened: "metrics", "organisation"

VARIABLE open    \* the one of this behaviour

\* On the pane where metrics are added, one request at a time is under way.
MCMay ==
  [s \in SourceTypes |->
     IF s = "ALIMI" THEN {"pick", "bulk", "drag", "dragCategory", "addCategory", "save"}
     ELSE IF s = "INTERNAL"
     THEN {"drag", "save", "renameCategory", "settings", "hide", "deleteCategory"}
     ELSE {"add", "drag", "save", "rename", "settings", "delete", "formula"}]
MCActs == [s \in SourceTypes |-> IF s = "INTERNAL" THEN 5 ELSE 4]
MCWire == [s \in SourceTypes |-> IF s = "MONITORING" THEN 1 ELSE 2]

Edit == [may |-> {"drag", "dragHead", "save", "createHead", "createMember", "rename", "abolish"}, acts |-> 3]
Arrange == [may |-> {"pick", "bulk", "drag", "dragHead", "save", "year", "tab"}, acts |-> 5]
EarlierYear == [may |-> {"drag", "save", "rename", "abolish", "year"}, acts |-> 4]
MCErrands == {Edit, Arrange, EarlierYear}

MCInit ==
  /\ TreeScreenInit /\ OrgScreensInit /\ open \in Pages
  /\ open = "metrics" => tab = "academic" /\ year = MinYear /\ errand = Edit
  /\ open = "organisation" => /\ source = "ALIMI" /\ catOrder[Uncat] = NULL
                              /\ \A m \in StoredMetrics : metricRow[m].parent = NULL

MCNext ==
  /\ \/ open = "metrics" /\ TreeScreenNext /\ UNCHANGED osvars
     \/ open = "organisation" /\ OrgScreensNext /\ UNCHANGED tsvars
  /\ UNCHANGED open

MCSpec == MCInit /\ [][MCNext]_<<tsvars, osvars, open>>
=============================================================================
