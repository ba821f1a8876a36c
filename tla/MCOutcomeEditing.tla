------------------------- MODULE MCOutcomeEditing -------------------------
(* Instances of OutcomeEditing: two clients, every operation, on an outcome  *)
(* and what has been made before.                                            *)
EXTENDS OutcomeEditing, TLC

MCTypes == {"html", "json"}
Config(type) == [type |-> type, valid |-> TRUE]
Invalid == [type |-> "html", valid |-> FALSE]

Ids == 1..4

Edits ==
    [op : {"create"}]
    \union [op : {"update"}, id : Ids, title : {{}, {2}}, order : {{}, {0}}]
    \union [op : {"delete", "clone"}, id : Ids]
    \union [op : {"reorder"}, id : Ids,
            items : {{[id |-> 2, order |-> 1], [id |-> 2, order |-> 0]},
                     {[id |-> 2, order |-> 1], [id |-> 3, order |-> 0]}}]
Adds ==
    [op : {"add_component"}, id : Ids, type : {{"html"}},
     config : {{Config("html")}, {Config("json")}, {Invalid}}, order : {{}, {2}}]
Patches ==
    [op : {"update_component"}, id : Ids, type : {{}, {"json"}},
     config : {{}, {Config("html")}, {Config("json")}}, order : {{}}]
    \union [op : {"update_component"}, id : Ids, type : {{}}, config : {{}, {Invalid}}, order : {{1}}]
    \union [op : {"update_component"}, id : Ids, type : {{"bogus"}}, config : {{}}, order : {{}}]
    \union [op : {"delete_component"}, id : Ids]

MCRequests == Edits \union Adds \union Patches

Symmetry == Permutations(Clients)

=============================================================================
