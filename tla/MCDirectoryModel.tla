--------------------------- MODULE MCDirectoryModel ---------------------------
(* UUIDs i, j, k and those of the base and of the container people; the name *)
(* ANN differs from ann by case only, and a user may bear a UUID as its name.*)
EXTENDS DirectoryModel, TLC

MCUuids   == {"base", "people-uuid", "groups-uuid", "services-uuid", "i", "j", "k", "l"}
MCStrings == MCUuids \cup {"ann", "ANN", "J", "dev", "DEV"}
MCFold    == [s \in MCStrings |->
                CASE s = "ANN" -> "ann" [] s = "J" -> "j" [] s = "DEV" -> "dev" [] OTHER -> s]
MCContainerUuid == ("people" :> "people-uuid") @@ ("groups" :> "groups-uuid")
                   @@ ("services" :> "services-uuid")

MCUserItems ==
  {[entry_uuid |-> uuid, username |-> name, active |-> active, credential |-> credential] :
     uuid \in {"i", "j", "base"}, name \in {"ann", "ANN", "J"},
     active \in BOOLEAN, credential \in BOOLEAN}

MCGroupItems ==
  {[entry_uuid |-> uuid, groupname |-> name, members |-> members] :
     uuid \in {"k", "j", "people-uuid"}, name \in {"dev", "DEV"},
     members \in {<< >>, <<"ann">>, <<"j">>, <<"i", "J">>, <<"ANN", "i">>}}
  \cup {[entry_uuid |-> "l", groupname |-> "ann", members |-> <<"J", "ANN">>]}

MCBindItems ==
  {[entry_uuid |-> uuid, username |-> name, credential |-> name # "dev"] :
     uuid \in {"l", "k", "i"}, name \in {"ANN", "DEV", "dev"}}
=============================================================================
