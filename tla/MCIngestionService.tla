-------------------------- MODULE MCIngestionService --------------------------
(* IngestionService with logs that are good, defaulted, and blank.         *)
EXTENDS IngestionService

CONSTANTS b, blank

SomeRaw == [e \in Entries |->
    CASE e = b     -> [service_name |-> "", level |-> "loud", message |-> " text "]
      [] e = blank -> [service_name |-> "payment", level |-> "INFO", message |-> " "]
      [] OTHER     -> [service_name |-> "payment", level |-> "error", message |-> "text"]]
===============================================================================
