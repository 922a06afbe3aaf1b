----------------------------- MODULE MCLogProducer -----------------------------
(* LogProducer with a log that is good.                                    *)
EXTENDS LogProducer

Good == [e \in Entries |-> [service_name |-> "payment", level |-> "error", message |-> "text"]]
===============================================================================
